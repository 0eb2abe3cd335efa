------------------------------ MODULE FxProofs ------------------------------
(***************************************************************************)
(* Payment versus payment, for every number of workers, settlements, nodes *)
(* and crashes and for every rate feed: the FX workers implement the       *)
(* journal discipline of Ledger.tla and are therefore solvent; the         *)
(* settlements table, the outbox and the journal agree at every commit.    *)
(*                                                                         *)
(* FxRowInv says what is on record at each status and what a worker has    *)
(* written to each row of its batch, before, at and after its position; it *)
(* needs nothing of the journal.  LegsInv relates both to the journal.     *)
(***************************************************************************)
EXTENDS FxSettlement, LedgerProofs

(* What is on record of a settlement follows from its status, and for a    *)
(* failed one from the leg that failed.                                    *)
RowsOnRecord ==
  \A r \in Refs :
    \/ status[r] = "none" /\ legs[r] = {} /\ outbox[r] = <<>>
    \/ status[r] = "queued" /\ legs[r] = {} /\ outbox[r] = <<"initiated">>
    \/ /\ status[r] = "settled" /\ legs[r] = {"sell", "buy"}
       /\ outbox[r] = <<"initiated", "leg.sell", "leg.buy", "completed">>
    \/ /\ status[r] = "failed" /\ legs[r] = {}
       /\ outbox[r] = <<"initiated", "failed">>
    \/ /\ status[r] = "failed" /\ legs[r] = {"sell"}
       /\ outbox[r] = <<"initiated", "leg.sell", "failed">>

(* Every settlement on record has a positive amount to buy. *)
AmountsOnRecord == \A r \in Refs : status[r] # "none" => buyAmount[r] \in Amounts

(* The rows a worker holds are queued, no other worker holds them, and it  *)
(* holds each once.                                                        *)
RowsHeldOnce ==
  /\ \A w \in Workers, r \in Refs : InBatch(w, r) => status[r] = "queued"
  /\ \A v, w \in Workers, r \in Refs : InBatch(v, r) /\ InBatch(w, r) => v = w
  /\ \A w \in Workers : \A i, j \in DOMAIN batch[w] :
       batch[w][i] = batch[w][j] => i = j

(* Where a worker is in its batch. *)
WorkerAtRow ==
  \A w \in Workers :
    /\ pc[w] = "idle" => batch[w] = <<>>
    /\ pc[w] \in {"lock", "read", "act", "sign"} => pos[w] \in 1..Len(batch[w])
    /\ pc[w] = "commit" => pos[w] = Len(batch[w]) + 1
    /\ pc[w] = "sign" => leg[w] = "buy"

(* The legs a worker has recorded for the row it is at. *)
LegsSoFar(w) ==
  IF pc[w] = "sign" THEN {"sell", "buy"} ELSE IF leg[w] = "buy" THEN {"sell"} ELSE {}

(* A row a worker is done with: both legs, or a leg that failed. *)
Resolved(row) ==
  \/ row.status = "settled" /\ row.legs = {"sell", "buy"}
  \/ row.status = "failed" /\ row.legs \in {{}, {"sell"}}

(* What a worker has written before, at and after its position. *)
WrittenUpToPos ==
  \A w \in Workers :
    /\ \A r \in Refs : ~InBatch(w, r) => written[w][r] = Untouched
    /\ \A i \in DOMAIN batch[w] :
         LET row == written[w][batch[w][i]]
         IN  /\ i < pos[w] => Resolved(row)
             /\ i = pos[w] => row.status = "none" /\ row.legs = LegsSoFar(w)
             /\ i > pos[w] => row = Untouched

(* Only finitely many settlements have been initiated. *)
FinitelyMany == IsFiniteSet({r \in Refs : status[r] # "none"})

(* The inductive invariant of the settlements table and the workers. *)
FxRowInv ==
  /\ RowTypeOK
  /\ WorkerTypeOK
  /\ FinitelyMany
  /\ RowsOnRecord
  /\ AmountsOnRecord
  /\ RowsHeldOnce
  /\ WorkerAtRow
  /\ WrittenUpToPos

(* The legs a worker has recorded in its open transaction. *)
SoldBy(w) == {r \in Refs : "sell" \in written[w][r].legs}
BoughtBy(w) == {r \in Refs : "buy" \in written[w][r].legs}

(* The entries a worker has pending are those of the legs it recorded. *)
PendingReconciled ==
  \A w \in Workers, k \in Keys :
    delta[w][k] = SumFunctionOnSet(SaleOf(k), SoldBy(w))
                    + SumFunctionOnSet(PurchaseOf(k), BoughtBy(w))

(* The inductive invariant behind LegsReconcile. *)
LegsInv == PendingReconciled /\ LegsReconcile

-----------------------------------------------------------------------------
(* The settlements table and the workers.                                  *)

(* A sequence of queued rows, as the worker's query returns it, is a       *)
(* sequence of settlement references.                                      *)
LEMMA BatchIsSequence ==
  ASSUME NEW n \in Nat, NEW q \in [1..n -> Fetchable]
  PROVE  q \in Seq(Refs) /\ Len(q) = n /\ DOMAIN q = 1..n
<1>1. q \in [1..n -> Refs]
  BY DEF Fetchable
<1> QED
  BY <1>1

(* The events a commit writes for a resolved row. *)
LEMMA EventsOfResolved ==
  ASSUME NEW row, Resolved(row)
  PROVE  EventsOf(row) =
           IF row.status = "settled" THEN <<"leg.sell", "leg.buy", "completed">>
           ELSE IF row.legs = {"sell"} THEN <<"leg.sell", "failed">> ELSE <<"failed">>
<1>1. CASE row.status = "settled"
  <2>1. "sell" \in row.legs /\ "buy" \in row.legs
    BY <1>1 DEF Resolved
  <2>2. EventsOf(row) = <<"leg.sell">> \o <<"leg.buy">> \o <<"completed">>
    BY <1>1, <2>1 DEF EventsOf
  <2>3. <<"leg.sell">> \o <<"leg.buy">> = <<"leg.sell", "leg.buy">>
    BY OneAndOne
  <2>4. <<"leg.sell", "leg.buy">> \o <<"completed">> = <<"leg.sell", "leg.buy", "completed">>
    BY TwoAndOne
  <2> QED
    BY <1>1, <2>2, <2>3, <2>4
<1>2. CASE row.status = "failed" /\ row.legs = {"sell"}
  <2>1. EventsOf(row) = <<"leg.sell">> \o <<>> \o <<"failed">>
    BY <1>2 DEF EventsOf
  <2>2. <<"leg.sell">> \in Seq({"leg.sell"})
    OBVIOUS
  <2>3. <<"leg.sell">> \o <<>> = <<"leg.sell">>
    BY <2>2, ConcatEmptySeq
  <2> QED
    BY <1>2, <2>1, <2>3, OneAndOne
<1>3. CASE row.status = "failed" /\ row.legs = {}
  <2>1. EventsOf(row) = <<>> \o <<>> \o <<"failed">>
    BY <1>3 DEF EventsOf
  <2>2. <<>> \in Seq({"failed"}) /\ <<"failed">> \in Seq({"failed"})
    OBVIOUS
  <2>3. <<>> \o <<>> = <<>>
    BY <2>2, ConcatEmptySeq
  <2>4. <<>> \o <<"failed">> = <<"failed">>
    BY <2>2, ConcatEmptySeq
  <2>5. EventsOf(row) = <<"failed">>
    BY <2>1, <2>3, <2>4
  <2>6. row.status # "settled" /\ row.legs # {"sell"}
    BY <1>3
  <2> QED
    BY <2>5, <2>6
<1> QED
  BY <1>1, <1>2, <1>3 DEF Resolved

(* Init establishes the invariant: no settlement has been initiated. *)
LEMMA InitRowInv == Init => FxRowInv
<1> SUFFICES ASSUME Init PROVE FxRowInv
  OBVIOUS
<1>1. RowTypeOK /\ WorkerTypeOK
  BY FxAssumption DEF Init, RowTypeOK, WorkerTypeOK, Untouched
<1>2. FinitelyMany
  <2>1. {r \in Refs : status[r] # "none"} = {}
    BY DEF Init
  <2> QED
    BY <2>1, FS_EmptySet DEF FinitelyMany
<1>3. RowsOnRecord /\ AmountsOnRecord
  BY DEF Init, RowsOnRecord, AmountsOnRecord
<1>4. RowsHeldOnce /\ WorkerAtRow /\ WrittenUpToPos
  BY DEF Init, RowsHeldOnce, WorkerAtRow, WrittenUpToPos, InBatch
<1> QED
  BY <1>1, <1>2, <1>3, <1>4 DEF FxRowInv

(* A new rate touches no settlement. *)
LEMMA RateRowInv ==
  ASSUME FxRowInv, NEW pair \in Quoted, NEW x \in Rates, RateUpdate(pair, x)
  PROVE  FxRowInv'
BY DEF FxRowInv, RateUpdate, rowVars, workerVars, RowTypeOK, WorkerTypeOK,
       FinitelyMany, RowsOnRecord, AmountsOnRecord, RowsHeldOnce, WorkerAtRow,
       WrittenUpToPos, InBatch, LegsSoFar

(* The amount on a new row is one the journal transfers. *)
LEMMA BuyAmountType ==
  ASSUME FxRowInv, NEW r \in Refs, BuyAmount(r) > 0,
         Priced(Currency[Instruction[r].from], Currency[Instruction[r].to])
  PROVE  BuyAmount(r) \in Amounts
<1> DEFINE sell == Currency[Instruction[r].from]
           buy == Currency[Instruction[r].to]
<1>1. LiveRate(sell, buy) \in Rates
  BY DEF LiveRate, Priced, FxRowInv, RowTypeOK
<1> QED
  BY <1>1, BoughtAssumption DEF BuyAmount

(* initiate_fx_settlement adds one row to the table. *)
LEMMA InitiateRowInv ==
  ASSUME FxRowInv, NEW r \in Refs, Initiate(r)
  PROVE  FxRowInv'
<1> DEFINE known == {q \in Refs : status[q] # "none"}
<1>1. IsFiniteSet(known) /\ Cardinality(known) \in Nat
  BY FS_CardinalityType DEF FxRowInv, FinitelyMany
<1>2. FinitelyMany'
  <2>1. {q \in Refs : status'[q] # "none"} = known \cup {r}
    BY DEF Initiate, FxRowInv, RowTypeOK
  <2> QED
    BY <1>1, <2>1, FS_AddElement DEF FinitelyMany
<1>3. BuyAmount(r) \in Amounts /\ BuyAmount(r) \in Nat
  BY BuyAmountType, AmountsAssumption DEF Initiate
<1>4. /\ status'[r] = "queued" /\ buyAmount'[r] = BuyAmount(r)
      /\ outbox'[r] = Append(outbox[r], "initiated")
      /\ \A q \in Refs \ {r} :
           /\ status'[q] = status[q] /\ buyAmount'[q] = buyAmount[q]
           /\ outbox'[q] = outbox[q]
      /\ UNCHANGED <<rate, legs, signed, workerVars, crashes>>
  BY DEF Initiate, FxRowInv, RowTypeOK
<1>5. RowTypeOK'
  <2>1. createdAt' \in [Refs -> Nat]
    <3> DEFINE n == 1 + Cardinality(known)
    <3>1. createdAt' = [createdAt EXCEPT ![r] = n] /\ n \in Nat
      BY <1>1 DEF Initiate
    <3> HIDE DEF n
    <3> QED
      BY <3>1 DEF FxRowInv, RowTypeOK
  <2>2. buyAmount' \in [Refs -> Nat]
    BY <1>3 DEF Initiate, FxRowInv, RowTypeOK
  <2>3. outbox' \in [Refs -> Seq({"initiated", "leg.sell", "leg.buy", "completed", "failed"})]
    BY DEF Initiate, FxRowInv, RowTypeOK
  <2>4. status' \in [Refs -> {"none", "queued", "settled", "failed"}]
    BY DEF Initiate, FxRowInv, RowTypeOK
  <2> QED
    BY <1>4, <2>1, <2>2, <2>3, <2>4 DEF FxRowInv, RowTypeOK
<1>6. WorkerTypeOK'
  BY <1>4 DEF workerVars, FxRowInv, WorkerTypeOK
<1>7. RowsOnRecord'
  <2>1. outbox[r] = <<>> /\ legs[r] = {}
    BY DEF Initiate, FxRowInv, RowsOnRecord
  <2>2. outbox'[r] = <<"initiated">>
    BY <1>4, <2>1
  <2> QED
    BY <1>4, <2>1, <2>2 DEF FxRowInv, RowsOnRecord
<1>8. AmountsOnRecord'
  BY <1>3, <1>4 DEF FxRowInv, AmountsOnRecord
<1>9. RowsHeldOnce'
  BY <1>4 DEF Initiate, FxRowInv, RowsHeldOnce, InBatch, workerVars
<1>10. WorkerAtRow' /\ WrittenUpToPos'
  BY <1>4 DEF FxRowInv, WorkerAtRow, WrittenUpToPos, InBatch, workerVars, LegsSoFar
<1> QED
  BY <1>2, <1>5, <1>6, <1>7, <1>8, <1>9, <1>10 DEF FxRowInv

(* Taking the lock of the debited key or reading its balance moves only    *)
(* the worker's program counter.                                           *)
LEMMA LockStepRowInv ==
  ASSUME FxRowInv, NEW w \in Workers, pc[w] \in {"lock", "read"},
         NEW next \in {"read", "act"}, pc' = [pc EXCEPT ![w] = next],
         UNCHANGED <<rate, rowVars, leg, batch, pos, written, crashes>>
  PROVE  FxRowInv'
<1> USE DEF FxRowInv, rowVars
<1>1. RowTypeOK' /\ WorkerTypeOK'
  BY DEF RowTypeOK, WorkerTypeOK
<1>2. FinitelyMany' /\ RowsOnRecord' /\ AmountsOnRecord'
  BY DEF FinitelyMany, RowsOnRecord, AmountsOnRecord
<1>3. RowsHeldOnce'
  BY DEF RowsHeldOnce, InBatch
<1>4. /\ pc'[w] = next /\ \A v \in Workers \ {w} : pc'[v] = pc[v]
      /\ \A v \in Workers : LegsSoFar(v)' = LegsSoFar(v)
  BY DEF WorkerTypeOK, LegsSoFar
<1>5. WorkerAtRow'
  BY <1>4 DEF WorkerAtRow
<1>6. WrittenUpToPos'
  BY <1>4 DEF WrittenUpToPos, InBatch
<1> QED
  BY <1>1, <1>2, <1>3, <1>5, <1>6

(* FOR UPDATE SKIP LOCKED hands a worker queued rows nobody else holds. *)
LEMMA FetchRowInv ==
  ASSUME FxRowInv, NEW w \in Workers, FetchBatch(w)
  PROVE  FxRowInv'
<1>1. PICK n \in 1..BatchLimit : \E q \in [1..n -> Fetchable] :
         IsBatch(q) /\ batch' = [batch EXCEPT ![w] = q]
  BY DEF FetchBatch
<1>2. PICK q \in [1..n -> Fetchable] :
         IsBatch(q) /\ batch' = [batch EXCEPT ![w] = q]
  BY <1>1
<1>3. n \in Nat /\ n >= 1 /\ q \in Seq(Refs) /\ Len(q) = n /\ DOMAIN q = 1..n
  BY FxAssumption, BatchIsSequence
<1>4. /\ pc[w] = "idle" /\ pc' = [pc EXCEPT ![w] = "lock"]
      /\ pos' = [pos EXCEPT ![w] = 1] /\ leg' = [leg EXCEPT ![w] = "sell"]
      /\ UNCHANGED <<ledgerVars, rate, rowVars, written, crashes>>
  BY DEF FetchBatch
<1>5. /\ batch'[w] = q /\ pos'[w] = 1 /\ pc'[w] = "lock" /\ leg'[w] = "sell"
      /\ \A v \in Workers \ {w} :
           /\ batch'[v] = batch[v] /\ pos'[v] = pos[v]
           /\ pc'[v] = pc[v] /\ leg'[v] = leg[v]
  BY <1>2, <1>4 DEF FxRowInv, WorkerTypeOK
<1>6. RowTypeOK' /\ WorkerTypeOK'
  BY <1>2, <1>3, <1>4 DEF FxRowInv, RowTypeOK, WorkerTypeOK, rowVars
<1>7. FinitelyMany' /\ RowsOnRecord' /\ AmountsOnRecord'
  BY <1>4 DEF FxRowInv, rowVars, FinitelyMany, RowsOnRecord, AmountsOnRecord
<1>8. \A r \in Refs : InBatch(w, r)' => r \in Fetchable
  BY <1>3, <1>5 DEF InBatch
<1>9. \A v \in Workers \ {w}, r \in Refs : InBatch(v, r)' <=> InBatch(v, r)
  BY <1>5 DEF InBatch
<1>10. RowsHeldOnce'
  <2>1. \A v \in Workers, r \in Refs : InBatch(v, r)' => status'[r] = "queued"
    BY <1>4, <1>8, <1>9 DEF FxRowInv, RowsHeldOnce, Fetchable, rowVars
  <2>2. \A u, v \in Workers, r \in Refs : InBatch(u, r)' /\ InBatch(v, r)' => u = v
    BY <1>8, <1>9 DEF FxRowInv, RowsHeldOnce, Fetchable
  <2>3. ASSUME NEW i \in 1..n, NEW j \in 1..n, q[i] = q[j] PROVE i = j
    <3>1. q[i] \in Refs /\ i \in Int /\ j \in Int /\ createdAt[q[i]] \in Int
      BY <1>2 DEF Fetchable, FxRowInv, RowTypeOK
    <3>2. ~(i < j) /\ ~(j < i)
      BY <1>2, <1>3, <2>3, <3>1 DEF IsBatch
    <3> QED
      BY <3>1, <3>2
  <2>4. \A v \in Workers : \A i, j \in DOMAIN batch'[v] :
          batch'[v][i] = batch'[v][j] => i = j
    BY <1>3, <1>5, <2>3 DEF FxRowInv, RowsHeldOnce
  <2> QED
    BY <2>1, <2>2, <2>4 DEF RowsHeldOnce
<1>11. WorkerAtRow'
  <2>1. pos'[w] \in 1..Len(batch'[w])
    BY <1>3, <1>5
  <2>2. \A v \in Workers \ {w} :
          /\ pc'[v] = "idle" => batch'[v] = <<>>
          /\ pc'[v] \in {"lock", "read", "act", "sign"} => pos'[v] \in 1..Len(batch'[v])
          /\ pc'[v] = "commit" => pos'[v] = Len(batch'[v]) + 1
          /\ pc'[v] = "sign" => leg'[v] = "buy"
    BY <1>5 DEF FxRowInv, WorkerAtRow
  <2> QED
    BY <1>5, <2>1, <2>2 DEF WorkerAtRow
<1>12. WrittenUpToPos'
  <2>1. batch[w] = <<>> /\ \A r \in Refs : written[w][r] = Untouched
    BY <1>4 DEF FxRowInv, WorkerAtRow, WrittenUpToPos, InBatch
  <2>2. \A i \in 1..n : q[i] \in Refs /\ ~(i < 1) /\ written'[w][q[i]] = Untouched
    BY <1>2, <1>3, <1>4, <2>1 DEF Fetchable
  <2>3. LegsSoFar(w)' = {} /\ \A v \in Workers \ {w} : LegsSoFar(v)' = LegsSoFar(v)
    BY <1>5 DEF LegsSoFar
  <2>4. Untouched.status = "none" /\ Untouched.legs = {}
    BY DEF Untouched
  <2>5. \A v \in Workers \ {w} :
          /\ \A r \in Refs : ~InBatch(v, r)' => written'[v][r] = Untouched
          /\ \A i \in DOMAIN batch'[v] :
               LET row == written'[v][batch'[v][i]]
               IN  /\ i < pos'[v] => Resolved(row)
                   /\ i = pos'[v] => row.status = "none" /\ row.legs = LegsSoFar(v)'
                   /\ i > pos'[v] => row = Untouched
    BY <1>4, <1>5, <1>9, <2>3 DEF FxRowInv, WrittenUpToPos
  <2>6. /\ \A r \in Refs : ~InBatch(w, r)' => written'[w][r] = Untouched
        /\ \A i \in DOMAIN batch'[w] :
             LET row == written'[w][batch'[w][i]]
             IN  /\ i < pos'[w] => Resolved(row)
                 /\ i = pos'[w] => row.status = "none" /\ row.legs = LegsSoFar(w)'
                 /\ i > pos'[w] => row = Untouched
    BY <1>3, <1>4, <1>5, <2>1, <2>2, <2>3, <2>4
  <2> QED
    BY <2>5, <2>6 DEF WrittenUpToPos
<1> QED
  BY <1>6, <1>7, <1>10, <1>11, <1>12 DEF FxRowInv

(* A leg recorded for the current row is the leg its worker was at. *)
LEMMA RecordLegRowInv ==
  ASSUME FxRowInv, NEW w \in Workers, RecordLeg(w)
  PROVE  FxRowInv'
<1> DEFINE c == Current(w)
<1>1. /\ pc[w] = "act" /\ pos[w] \in 1..Len(batch[w]) /\ batch[w] \in Seq(Refs)
      /\ leg[w] \in {"sell", "buy"}
  BY DEF RecordLeg, FxRowInv, WorkerAtRow, WorkerTypeOK
<1>2. /\ c \in Refs /\ c = batch[w][pos[w]] /\ pos[w] \in DOMAIN batch[w]
      /\ pos[w] \in Int
  BY <1>1 DEF Current
<1>3. /\ written' = [written EXCEPT ![w][c].legs = @ \cup {leg[w]}]
      /\ leg' = [leg EXCEPT ![w] = "buy"]
      /\ pc' = [pc EXCEPT ![w] = IF leg[w] = "sell" THEN "lock" ELSE "sign"]
      /\ UNCHANGED <<rate, rowVars, batch, pos, crashes>>
  BY DEF RecordLeg
<1> HIDE DEF c
<1>4. /\ leg'[w] = "buy" /\ pc'[w] = (IF leg[w] = "sell" THEN "lock" ELSE "sign")
      /\ written'[w][c].status = written[w][c].status
      /\ written'[w][c].legs = written[w][c].legs \cup {leg[w]}
      /\ \A r \in Refs \ {c} : written'[w][r] = written[w][r]
      /\ \A v \in Workers \ {w} :
           pc'[v] = pc[v] /\ leg'[v] = leg[v] /\ written'[v] = written[v]
  BY <1>2, <1>3 DEF FxRowInv, WorkerTypeOK
<1>5. WorkerTypeOK'
  <2>1. written' \in [Workers -> [Refs -> [status : {"none", "settled", "failed"},
                                          legs : SUBSET {"sell", "buy"},
                                          signed : BOOLEAN]]]
    <3> DEFINE Row == [status : {"none", "settled", "failed"},
                       legs : SUBSET {"sell", "buy"}, signed : BOOLEAN]
               row == [written[w][c] EXCEPT !.legs = @ \cup {leg[w]}]
    <3>1. written \in [Workers -> [Refs -> Row]]
      BY DEF FxRowInv, WorkerTypeOK
    <3>2. row \in Row
      <4>1. written[w][c] \in Row
        BY <1>2, <3>1
      <4> QED
        BY <1>1, <4>1
    <3>3. written' = [written EXCEPT ![w] = [written[w] EXCEPT ![c] = row]]
      BY <1>2, <1>3, <3>1
    <3> HIDE DEF row, Row
    <3>4. written' \in [Workers -> [Refs -> Row]]
      BY <1>2, <3>1, <3>2, <3>3
    <3> QED
      BY <3>4 DEF Row
  <2> QED
    BY <1>3, <2>1 DEF FxRowInv, WorkerTypeOK
<1>6. RowTypeOK' /\ FinitelyMany' /\ RowsOnRecord' /\ AmountsOnRecord'
  BY <1>3 DEF FxRowInv, rowVars, RowTypeOK, FinitelyMany, RowsOnRecord, AmountsOnRecord
<1>7. RowsHeldOnce'
  BY <1>3 DEF FxRowInv, rowVars, RowsHeldOnce, InBatch
<1>8. WorkerAtRow'
  BY <1>1, <1>3, <1>4 DEF FxRowInv, WorkerAtRow
<1>9. written[w][c].status = "none" /\ written[w][c].legs = LegsSoFar(w)
  BY <1>2 DEF FxRowInv, WrittenUpToPos
<1>10. written'[w][c].legs = LegsSoFar(w)'
  <2>1. LegsSoFar(w) = IF leg[w] = "buy" THEN {"sell"} ELSE {}
    BY <1>1 DEF LegsSoFar
  <2>2. LegsSoFar(w)' = IF leg[w] = "sell" THEN {"sell"} ELSE {"sell", "buy"}
    BY <1>1, <1>4 DEF LegsSoFar
  <2> QED
    BY <1>1, <1>4, <1>9, <2>1, <2>2
<1>11. WrittenUpToPos'
  <2>1. \A v \in Workers \ {w} : LegsSoFar(v)' = LegsSoFar(v)
    BY <1>4 DEF LegsSoFar
  <2>2. \A v \in Workers \ {w} :
          /\ \A r \in Refs : ~InBatch(v, r)' => written'[v][r] = Untouched
          /\ \A i \in DOMAIN batch'[v] :
               LET row == written'[v][batch'[v][i]]
               IN  /\ i < pos'[v] => Resolved(row)
                   /\ i = pos'[v] => row.status = "none" /\ row.legs = LegsSoFar(v)'
                   /\ i > pos'[v] => row = Untouched
    BY <1>3, <1>4, <2>1 DEF FxRowInv, WrittenUpToPos, InBatch
  <2>3. \A r \in Refs : ~InBatch(w, r)' => written'[w][r] = Untouched
    BY <1>2, <1>3, <1>4 DEF FxRowInv, WrittenUpToPos, InBatch
  <2>4. ASSUME NEW i \in DOMAIN batch[w]
        PROVE  LET row == written'[w][batch[w][i]]
               IN  /\ i < pos[w] => Resolved(row)
                   /\ i = pos[w] => row.status = "none" /\ row.legs = LegsSoFar(w)'
                   /\ i > pos[w] => row = Untouched
    <3>1. batch[w][i] \in Refs /\ i \in Int
      BY <1>1
    <3>2. CASE i = pos[w]
      BY <1>2, <1>4, <1>9, <1>10, <3>2
    <3>3. CASE i # pos[w]
      <4>1. batch[w][i] # c
        BY <1>2, <3>3 DEF FxRowInv, RowsHeldOnce
      <4>2. written'[w][batch[w][i]] = written[w][batch[w][i]]
        BY <1>4, <3>1, <4>1
      <4> QED
        BY <3>3, <4>2 DEF FxRowInv, WrittenUpToPos
    <3> QED
      BY <3>2, <3>3
  <2> QED
    BY <1>3, <2>2, <2>3, <2>4 DEF WrittenUpToPos
<1> QED
  BY <1>5, <1>6, <1>7, <1>8, <1>11 DEF FxRowInv

(* Settling or failing the current row resolves it and moves on. *)
LEMMA ResolveRowInv ==
  ASSUME FxRowInv, NEW w \in Workers, NEW result \in {"settled", "failed"},
         NEW withSignature \in BOOLEAN, Resolve(w, result, withSignature),
         \/ pc[w] = "sign" /\ result = "settled"
         \/ pc[w] = "act" /\ result = "failed",
         UNCHANGED <<rate, rowVars, batch, crashes>>
  PROVE  FxRowInv'
<1> DEFINE c == Current(w)
<1>1. pos[w] \in 1..Len(batch[w]) /\ batch[w] \in Seq(Refs) /\ Len(batch[w]) \in Nat
  BY DEF FxRowInv, WorkerAtRow, WorkerTypeOK
<1>2. /\ c \in Refs /\ c = batch[w][pos[w]] /\ pos[w] \in DOMAIN batch[w]
      /\ pos[w] \in Int
  BY <1>1 DEF Current
<1>3. /\ written' = [written EXCEPT ![w][c].status = result,
                                    ![w][c].signed = withSignature]
      /\ pos' = [pos EXCEPT ![w] = @ + 1]
      /\ leg' = [leg EXCEPT ![w] = "sell"]
      /\ pc' = [pc EXCEPT ![w] = IF pos[w] = Len(batch[w]) THEN "commit" ELSE "lock"]
  BY DEF Resolve
<1>0. batch' = batch
  OBVIOUS
<1> HIDE DEF c
<1>4. /\ leg'[w] = "sell" /\ pos'[w] = pos[w] + 1
      /\ pc'[w] = (IF pos[w] = Len(batch[w]) THEN "commit" ELSE "lock")
      /\ written'[w][c].status = result
      /\ written'[w][c].legs = written[w][c].legs
      /\ \A r \in Refs \ {c} : written'[w][r] = written[w][r]
      /\ \A v \in Workers \ {w} :
           /\ pc'[v] = pc[v] /\ leg'[v] = leg[v] /\ pos'[v] = pos[v]
           /\ written'[v] = written[v]
  BY <1>2, <1>3 DEF FxRowInv, WorkerTypeOK
<1>5. WorkerTypeOK'
  <2>1. written' \in [Workers -> [Refs -> [status : {"none", "settled", "failed"},
                                          legs : SUBSET {"sell", "buy"},
                                          signed : BOOLEAN]]]
    <3> DEFINE Row == [status : {"none", "settled", "failed"},
                       legs : SUBSET {"sell", "buy"}, signed : BOOLEAN]
               row == [written[w][c] EXCEPT !.status = result, !.signed = withSignature]
    <3>1. written \in [Workers -> [Refs -> Row]]
      BY DEF FxRowInv, WorkerTypeOK
    <3>2. row \in Row
      <4>1. written[w][c] \in Row
        BY <1>2, <3>1
      <4> QED
        BY <1>1, <4>1
    <3>3. written' = [written EXCEPT ![w] = [written[w] EXCEPT ![c] = row]]
      BY <1>2, <1>3, <3>1
    <3> HIDE DEF row, Row
    <3>4. written' \in [Workers -> [Refs -> Row]]
      BY <1>2, <3>1, <3>2, <3>3
    <3> QED
      BY <3>4 DEF Row
  <2> QED
    BY <1>3, <2>1 DEF FxRowInv, WorkerTypeOK
<1>6. RowTypeOK' /\ FinitelyMany' /\ RowsOnRecord' /\ AmountsOnRecord'
  BY DEF FxRowInv, rowVars, RowTypeOK, FinitelyMany, RowsOnRecord, AmountsOnRecord
<1>7. RowsHeldOnce'
  BY DEF FxRowInv, rowVars, RowsHeldOnce, InBatch
<1>8. WorkerAtRow'
  <2>1. pc'[w] = "lock" => pos'[w] \in 1..Len(batch[w])
    BY <1>1, <1>4
  <2> QED
    BY <1>1, <1>4, <2>1 DEF FxRowInv, WorkerAtRow
<1>9. written[w][c].legs = LegsSoFar(w)
  BY <1>2 DEF FxRowInv, WrittenUpToPos
<1>10. Resolved(written'[w][c])
  <2>1. CASE result = "settled"
    BY <1>4, <1>9, <2>1 DEF LegsSoFar, Resolved
  <2>2. CASE result = "failed"
    BY <1>4, <1>9, <2>2 DEF LegsSoFar, Resolved
  <2> QED
    BY <2>1, <2>2
<1>11. WrittenUpToPos'
  <2>1. \A v \in Workers \ {w} : LegsSoFar(v)' = LegsSoFar(v)
    BY <1>4 DEF LegsSoFar
  <2>2. \A v \in Workers \ {w} :
          /\ \A r \in Refs : ~InBatch(v, r)' => written'[v][r] = Untouched
          /\ \A i \in DOMAIN batch'[v] :
               LET row == written'[v][batch'[v][i]]
               IN  /\ i < pos'[v] => Resolved(row)
                   /\ i = pos'[v] => row.status = "none" /\ row.legs = LegsSoFar(v)'
                   /\ i > pos'[v] => row = Untouched
    BY <1>0, <1>4, <2>1 DEF FxRowInv, WrittenUpToPos, InBatch
  <2>3. \A r \in Refs : ~InBatch(w, r)' => written'[w][r] = Untouched
    BY <1>0, <1>2, <1>4 DEF FxRowInv, WrittenUpToPos, InBatch
  <2>4. LegsSoFar(w)' = {} /\ Untouched.status = "none" /\ Untouched.legs = {}
    BY <1>4 DEF LegsSoFar, Untouched
  <2>5. ASSUME NEW i \in DOMAIN batch[w]
        PROVE  LET row == written'[w][batch[w][i]]
               IN  /\ i < pos'[w] => Resolved(row)
                   /\ i = pos'[w] => row.status = "none" /\ row.legs = LegsSoFar(w)'
                   /\ i > pos'[w] => row = Untouched
    <3>1. batch[w][i] \in Refs /\ i \in Int
      BY <1>1
    <3>2. CASE i = pos[w]
      BY <1>2, <1>4, <1>10, <3>2
    <3>3. CASE i # pos[w]
      <4>1. batch[w][i] # c
        BY <1>2, <3>3 DEF FxRowInv, RowsHeldOnce
      <4>2. written'[w][batch[w][i]] = written[w][batch[w][i]]
        BY <1>4, <3>1, <4>1
      <4>3. LET row == written[w][batch[w][i]]
            IN  /\ i < pos[w] => Resolved(row)
                /\ i > pos[w] => row = Untouched
        BY DEF FxRowInv, WrittenUpToPos
      <4>4. (i < pos'[w] => i < pos[w]) /\ (i >= pos'[w] => i > pos[w])
        BY <1>2, <1>4, <3>1, <3>3
      <4>5. i \in Int /\ pos'[w] \in Int
        BY <1>2, <1>4, <3>1
      <4> QED
        BY <2>4, <4>2, <4>3, <4>4, <4>5
    <3> QED
      BY <3>2, <3>3
  <2> QED
    BY <2>2, <2>3, <2>5 DEF WrittenUpToPos
<1> QED
  BY <1>5, <1>6, <1>7, <1>8, <1>11 DEF FxRowInv

(* The end of a batch leaves its worker idle and its rows unlocked. *)
LEMMA EndBatchEffect ==
  ASSUME FxRowInv, NEW w \in Workers, EndBatch(w), crashes' \in 0..MaxCrashes
  PROVE  /\ WorkerTypeOK' /\ WorkerAtRow' /\ WrittenUpToPos'
         /\ \A r \in Refs : ~InBatch(w, r)'
         /\ \A v \in Workers \ {w}, r \in Refs : InBatch(v, r)' <=> InBatch(v, r)
         /\ \A v \in Workers : \A i, j \in DOMAIN batch'[v] :
              batch'[v][i] = batch'[v][j] => i = j
<1>1. WorkerTypeOK'
  BY DEF EndBatch, FxRowInv, WorkerTypeOK, Untouched
<1>2. /\ pc'[w] = "idle" /\ batch'[w] = <<>> /\ pos'[w] = 0 /\ leg'[w] = "sell"
      /\ \A r \in Refs : written'[w][r] = Untouched
      /\ \A v \in Workers \ {w} :
           /\ pc'[v] = pc[v] /\ leg'[v] = leg[v] /\ pos'[v] = pos[v]
           /\ written'[v] = written[v] /\ batch'[v] = batch[v]
  BY DEF EndBatch, FxRowInv, WorkerTypeOK
<1>3. WorkerAtRow'
  BY <1>2 DEF FxRowInv, WorkerAtRow
<1>4. WrittenUpToPos'
  <2>1. \A v \in Workers \ {w} : LegsSoFar(v)' = LegsSoFar(v)
    BY <1>2 DEF LegsSoFar
  <2> QED
    BY <1>2, <2>1 DEF FxRowInv, WrittenUpToPos, InBatch
<1> QED
  BY <1>1, <1>2, <1>3, <1>4 DEF InBatch, FxRowInv, RowsHeldOnce

(* A batch that is given up leaves its rows queued. *)
LEMMA AbandonRowInv ==
  ASSUME FxRowInv, NEW w \in Workers, AbandonBatch(w), crashes' \in 0..MaxCrashes
  PROVE  FxRowInv'
<1>1. UNCHANGED <<rate, rowVars>> /\ EndBatch(w)
  BY DEF AbandonBatch
<1>2. RowTypeOK' /\ FinitelyMany' /\ RowsOnRecord' /\ AmountsOnRecord'
  BY <1>1 DEF FxRowInv, rowVars, RowTypeOK, FinitelyMany, RowsOnRecord, AmountsOnRecord
<1>3. /\ WorkerTypeOK' /\ WorkerAtRow' /\ WrittenUpToPos'
      /\ \A r \in Refs : ~InBatch(w, r)'
      /\ \A v \in Workers \ {w}, r \in Refs : InBatch(v, r)' <=> InBatch(v, r)
      /\ \A v \in Workers : \A i, j \in DOMAIN batch'[v] :
           batch'[v][i] = batch'[v][j] => i = j
  BY <1>1, EndBatchEffect
<1>4. RowsHeldOnce'
  BY <1>1, <1>3 DEF FxRowInv, rowVars, RowsHeldOnce
<1> QED
  BY <1>2, <1>3, <1>4 DEF FxRowInv

(* Every row of a batch that is about to be committed is resolved, and     *)
(* nothing is written to any other.                                        *)
LEMMA CommitResolves ==
  ASSUME FxRowInv, NEW w \in Workers, pc[w] = "commit", NEW r \in Refs
  PROVE  IF InBatch(w, r) THEN Resolved(written[w][r]) ELSE written[w][r] = Untouched
<1>1. ASSUME InBatch(w, r) PROVE Resolved(written[w][r])
  <2>1. PICK i \in DOMAIN batch[w] : batch[w][i] = r
    BY <1>1 DEF InBatch
  <2>2. batch[w] \in Seq(Refs) /\ pos[w] = Len(batch[w]) + 1
    BY DEF FxRowInv, WorkerTypeOK, WorkerAtRow
  <2>3. i < pos[w]
    BY <2>1, <2>2
  <2> QED
    BY <2>1, <2>3 DEF FxRowInv, WrittenUpToPos
<1>2. ~InBatch(w, r) => written[w][r] = Untouched
  BY DEF FxRowInv, WrittenUpToPos
<1> QED
  BY <1>1, <1>2

(* The commit publishes what was written to the batch and its events. *)
LEMMA CommitRowInv ==
  ASSUME FxRowInv, NEW w \in Workers, CommitBatch(w)
  PROVE  FxRowInv'
<1>1. /\ EndBatch(w) /\ pc[w] = "commit"
      /\ UNCHANGED <<rate, createdAt, buyAmount, crashes>>
  BY DEF CommitBatch
<1>2. /\ WorkerTypeOK' /\ WorkerAtRow' /\ WrittenUpToPos'
      /\ \A r \in Refs : ~InBatch(w, r)'
      /\ \A v \in Workers \ {w}, r \in Refs : InBatch(v, r)' <=> InBatch(v, r)
      /\ \A v \in Workers : \A i, j \in DOMAIN batch'[v] :
           batch'[v][i] = batch'[v][j] => i = j
  <2>1. crashes' \in 0..MaxCrashes
    BY <1>1 DEF FxRowInv, WorkerTypeOK
  <2> QED
    BY <1>1, <2>1, EndBatchEffect
<1>3. ASSUME NEW r \in Refs, ~InBatch(w, r)
      PROVE  status'[r] = status[r] /\ legs'[r] = legs[r] /\ outbox'[r] = outbox[r]
  <2>1. written[w][r].legs = {}
    BY <1>1, <1>3, CommitResolves DEF Untouched
  <2>2. legs[r] \in SUBSET {"sell", "buy"}
    BY DEF FxRowInv, RowTypeOK
  <2> QED
    BY <1>3, <2>1, <2>2 DEF CommitBatch
<1>4. ASSUME NEW r \in Refs, InBatch(w, r)
      PROVE  /\ status[r] = "queued" /\ Resolved(written[w][r])
             /\ status'[r] = written[w][r].status /\ legs'[r] = written[w][r].legs
             /\ outbox'[r] = <<"initiated">> \o EventsOf(written[w][r])
  <2>1. status[r] = "queued"
    BY <1>4 DEF FxRowInv, RowsHeldOnce
  <2>2. legs[r] = {} /\ outbox[r] = <<"initiated">>
    BY <2>1 DEF FxRowInv, RowsOnRecord
  <2>3. Resolved(written[w][r])
    BY <1>1, <1>4, CommitResolves
  <2>4. /\ status'[r] = written[w][r].status
        /\ legs'[r] = legs[r] \cup written[w][r].legs
        /\ outbox'[r] = outbox[r] \o EventsOf(written[w][r])
    BY <1>4 DEF CommitBatch
  <2>5. {} \cup written[w][r].legs = written[w][r].legs
    OBVIOUS
  <2> QED
    BY <2>1, <2>2, <2>3, <2>4, <2>5
<1>5. ASSUME NEW r \in Refs, InBatch(w, r)
      PROVE  \/ /\ status'[r] = "settled" /\ legs'[r] = {"sell", "buy"}
                /\ outbox'[r] = <<"initiated", "leg.sell", "leg.buy", "completed">>
             \/ /\ status'[r] = "failed" /\ legs'[r] = {}
                /\ outbox'[r] = <<"initiated", "failed">>
             \/ /\ status'[r] = "failed" /\ legs'[r] = {"sell"}
                /\ outbox'[r] = <<"initiated", "leg.sell", "failed">>
  <2> DEFINE row == written[w][r]
  <2>1. /\ Resolved(row) /\ status'[r] = row.status /\ legs'[r] = row.legs
        /\ outbox'[r] = <<"initiated">> \o EventsOf(row)
    BY <1>4, <1>5
  <2>2. EventsOf(row) =
           IF row.status = "settled" THEN <<"leg.sell", "leg.buy", "completed">>
           ELSE IF row.legs = {"sell"} THEN <<"leg.sell", "failed">> ELSE <<"failed">>
    BY <2>1, EventsOfResolved
  <2> HIDE DEF row
  <2>3. CASE row.status = "settled"
    BY <2>1, <2>2, <2>3, OneAndThree DEF Resolved
  <2>4. CASE row.status = "failed" /\ row.legs = {"sell"}
    BY <2>1, <2>2, <2>4, OneAndTwo
  <2>5. CASE row.status = "failed" /\ row.legs = {}
    <3>1. row.status # "settled" /\ row.legs # {"sell"}
      BY <2>5
    <3>2. EventsOf(row) = <<"failed">>
      BY <2>2, <3>1
    <3> QED
      BY <2>1, <2>5, <3>2, OneAndOne
  <2> QED
    BY <2>1, <2>3, <2>4, <2>5 DEF Resolved
<1>6. RowsOnRecord'
  BY <1>3, <1>5 DEF FxRowInv, RowsOnRecord
<1>7. RowTypeOK'
  <2>1. status' \in [Refs -> {"none", "queued", "settled", "failed"}]
    <3>1. status' = [r \in Refs |-> status'[r]]
      BY DEF CommitBatch
    <3> QED
      BY <1>3, <1>5, <3>1 DEF FxRowInv, RowTypeOK
  <2>2. legs' \in [Refs -> SUBSET {"sell", "buy"}]
    <3>1. legs' = [r \in Refs |-> legs'[r]]
      BY DEF CommitBatch
    <3> QED
      BY <1>3, <1>5, <3>1 DEF FxRowInv, RowTypeOK
  <2>3. signed' \subseteq Refs
    BY DEF CommitBatch, FxRowInv, RowTypeOK
  <2>4. outbox' \in [Refs -> Seq({"initiated", "leg.sell", "leg.buy", "completed", "failed"})]
    <3> DEFINE E == {"initiated", "leg.sell", "leg.buy", "completed", "failed"}
    <3>1. outbox' = [r \in Refs |-> outbox'[r]]
      BY DEF CommitBatch
    <3>2. /\ <<"initiated", "leg.sell", "leg.buy", "completed">> \in Seq(E)
          /\ <<"initiated", "failed">> \in Seq(E)
          /\ <<"initiated", "leg.sell", "failed">> \in Seq(E)
      OBVIOUS
    <3>3. \A r \in Refs : outbox[r] \in Seq(E)
      BY DEF FxRowInv, RowTypeOK
    <3> HIDE DEF E
    <3>4. \A r \in Refs : outbox'[r] \in Seq(E)
      BY <1>3, <1>5, <3>2, <3>3
    <3> QED
      BY <3>1, <3>4 DEF E
  <2> QED
    BY <1>1, <2>1, <2>2, <2>3, <2>4 DEF FxRowInv, RowTypeOK
<1>8. FinitelyMany'
  <2>1. {r \in Refs : status'[r] # "none"} = {r \in Refs : status[r] # "none"}
    BY <1>3, <1>4, <1>5
  <2> QED
    BY <2>1 DEF FxRowInv, FinitelyMany
<1>9. AmountsOnRecord'
  BY <1>1, <1>3, <1>4 DEF FxRowInv, AmountsOnRecord
<1>10. RowsHeldOnce'
  <2>1. \A v \in Workers \ {w}, r \in Refs : InBatch(v, r)' => InBatch(v, r) /\ ~InBatch(w, r)
    BY <1>2 DEF FxRowInv, RowsHeldOnce
  <2>2. \A v \in Workers, r \in Refs : InBatch(v, r)' => status'[r] = "queued"
    BY <1>2, <1>3, <2>1 DEF FxRowInv, RowsHeldOnce
  <2>3. \A u, v \in Workers, r \in Refs : InBatch(u, r)' /\ InBatch(v, r)' => u = v
    BY <1>2, <2>1 DEF FxRowInv, RowsHeldOnce
  <2> QED
    BY <1>2, <2>2, <2>3 DEF RowsHeldOnce
<1> QED
  BY <1>2, <1>6, <1>7, <1>8, <1>9, <1>10 DEF FxRowInv

(* Every step of the service preserves the invariant. *)
LEMMA NextRowInv == FxRowInv /\ [Next]_vars => FxRowInv'
<1> SUFFICES ASSUME FxRowInv, [Next]_vars PROVE FxRowInv'
  OBVIOUS
<1>1. ASSUME NEW w \in Workers, LockDebited(w) \/ ReadDebited(w) PROVE FxRowInv'
  BY <1>1, LockStepRowInv DEF LockDebited, ReadDebited
<1>2. ASSUME NEW w \in Workers, Settle(w) PROVE FxRowInv'
  <2>1. PICK answered \in SUBSET Nodes, inTime \in BOOLEAN :
          Resolve(w, "settled", SignSettlement(answered, inTime))
    BY <1>2 DEF Settle
  <2>2. SignSettlement(answered, inTime) \in BOOLEAN
    BY DEF SignSettlement, Combined
  <2>3. pc[w] = "sign" /\ UNCHANGED <<rate, rowVars, batch, crashes>>
    BY <1>2 DEF Settle
  <2> HIDE DEF SignSettlement
  <2> QED
    BY <2>1, <2>2, <2>3, ResolveRowInv
<1>3. ASSUME NEW w \in Workers, FailInsufficient(w) PROVE FxRowInv'
  BY <1>3, ResolveRowInv DEF FailInsufficient
<1>4. ASSUME NEW w \in Workers, DeadlockVictim(w) \/ Crash(w) PROVE FxRowInv'
  <2>1. crashes \in 0..MaxCrashes /\ MaxCrashes \in Nat
    BY FxAssumption DEF FxRowInv, WorkerTypeOK
  <2>2. AbandonBatch(w) /\ crashes' \in 0..MaxCrashes
    BY <1>4, <2>1 DEF DeadlockVictim, Crash
  <2> QED
    BY <2>2, AbandonRowInv
<1>5. ASSUME UNCHANGED vars PROVE FxRowInv'
  BY <1>5
  DEF vars, rowVars, workerVars, FxRowInv, RowTypeOK, WorkerTypeOK, FinitelyMany,
      RowsOnRecord, AmountsOnRecord, RowsHeldOnce, WorkerAtRow, WrittenUpToPos,
      InBatch, LegsSoFar
<1> QED
  BY <1>1, <1>2, <1>3, <1>4, <1>5, RateRowInv, InitiateRowInv, FetchRowInv,
     RecordLegRowInv, CommitRowInv DEF Next, WorkerStep

(* What is on record of every settlement, which worker holds it and what   *)
(* the worker has written to it, at every step of every run.               *)
THEOREM FxRowInvariant == Spec => []FxRowInv
<1> QED
  BY InitRowInv, NextRowInv, PTL DEF Spec

-----------------------------------------------------------------------------
(* The journal discipline.                                                 *)

(* The keys of the leg a worker is at are keys of the journal, and its     *)
(* amount is a transferable amount.                                        *)
LEMMA CurrentLeg ==
  ASSUME FxRowInv, NEW w \in Workers, pc[w] \in {"lock", "read", "act"}
  PROVE  /\ Current(w) \in Refs /\ status[Current(w)] = "queued"
         /\ pos[w] \in DOMAIN batch[w] /\ pos[w] \in Int
         /\ Debited(w) \in Keys /\ Credited(w) \in Keys /\ LegAmount(w) \in Amounts
<1>1. batch[w] \in Seq(Refs) /\ pos[w] \in 1..Len(batch[w])
  BY DEF FxRowInv, WorkerTypeOK, WorkerAtRow
<1>2. Current(w) \in Refs /\ pos[w] \in DOMAIN batch[w] /\ InBatch(w, Current(w))
  BY <1>1 DEF Current, InBatch
<1>3. status[Current(w)] = "queued" /\ buyAmount[Current(w)] \in Amounts
  BY <1>2 DEF FxRowInv, RowsHeldOnce, AmountsOnRecord
<1> DEFINE in == Instruction[Current(w)]
<1>4. in.from \in Liabilities /\ in.to \in Liabilities /\ in.amount \in Amounts
  BY <1>2, FxAssumption
<1>5. Nostro[Currency[in.from]] \in Assets /\ Nostro[Currency[in.to]] \in Assets
  BY <1>4, FxAssumption
<1> QED
  BY <1>1, <1>2, <1>3, <1>4, <1>5 DEF Debited, Credited, LegAmount, Keys

(* Every step of the service is a step of the journal or leaves it alone. *)
LEMMA StepSimulation == FxRowInv /\ [Next]_vars => [LedgerNext]_ledgerVars
<1> SUFFICES ASSUME FxRowInv, [Next]_vars
             PROVE  LedgerNext \/ UNCHANGED ledgerVars
  OBVIOUS
<1>1. Workers \subseteq Sessions
  BY FxAssumption
<1>2. ASSUME NEW w \in Workers, LockDebited(w) PROVE LedgerNext
  BY <1>1, <1>2, CurrentLeg DEF LockDebited, LedgerNext
<1>3. ASSUME NEW w \in Workers, ReadDebited(w) PROVE LedgerNext
  BY <1>1, <1>3, CurrentLeg DEF ReadDebited, LedgerNext
<1>4. ASSUME NEW w \in Workers, RecordLeg(w) PROVE LedgerNext
  BY <1>1, <1>4, CurrentLeg DEF RecordLeg, LedgerNext
<1>5. ASSUME NEW w \in Workers, FailInsufficient(w) PROVE LedgerNext
  BY <1>1, <1>5, CurrentLeg DEF FailInsufficient, LedgerNext
<1>6. ASSUME NEW w \in Workers, DeadlockVictim(w) \/ Crash(w) PROVE LedgerNext
  BY <1>1, <1>6 DEF DeadlockVictim, Crash, AbandonBatch, LedgerNext
<1>7. ASSUME NEW w \in Workers, CommitBatch(w) PROVE LedgerNext
  BY <1>1, <1>7 DEF CommitBatch, LedgerNext
<1> QED
  BY <1>2, <1>3, <1>4, <1>5, <1>6, <1>7
  DEF Next, WorkerStep, vars, RateUpdate, Initiate, FetchBatch, Settle

(* The FX service implements the lock-check-record discipline of the       *)
(* journal, in both legs and for any order of its keys in a batch.         *)
THEOREM FxImplementsLedger == Spec => LedgerSpec
<1>1. Init => LedgerInit
  BY DEF Init
<1> QED
  BY <1>1, FxRowInvariant, StepSimulation, PTL DEF Spec, LedgerSpec

(* No FX worker, alone or racing others, ever overdraws an institution.    *)
THEOREM FxSolvency == Spec => []NoOverdraft
<1> QED
  BY FxImplementsLedger, Solvency, PTL

(* Every variable of the service keeps its type. *)
THEOREM FxTypeCorrectness == Spec => []FxTypeOK
<1>1. Spec => []LedgerTypeOK
  BY FxImplementsLedger, TypeCorrectness, PTL
<1>2. FxRowInv /\ LedgerTypeOK => FxTypeOK
  BY DEF FxRowInv, FxTypeOK
<1> QED
  BY <1>1, <1>2, FxRowInvariant, PTL

(* A settled row has both legs, and no receiver is paid for a sale that    *)
(* did not happen, for any number of workers and any crashes.              *)
THEOREM FxSettledHasBothLegs == Spec => []SettledHasBothLegs
<1>1. FxRowInv => SettledHasBothLegs
  BY DEF FxRowInv, RowsOnRecord, SettledHasBothLegs
<1> QED
  BY <1>1, FxRowInvariant, PTL

(* How often an event is in a list, when it is at no place ... *)
LEMMA CountNone ==
  ASSUME NEW rows, NEW x, \A i \in DOMAIN rows : rows[i] # x
  PROVE  Count(rows, x) = 0
BY NotListed DEF Count

(* ... or at one place only. *)
LEMMA CountOnce ==
  ASSUME NEW rows, NEW x, NEW n \in DOMAIN rows,
         \A i \in DOMAIN rows : rows[i] = x <=> i = n
  PROVE  Count(rows, x) = 1
BY ListedOnce DEF Count

(* The transactional outbox: each leg on record and each final status is   *)
(* announced once, and nothing else is.                                    *)
THEOREM FxOutboxAgrees == Spec => []OutboxAgrees
<1>1. FxRowInv => OutboxAgrees
  <2> SUFFICES ASSUME FxRowInv, NEW r \in Refs
               PROVE  /\ Count(outbox[r], "leg.sell") = IF "sell" \in legs[r] THEN 1 ELSE 0
                      /\ Count(outbox[r], "leg.buy") = IF "buy" \in legs[r] THEN 1 ELSE 0
                      /\ Count(outbox[r], "completed") = IF status[r] = "settled" THEN 1 ELSE 0
                      /\ Count(outbox[r], "failed") = IF status[r] = "failed" THEN 1 ELSE 0
    BY DEF OutboxAgrees
  <2>1. CASE status[r] = "none"
    <3>1. outbox[r] = <<>> /\ legs[r] = {}
      BY <2>1 DEF FxRowInv, RowsOnRecord
    <3> QED
      BY <2>1, <3>1, CountNone
  <2>2. CASE status[r] = "queued"
    <3>1. outbox[r] = <<"initiated">> /\ legs[r] = {}
      BY <2>2 DEF FxRowInv, RowsOnRecord
    <3>2. \A i \in DOMAIN outbox[r] : outbox[r][i] = "initiated"
      BY <3>1
    <3> QED
      BY <2>2, <3>1, <3>2, CountNone
  <2>3. CASE status[r] = "settled"
    <3>1. /\ outbox[r] = <<"initiated", "leg.sell", "leg.buy", "completed">>
          /\ legs[r] = {"sell", "buy"}
      BY <2>3 DEF FxRowInv, RowsOnRecord
    <3>2. /\ DOMAIN outbox[r] = {1, 2, 3, 4} /\ outbox[r][1] = "initiated"
          /\ outbox[r][2] = "leg.sell" /\ outbox[r][3] = "leg.buy"
          /\ outbox[r][4] = "completed"
      BY <3>1
    <3>3. Count(outbox[r], "leg.sell") = 1
      BY <3>2, CountOnce
    <3>4. Count(outbox[r], "leg.buy") = 1
      BY <3>2, CountOnce
    <3>5. Count(outbox[r], "completed") = 1
      BY <3>2, CountOnce
    <3>6. Count(outbox[r], "failed") = 0
      BY <3>2, CountNone
    <3> QED
      BY <2>3, <3>1, <3>3, <3>4, <3>5, <3>6
  <2>4. CASE status[r] = "failed" /\ legs[r] = {}
    <3>1. outbox[r] = <<"initiated", "failed">>
      BY <2>4 DEF FxRowInv, RowsOnRecord
    <3>2. /\ DOMAIN outbox[r] = {1, 2} /\ outbox[r][1] = "initiated"
          /\ outbox[r][2] = "failed"
      BY <3>1
    <3>3. Count(outbox[r], "failed") = 1
      BY <3>2, CountOnce
    <3>4. \A x \in {"leg.sell", "leg.buy", "completed"} : Count(outbox[r], x) = 0
      BY <3>2, CountNone
    <3> QED
      BY <2>4, <3>3, <3>4
  <2>5. CASE status[r] = "failed" /\ legs[r] = {"sell"}
    <3>1. outbox[r] = <<"initiated", "leg.sell", "failed">>
      BY <2>5 DEF FxRowInv, RowsOnRecord
    <3>2. /\ DOMAIN outbox[r] = {1, 2, 3} /\ outbox[r][1] = "initiated"
          /\ outbox[r][2] = "leg.sell" /\ outbox[r][3] = "failed"
      BY <3>1
    <3>3. Count(outbox[r], "failed") = 1
      BY <3>2, CountOnce
    <3>4. Count(outbox[r], "leg.sell") = 1
      BY <3>2, CountOnce
    <3>5. \A x \in {"leg.buy", "completed"} : Count(outbox[r], x) = 0
      BY <3>2, CountNone
    <3> QED
      BY <2>5, <3>3, <3>4, <3>5
  <2> QED
    BY <2>1, <2>2, <2>3, <2>4, <2>5 DEF FxRowInv, RowsOnRecord
<1> QED
  BY <1>1, FxRowInvariant, PTL

-----------------------------------------------------------------------------
(* The journal and the legs.                                               *)

(* What a sale and a purchase add to a key are numbers. *)
LEMMA FlowType ==
  ASSUME FxRowInv, NEW k
  PROVE  SaleOf(k) \in [Refs -> Int] /\ PurchaseOf(k) \in [Refs -> Int]
<1>1. \A r \in Refs : Instruction[r].amount \in Int
  <2>1. \A r \in Refs : Instruction[r].amount \in Amounts
    BY FxAssumption
  <2>2. \A n \in Amounts : n \in Int
    BY AmountsAssumption
  <2> QED
    BY <2>1, <2>2
<1>2. \A r \in Refs : buyAmount[r] \in Int
  BY DEF FxRowInv, RowTypeOK
<1> QED
  BY <1>1, <1>2 DEF SaleOf, PurchaseOf

(* The legs on record and the legs of an open transaction are finitely     *)
(* many and have no row in common: a worker's rows are queued, without     *)
(* legs.                                                                   *)
LEMMA LegSets ==
  ASSUME FxRowInv
  PROVE  /\ Sold \in SUBSET Refs /\ IsFiniteSet(Sold)
         /\ Bought \in SUBSET Refs /\ IsFiniteSet(Bought)
         /\ \A w \in Workers :
              /\ SoldBy(w) \in SUBSET Refs /\ IsFiniteSet(SoldBy(w))
              /\ BoughtBy(w) \in SUBSET Refs /\ IsFiniteSet(BoughtBy(w))
              /\ Sold \cap SoldBy(w) = {} /\ Bought \cap BoughtBy(w) = {}
         /\ \A r \in Bought : status[r] # "none"
         /\ \A w \in Workers : \A r \in BoughtBy(w) : status[r] # "none"
<1> DEFINE known == {r \in Refs : status[r] # "none"}
<1>1. IsFiniteSet(known)
  BY DEF FxRowInv, FinitelyMany
<1>2. Sold \in SUBSET known /\ Bought \in SUBSET known
  BY DEF Sold, Bought, FxRowInv, RowsOnRecord
<1>3. ASSUME NEW w \in Workers, NEW r \in SoldBy(w) \cup BoughtBy(w)
      PROVE  r \in Refs /\ status[r] = "queued" /\ legs[r] = {}
  <2>1. r \in Refs /\ written[w][r] # Untouched
    BY DEF SoldBy, BoughtBy, Untouched
  <2>2. status[r] = "queued"
    BY <2>1 DEF FxRowInv, WrittenUpToPos, RowsHeldOnce
  <2> QED
    BY <2>1, <2>2 DEF FxRowInv, RowsOnRecord
<1>4. ASSUME NEW w \in Workers
      PROVE  /\ SoldBy(w) \in SUBSET known /\ BoughtBy(w) \in SUBSET known
             /\ Sold \cap SoldBy(w) = {} /\ Bought \cap BoughtBy(w) = {}
  BY <1>3 DEF Sold, Bought
<1>5. \A S \in SUBSET known : IsFiniteSet(S) /\ S \in SUBSET Refs
  <2>1. known \in SUBSET Refs
    OBVIOUS
  <2> HIDE DEF known
  <2> QED
    BY <1>1, <2>1, FS_Subset
<1>6. \A S \in SUBSET known : \A r \in S : status[r] # "none"
  OBVIOUS
<1> HIDE DEF known
<1> QED
  BY <1>2, <1>4, <1>5, <1>6

(* A step that leaves the journal, the pending entries and the legs on     *)
(* record and in the open transactions alone.                              *)
LEMMA QuietLegsInv ==
  ASSUME LegsInv, UNCHANGED <<ledger, delta, legs, buyAmount>>,
         \A w \in Workers, r \in Refs : written'[w][r].legs = written[w][r].legs
  PROVE  LegsInv'
<1>1. /\ Sold' = Sold /\ Bought' = Bought
      /\ \A k : SaleOf(k)' = SaleOf(k) /\ PurchaseOf(k)' = PurchaseOf(k)
      /\ \A w \in Workers : SoldBy(w)' = SoldBy(w) /\ BoughtBy(w)' = BoughtBy(w)
  BY DEF Sold, Bought, SaleOf, PurchaseOf, SoldBy, BoughtBy
<1> QED
  BY <1>1 DEF LegsInv, PendingReconciled, LegsReconcile

(* A new settlement has no leg yet, so its amount is in no balance. *)
LEMMA InitiateLegsInv ==
  ASSUME LegsInv, FxRowInv, FxRowInv', NEW r \in Refs, Initiate(r)
  PROVE  LegsInv'
<1>1. /\ UNCHANGED <<ledger, delta, legs, written>> /\ status[r] = "none"
      /\ \A q \in Refs \ {r} : buyAmount'[q] = buyAmount[q]
  BY DEF Initiate, ledgerVars, workerVars, FxRowInv, RowTypeOK
<1>2. /\ Sold' = Sold /\ Bought' = Bought
      /\ \A w \in Workers : SoldBy(w)' = SoldBy(w) /\ BoughtBy(w)' = BoughtBy(w)
      /\ \A k : SaleOf(k)' = SaleOf(k)
  BY <1>1 DEF Sold, Bought, SoldBy, BoughtBy, SaleOf
<1>3. ASSUME NEW k, NEW S \in SUBSET Refs, IsFiniteSet(S), r \notin S
      PROVE  SumFunctionOnSet(PurchaseOf(k)', S) = SumFunctionOnSet(PurchaseOf(k), S)
  <2>1. \A q \in S : PurchaseOf(k)'[q] = PurchaseOf(k)[q]
    BY <1>1, <1>3 DEF PurchaseOf
  <2>2. PurchaseOf(k) \in [Refs -> Int]
    BY FlowType
  <2>3. PurchaseOf(k)' \in [Refs -> Int]
    <3>1. \A q \in Refs : buyAmount'[q] \in Int
      BY DEF FxRowInv, RowTypeOK
    <3> QED
      BY <3>1 DEF PurchaseOf
  <2>4. ASSUME NEW f \in [Refs -> Int], NEW g \in [Refs -> Int], \A q \in S : f[q] = g[q]
        PROVE  SumFunctionOnSet(f, S) = SumFunctionOnSet(g, S)
    BY <1>3, <2>4, SumSame
  <2> QED
    BY <2>1, <2>2, <2>3, <2>4
<1>4. r \notin Bought /\ \A w \in Workers : r \notin BoughtBy(w)
  BY <1>1, LegSets
<1>5. \A k : /\ SumFunctionOnSet(PurchaseOf(k)', Bought) = SumFunctionOnSet(PurchaseOf(k), Bought)
             /\ \A w \in Workers : SumFunctionOnSet(PurchaseOf(k)', BoughtBy(w))
                                      = SumFunctionOnSet(PurchaseOf(k), BoughtBy(w))
  BY <1>3, <1>4, LegSets
<1>6. PendingReconciled'
  BY <1>1, <1>2, <1>5 DEF LegsInv, PendingReconciled
<1>7. LegsReconcile'
  BY <1>1, <1>2, <1>5 DEF LegsInv, LegsReconcile
<1> QED
  BY <1>6, <1>7 DEF LegsInv

(* Adding one row to the rows summed over. *)
LEMMA OneMoreLeg ==
  ASSUME NEW f \in [Refs -> Int], NEW S \in SUBSET Refs, IsFiniteSet(S),
         NEW c \in Refs \ S
  PROVE  /\ SumFunctionOnSet(f, S \cup {c}) = SumFunctionOnSet(f, S) + f[c]
         /\ SumFunctionOnSet(f, S) \in Int
<1>1. SumFunctionOnSet(f, S \cup {c}) = SumFunctionOnSet(f, S) + f[c]
  BY SumAdd
<1>2. SumFunctionOnSet(f, S) \in Int
  BY SumType
<1> QED
  BY <1>1, <1>2

(* Recording a leg adds its flow to what is pending. *)
LEMMA RecordLegsInv ==
  ASSUME LegsInv, FxRowInv, LedgerInv, NEW w \in Workers, RecordLeg(w)
  PROVE  LegsInv'
<1> DEFINE c == Current(w)
           in == Instruction[c]
           sale(k) == SaleOf(k)
           purchase(k) == PurchaseOf(k)
<1>1. /\ pc[w] = "act" /\ c \in Refs /\ pos[w] \in DOMAIN batch[w]
      /\ c = batch[w][pos[w]] /\ leg[w] \in {"sell", "buy"}
  BY CurrentLeg DEF RecordLeg, FxRowInv, WorkerTypeOK, Current
<1>2. /\ delta' = PairEntries(w, Debited(w), Credited(w), LegAmount(w))
      /\ written' = [written EXCEPT ![w][c].legs = @ \cup {leg[w]}]
      /\ UNCHANGED <<ledger, legs, buyAmount>>
  BY DEF RecordLeg, RecordJournalPair, rowVars
<1>3. written[w][c].legs = IF leg[w] = "buy" THEN {"sell"} ELSE {}
  <2>1. written[w][c].legs = LegsSoFar(w)
    BY <1>1 DEF FxRowInv, WrittenUpToPos
  <2> QED
    BY <1>1, <2>1 DEF LegsSoFar
<1>4. w \in Sessions /\ delta \in [Sessions -> [Keys -> Int]] /\ Workers \subseteq Sessions
  BY FxAssumption DEF LedgerInv, LedgerTypeOK
<1>5. \A v \in Workers \ {w} : delta'[v] = delta[v]
  BY <1>2, <1>4 DEF PairEntries
<1>6. \A k \in Keys :
        delta'[w][k] = delta[w][k] - (IF k = Debited(w) THEN LegAmount(w) ELSE 0)
                                   + (IF k = Credited(w) THEN LegAmount(w) ELSE 0)
  BY <1>2, <1>4 DEF PairEntries
<1>7. LegAmount(w) \in Int
  <2>1. LegAmount(w) \in Amounts
    BY <1>1, CurrentLeg
  <2>2. \A n \in Amounts : n \in Int
    BY AmountsAssumption
  <2> QED
    BY <2>1, <2>2
<1>8. ASSUME NEW k \in Keys
      PROVE  delta'[w][k] = delta[w][k]
               + (IF leg[w] = "sell" THEN sale(k)[c] ELSE purchase(k)[c])
  <2>1. CASE leg[w] = "sell"
    <3>1. /\ Debited(w) = in.from /\ Credited(w) = Nostro[Currency[in.from]]
          /\ LegAmount(w) = in.amount
      BY <2>1 DEF Debited, Credited, LegAmount
    <3>2. sale(k)[c] = (IF Nostro[Currency[in.from]] = k THEN in.amount ELSE 0)
                         - (IF in.from = k THEN in.amount ELSE 0)
      BY <1>1 DEF SaleOf
    <3>3. delta[w][k] \in Int
      BY <1>4
    <3> HIDE DEF sale, in
    <3> QED
      BY <1>6, <1>7, <2>1, <3>1, <3>2, <3>3
  <2>2. CASE leg[w] = "buy"
    <3>1. /\ Debited(w) = Nostro[Currency[in.to]] /\ Credited(w) = in.to
          /\ LegAmount(w) = buyAmount[c]
      BY <2>2 DEF Debited, Credited, LegAmount
    <3>2. purchase(k)[c] = (IF in.to = k THEN buyAmount[c] ELSE 0)
                             - (IF Nostro[Currency[in.to]] = k THEN buyAmount[c] ELSE 0)
      BY <1>1 DEF PurchaseOf
    <3>3. delta[w][k] \in Int
      BY <1>4
    <3> HIDE DEF purchase, in
    <3> QED
      BY <1>6, <1>7, <2>2, <3>1, <3>2, <3>3
  <2> QED
    BY <1>1, <2>1, <2>2
<1>9. /\ Sold' = Sold /\ Bought' = Bought
      /\ \A k : SaleOf(k)' = SaleOf(k) /\ PurchaseOf(k)' = PurchaseOf(k)
  BY <1>2 DEF Sold, Bought, SaleOf, PurchaseOf
<1> HIDE DEF c
<1>10. /\ written'[w][c].legs = written[w][c].legs \cup {leg[w]}
       /\ \A r \in Refs \ {c} : written'[w][r] = written[w][r]
       /\ \A v \in Workers \ {w} : written'[v] = written[v]
  BY <1>1, <1>2 DEF FxRowInv, WorkerTypeOK
<1>11. \A v \in Workers \ {w} : SoldBy(v)' = SoldBy(v) /\ BoughtBy(v)' = BoughtBy(v)
  BY <1>10 DEF SoldBy, BoughtBy
<1>12. ASSUME NEW k \in Keys
       PROVE  delta'[w][k] = SumFunctionOnSet(SaleOf(k), SoldBy(w)')
                               + SumFunctionOnSet(PurchaseOf(k), BoughtBy(w)')
  <2>1. /\ SaleOf(k) \in [Refs -> Int] /\ PurchaseOf(k) \in [Refs -> Int]
        /\ SaleOf(k)[c] \in Int /\ PurchaseOf(k)[c] \in Int
    BY <1>1, FlowType
  <2>2. /\ SoldBy(w) \in SUBSET Refs /\ IsFiniteSet(SoldBy(w))
        /\ BoughtBy(w) \in SUBSET Refs /\ IsFiniteSet(BoughtBy(w))
    BY LegSets
  <2>3. /\ SumFunctionOnSet(SaleOf(k), SoldBy(w)) \in Int
        /\ SumFunctionOnSet(PurchaseOf(k), BoughtBy(w)) \in Int
    BY <2>1, <2>2, SumType
  <2>4. delta[w][k] = SumFunctionOnSet(SaleOf(k), SoldBy(w))
                        + SumFunctionOnSet(PurchaseOf(k), BoughtBy(w))
    BY DEF LegsInv, PendingReconciled
  <2>5. CASE leg[w] = "sell"
    <3>1. SoldBy(w)' = SoldBy(w) \cup {c} /\ BoughtBy(w)' = BoughtBy(w) /\ c \notin SoldBy(w)
      BY <1>1, <1>3, <1>10, <2>5 DEF SoldBy, BoughtBy
    <3>2. SumFunctionOnSet(SaleOf(k), SoldBy(w)')
            = SumFunctionOnSet(SaleOf(k), SoldBy(w)) + SaleOf(k)[c]
      BY <1>1, <2>1, <2>2, <3>1, OneMoreLeg
    <3>3. delta'[w][k] = delta[w][k] + SaleOf(k)[c]
      BY <1>8, <2>5
    <3> QED
      BY <2>1, <2>3, <2>4, <3>1, <3>2, <3>3
  <2>6. CASE leg[w] = "buy"
    <3>1. SoldBy(w)' = SoldBy(w) /\ BoughtBy(w)' = BoughtBy(w) \cup {c} /\ c \notin BoughtBy(w)
      BY <1>1, <1>3, <1>10, <2>6 DEF SoldBy, BoughtBy
    <3>2. SumFunctionOnSet(PurchaseOf(k), BoughtBy(w)')
            = SumFunctionOnSet(PurchaseOf(k), BoughtBy(w)) + PurchaseOf(k)[c]
      BY <1>1, <2>1, <2>2, <3>1, OneMoreLeg
    <3>3. delta'[w][k] = delta[w][k] + PurchaseOf(k)[c]
      BY <1>8, <2>6
    <3> QED
      BY <2>1, <2>3, <2>4, <3>1, <3>2, <3>3
  <2> QED
    BY <1>1, <2>5, <2>6
<1>13. PendingReconciled'
  BY <1>5, <1>9, <1>11, <1>12 DEF LegsInv, PendingReconciled
<1>14. LegsReconcile'
  BY <1>2, <1>9 DEF LegsInv, LegsReconcile
<1> QED
  BY <1>13, <1>14 DEF LegsInv

(* The end of a worker's transaction leaves it with nothing pending. *)
LEMMA EndLegsInv ==
  ASSUME LegsInv, LedgerInv, FxRowInv, NEW w \in Workers, EndTransaction(w),
         EndBatch(w), UNCHANGED buyAmount
  PROVE  PendingReconciled'
<1>1. /\ \A r \in Refs : written'[w][r] = Untouched
      /\ \A v \in Workers \ {w} : written'[v] = written[v]
  BY DEF EndBatch, FxRowInv, WorkerTypeOK
<1>2. /\ SoldBy(w)' = {} /\ BoughtBy(w)' = {}
      /\ \A v \in Workers \ {w} : SoldBy(v)' = SoldBy(v) /\ BoughtBy(v)' = BoughtBy(v)
      /\ \A k : SaleOf(k)' = SaleOf(k) /\ PurchaseOf(k)' = PurchaseOf(k)
  BY <1>1 DEF SoldBy, BoughtBy, Untouched, SaleOf, PurchaseOf
<1>3. w \in Sessions /\ Workers \subseteq Sessions
  BY FxAssumption
<1>4. /\ \A k \in Keys : delta'[w][k] = 0
      /\ \A v \in Workers \ {w} : delta'[v] = delta[v]
  BY <1>3, EndTransactionEffect
<1>5. \A f : SumFunctionOnSet(f, {}) = 0
  BY FS_EmptySet, SumUnfold
<1>6. ASSUME NEW v \in Workers, NEW k \in Keys
      PROVE  delta'[v][k] = SumFunctionOnSet(SaleOf(k), SoldBy(v)')
                              + SumFunctionOnSet(PurchaseOf(k), BoughtBy(v)')
  <2>1. CASE v = w
    <3>1. /\ SumFunctionOnSet(SaleOf(k), SoldBy(v)') = 0
          /\ SumFunctionOnSet(PurchaseOf(k), BoughtBy(v)') = 0
      BY <1>2, <1>5, <2>1
    <3> QED
      BY <1>4, <2>1, <3>1
  <2>2. CASE v # w
    BY <1>2, <1>4, <2>2 DEF LegsInv, PendingReconciled
  <2> QED
    BY <2>1, <2>2
<1> QED
  BY <1>2, <1>6 DEF PendingReconciled

(* Giving a batch up leaves the journal and the settlements alone. *)
LEMMA AbandonLegsInv ==
  ASSUME LegsInv, LedgerInv, FxRowInv, NEW w \in Workers, AbandonBatch(w)
  PROVE  LegsInv'
<1>1. UNCHANGED <<ledger, legs, buyAmount>> /\ EndTransaction(w) /\ EndBatch(w)
  BY DEF AbandonBatch, Rollback, rowVars
<1>2. PendingReconciled'
  BY <1>1, EndLegsInv
<1>3. LegsReconcile'
  BY <1>1 DEF LegsInv, LegsReconcile, Sold, Bought, SaleOf, PurchaseOf
<1> QED
  BY <1>2, <1>3 DEF LegsInv

(* A commit publishes the legs of its transaction and their entries. *)
LEMMA CommitLegsInv ==
  ASSUME LegsInv, LedgerInv, FxRowInv, NEW w \in Workers, CommitBatch(w)
  PROVE  LegsInv'
<1>1. /\ EndTransaction(w) /\ EndBatch(w) /\ UNCHANGED buyAmount
      /\ \A k \in Keys : ledger'[k] = ledger[k] + delta[w][k]
      /\ \A r \in Refs : legs'[r] = legs[r] \cup written[w][r].legs
  BY DEF CommitBatch, Commit
<1>2. PendingReconciled'
  BY <1>1, EndLegsInv
<1>3. Sold' = Sold \cup SoldBy(w) /\ Bought' = Bought \cup BoughtBy(w)
  BY <1>1 DEF Sold, Bought, SoldBy, BoughtBy
<1>4. \A k : SaleOf(k)' = SaleOf(k) /\ PurchaseOf(k)' = PurchaseOf(k)
  BY <1>1 DEF SaleOf, PurchaseOf
<1>5. ASSUME NEW k \in Keys
      PROVE  ledger'[k] = Opening[k] + SumFunctionOnSet(SaleOf(k), Sold \cup SoldBy(w))
                                     + SumFunctionOnSet(PurchaseOf(k), Bought \cup BoughtBy(w))
  <2>1. SaleOf(k) \in [Refs -> Int] /\ PurchaseOf(k) \in [Refs -> Int]
    BY FlowType
  <2>2. SumFunctionOnSet(SaleOf(k), Sold \cup SoldBy(w))
          = SumFunctionOnSet(SaleOf(k), Sold) + SumFunctionOnSet(SaleOf(k), SoldBy(w))
    BY <2>1, LegSets, SumUnion
  <2>3. SumFunctionOnSet(PurchaseOf(k), Bought \cup BoughtBy(w))
          = SumFunctionOnSet(PurchaseOf(k), Bought) + SumFunctionOnSet(PurchaseOf(k), BoughtBy(w))
    BY <2>1, LegSets, SumUnion
  <2>4. /\ SumFunctionOnSet(SaleOf(k), Sold) \in Int
        /\ SumFunctionOnSet(SaleOf(k), SoldBy(w)) \in Int
    BY <2>1, LegSets, SumType
  <2>5. /\ SumFunctionOnSet(PurchaseOf(k), Bought) \in Int
        /\ SumFunctionOnSet(PurchaseOf(k), BoughtBy(w)) \in Int
    BY <2>1, LegSets, SumType
  <2>6. delta[w][k] = SumFunctionOnSet(SaleOf(k), SoldBy(w))
                        + SumFunctionOnSet(PurchaseOf(k), BoughtBy(w))
    BY DEF LegsInv, PendingReconciled
  <2>7. /\ Opening[k] \in Int
        /\ ledger[k] = Opening[k] + SumFunctionOnSet(SaleOf(k), Sold)
                                  + SumFunctionOnSet(PurchaseOf(k), Bought)
    BY OpeningAssumption DEF LegsInv, LegsReconcile
  <2>8. ledger'[k] = ledger[k] + delta[w][k]
    BY <1>1
  <2> QED
    BY <2>2, <2>3, <2>4, <2>5, <2>6, <2>7, <2>8
<1>6. LegsReconcile'
  BY <1>3, <1>4, <1>5 DEF LegsReconcile
<1> QED
  BY <1>2, <1>6 DEF LegsInv

(* Initially nothing is sold or bought. *)
LEMMA InitLegsInv == Init => LegsInv
<1> SUFFICES ASSUME Init PROVE LegsInv
  OBVIOUS
<1>1. /\ Sold = {} /\ Bought = {}
      /\ \A w \in Workers : SoldBy(w) = {} /\ BoughtBy(w) = {}
  BY DEF Init, Sold, Bought, SoldBy, BoughtBy, Untouched
<1>2. \A f : SumFunctionOnSet(f, {}) = 0
  BY FS_EmptySet, SumUnfold
<1>3. \A w \in Workers, k \in Keys : delta[w][k] = 0
  BY FxAssumption DEF Init, LedgerInit, NoEntries
<1>4. \A k \in Keys : ledger[k] = Opening[k] /\ Opening[k] \in Int
  BY OpeningAssumption DEF Init, LedgerInit
<1>5. \A k : /\ SumFunctionOnSet(SaleOf(k), {}) = 0
             /\ SumFunctionOnSet(PurchaseOf(k), {}) = 0
  BY <1>2
<1>6. PendingReconciled
  BY <1>1, <1>3, <1>5 DEF PendingReconciled
<1>7. LegsReconcile
  BY <1>1, <1>4, <1>5 DEF LegsReconcile
<1> QED
  BY <1>6, <1>7 DEF LegsInv

(* Every step of the service preserves the reconciliation. *)
LEMMA NextLegsInv ==
  LegsInv /\ LedgerInv /\ FxRowInv /\ FxRowInv' /\ [Next]_vars => LegsInv'
<1> SUFFICES ASSUME LegsInv, LedgerInv, FxRowInv, FxRowInv', [Next]_vars
             PROVE  LegsInv'
  OBVIOUS
<1>1. ASSUME UNCHANGED <<ledger, delta, legs, buyAmount, written>> PROVE LegsInv'
  BY <1>1, QuietLegsInv
<1>2. ASSUME NEW pair, NEW x, RateUpdate(pair, x) PROVE LegsInv'
  BY <1>1, <1>2 DEF RateUpdate, ledgerVars, rowVars, workerVars
<1>3. ASSUME NEW w \in Workers, FetchBatch(w) \/ LockDebited(w) \/ ReadDebited(w)
      PROVE  LegsInv'
  BY <1>1, <1>3
  DEF FetchBatch, LockDebited, ReadDebited, ledgerVars, rowVars,
      AcquireBalanceLock, GetBalance
<1>4. ASSUME NEW w \in Workers, Settle(w) \/ FailInsufficient(w) PROVE LegsInv'
  <2>1. UNCHANGED <<ledger, delta, legs, buyAmount>>
    BY <1>4 DEF Settle, FailInsufficient, RefuseInsufficient, ledgerVars, rowVars
  <2>2. PICK result, withSignature : Resolve(w, result, withSignature)
    BY <1>4 DEF Settle, FailInsufficient
  <2>3. \A v \in Workers, r \in Refs : written'[v][r].legs = written[v][r].legs
    BY <2>2 DEF Resolve, FxRowInv, WorkerTypeOK
  <2> QED
    BY <2>1, <2>3, QuietLegsInv
<1>5. ASSUME NEW w \in Workers, DeadlockVictim(w) \/ Crash(w) PROVE LegsInv'
  BY <1>5, AbandonLegsInv DEF DeadlockVictim, Crash
<1>6. ASSUME UNCHANGED vars PROVE LegsInv'
  BY <1>1, <1>6 DEF vars, ledgerVars, rowVars, workerVars
<1> QED
  BY <1>2, <1>3, <1>4, <1>5, <1>6, InitiateLegsInv, RecordLegsInv, CommitLegsInv
  DEF Next, WorkerStep

(* The journal and the settlements agree at every commit of every worker:  *)
(* each balance is the opening balance plus exactly the legs on record, at *)
(* the amounts fixed when the settlements were initiated.                  *)
THEOREM FxLegsReconcile == Spec => []LegsReconcile
<1>1. Spec => []LedgerInv
  BY FxImplementsLedger, LedgerInvariant, PTL
<1>2. Spec => []LegsInv
  BY <1>1, FxRowInvariant, InitLegsInv, NextLegsInv, PTL DEF Spec
<1>3. LegsInv => LegsReconcile
  BY DEF LegsInv
<1> QED
  BY <1>2, <1>3, PTL

=============================================================================

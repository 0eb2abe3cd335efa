---------------------------- MODULE EngineProofs ----------------------------
(***************************************************************************)
(* Proofs about the payment engine, for every set of threads, payments and *)
(* contracts, of the invariants of PaymentEngine.tla.  The engine is not   *)
(* shown to implement LedgerSpec: it does not (a release of an escrow does *)
(* not check the balance it debits, see MCEngineOverdraft.cfg).  What is   *)
(* left of the properties that it breaks is proved at the end: how far an  *)
(* account can be overdrawn, and how often a payment can be executed.      *)
(***************************************************************************)
EXTENDS PaymentEngine, LedgerProofs

-----------------------------------------------------------------------------
(* The inductive invariant.                                                *)

Listed(status, list) == \E i \in DOMAIN list : list[i] = status

(* A handler between BeginReserve and CreateEscrow. *)
Creating(s) == pc[s] \in {"held", "released", "act"} /\ at[s] \in Escrows

(* Every label is reached with a row of the right table, which is on       *)
(* record unless the thread is about to create it.                         *)
AtItsRow(s) ==
  /\ pc[s] \in {"execute", "lock", "balance", "fail"} => at[s] \in Payments
  /\ pc[s] \in {"held", "released", "act"} => at[s] \in Rows
  /\ pc[s] \in {"pay", "expire"} => at[s] \in Escrows
  /\ pc[s] = "expire" => s \in Checkers
  /\ pc[s] = "pay" => s \in Handlers
  /\ at[s] \in Rows => at[s] \in Recorded \/ Creating(s)
  /\ todo[s] \subseteq Recorded

(* A contract that is being created is no other thread's, and its creator  *)
(* has written nothing yet.                                                *)
CreatesAlone(s) ==
  Creating(s) => /\ s \in Handlers /\ at[s] \notin Recorded
                 /\ \A r \in Rows : draft[s][r] = <<>>
                 /\ \A t \in Threads : at[t] = at[s] => t = s

(* What a thread has written and not committed is locked by it, and only   *)
(* rows on record are locked.                                              *)
DraftsLocked(s) ==
  /\ \A r \in Rows : draft[s][r] # <<>> => rowLock[r] = s
  /\ \A r \in Rows : rowLock[r] = s => r \in Recorded
  /\ pc[s] \in {"idle", "pay"} => \A r \in Rows : draft[s][r] = <<>>

(* A handler that is paying a contract out holds its row, and nobody has   *)
(* resolved it; the checker writes nothing but expiries to contracts.      *)
ContractHeld(s) ==
  /\ pc[s] = "pay" => rowLock[at[s]] = s /\ history[at[s]] = <<"active">>
  /\ s \in Handlers => \A e \in Escrows : draft[s][e] # <<>> =>
       draft[s][e] = <<"released">> /\ history[e] = <<"active">>
  /\ s \in Checkers => \A e \in Escrows : \A i \in DOMAIN draft[s][e] :
       draft[s][e][i] = "expired"

ThreadInv(s) ==
  AtItsRow(s) /\ CreatesAlone(s) /\ DraftsLocked(s) /\ ContractHeld(s)

(* An active contract has never been anything else, and a contract is      *)
(* released or refunded at most once.                                      *)
EscrowInv(e) ==
  /\ history[e] # <<>> /\ Last(history[e]) = "active" => history[e] = <<"active">>
  /\ Count(history[e], "released") + Count(history[e], "refunded") <= 1

RowInv ==
  /\ EngineTypeOK
  /\ IsFiniteSet(Recorded)
  /\ \A s \in Threads : ThreadInv(s)
  /\ \A e \in Escrows : EscrowInv(e)

(* What a thread has written and not committed reconciles with its pending *)
(* journal entries and its pending release holds.                          *)
Pending(s) ==
  \A k \in Keys :
    /\ delta[s][k] = SumFunctionOnSet(MovesOf(k, draft[s]), Recorded)
    /\ freed[s][k] = SumFunctionOnSet(FreesOf(k, draft[s]), Recorded)

PendingReconciles == \A s \in Threads : Pending(s)

BooksInv == RowInv /\ PendingReconciles /\ JournalReconciles /\ HoldsReconcile

-----------------------------------------------------------------------------
(* Lists of status rows.                                                   *)

LEMMA CountType ==
  ASSUME NEW S, NEW list \in Seq(S), NEW x
  PROVE  /\ IsFiniteSet({i \in DOMAIN list : list[i] = x})
         /\ Count(list, x) \in Nat
<1>1. DOMAIN list = 1..Len(list) /\ Len(list) \in Nat
  OBVIOUS
<1>2. IsFiniteSet(1..Len(list))
  BY <1>1, FS_Interval
<1>3. IsFiniteSet({i \in DOMAIN list : list[i] = x})
  BY <1>1, <1>2, FS_Subset
<1> QED
  BY <1>3, FS_CardinalityType DEF Count

LEMMA CountEmpty ==
  ASSUME NEW x
  PROVE  Count(<<>>, x) = 0
<1>1. {i \in DOMAIN <<>> : <<>>[i] = x} = {}
  OBVIOUS
<1> QED
  BY <1>1, FS_EmptySet DEF Count

LEMMA CountOne ==
  ASSUME NEW x, NEW y
  PROVE  Count(<<y>>, x) = IF x = y THEN 1 ELSE 0
<1> DEFINE list == <<y>>
<1>1. DOMAIN list = {1} /\ list[1] = y
  OBVIOUS
<1> HIDE DEF list
<1>2. CASE x = y
  <2>1. 1 \in DOMAIN list /\ \A i \in DOMAIN list : list[i] = x <=> i = 1
    BY <1>1, <1>2
  <2>2. Cardinality({i \in DOMAIN list : list[i] = x}) = 1
    BY <2>1, ListedOnce
  <2> QED
    BY <1>2, <2>2 DEF list, Count
<1>3. CASE x # y
  <2>1. \A i \in DOMAIN list : list[i] # x
    BY <1>1, <1>3
  <2>2. Cardinality({i \in DOMAIN list : list[i] = x}) = 0
    BY <2>1, NotListed
  <2> QED
    BY <1>3, <2>2 DEF list, Count
<1> QED
  BY <1>2, <1>3

(* The rows of two lists, one after the other. *)
LEMMA CountConcat ==
  ASSUME NEW S, NEW a \in Seq(S), NEW b \in Seq(S), NEW x
  PROVE  Count(a \o b, x) = Count(a, x) + Count(b, x)
<1> DEFINE A == {i \in DOMAIN a : a[i] = x}
           B == {i \in DOMAIN b : b[i] = x}
           C == {i \in DOMAIN (a \o b) : (a \o b)[i] = x}
           n == Len(a)
           f == [i \in B |-> i + n]
           D == {i + n : i \in B}
<1>0. /\ n \in Nat /\ Len(b) \in Nat
      /\ DOMAIN a = 1..n /\ DOMAIN b = 1..Len(b)
  OBVIOUS
<1>1. /\ DOMAIN (a \o b) = 1..(n + Len(b))
      /\ \A i \in 1..(n + Len(b)) :
           (a \o b)[i] = IF i <= n THEN a[i] ELSE b[i - n]
  BY ConcatProperties
<1>2. IsFiniteSet(A) /\ IsFiniteSet(B)
  BY CountType
<1>3. C = A \cup D
  <2>1. ASSUME NEW i \in C PROVE i \in A \cup D
    <3>1. CASE i <= n
      BY <1>0, <1>1, <3>1
    <3>2. CASE ~(i <= n)
      <4>1. i - n \in B /\ i = (i - n) + n
        BY <1>0, <1>1, <3>2
      <4> QED
        BY <4>1
    <3> QED
      BY <3>1, <3>2
  <2>2. ASSUME NEW i \in A PROVE i \in C
    BY <1>0, <1>1
  <2>3. ASSUME NEW i \in B PROVE i + n \in C
    BY <1>0, <1>1
  <2> QED
    BY <2>1, <2>2, <2>3
<1>4. A \cap D = {}
  BY <1>0
<1>5. f \in Bijection(B, D)
  <2>1. \A i, j \in B : i + n = j + n => i = j
    BY <1>0
  <2>2. f \in [B -> D] /\ \A i, j \in B : f[i] = f[j] => i = j
    BY <2>1
  <2>3. \A d \in D : \E i \in B : f[i] = d
    OBVIOUS
  <2> HIDE DEF B, D, f
  <2> QED
    BY <2>2, <2>3 DEF Bijection, Injection, Surjection, IsInjective
<1> HIDE DEF A, B, C, D, f, n
<1>6. IsFiniteSet(D) /\ Cardinality(D) = Cardinality(B)
  BY <1>2, <1>5, FS_Bijection DEF ExistsBijection
<1>7. Cardinality(A \cup D) = Cardinality(A) + Cardinality(D) - Cardinality(A \cap D)
  BY <1>2, <1>6, FS_Union
<1>8. /\ Cardinality(A \cap D) = 0
      /\ Cardinality(A) \in Nat /\ Cardinality(D) \in Nat
  BY <1>2, <1>4, <1>6, FS_EmptySet, FS_CardinalityType
<1>9. Cardinality(C) = Cardinality(A) + Cardinality(B)
  BY <1>3, <1>6, <1>7, <1>8
<1> QED
  BY <1>9 DEF A, B, C, Count

LEMMA CountAppend ==
  ASSUME NEW S, NEW list \in Seq(S), NEW y \in S, NEW x
  PROVE  Count(Append(list, y), x) = Count(list, x) + (IF x = y THEN 1 ELSE 0)
<1>1. Append(list, y) = list \o <<y>> /\ <<y>> \in Seq(S)
  BY AppendIsConcat
<1>2. Count(list \o <<y>>, x) = Count(list, x) + Count(<<y>>, x)
  BY <1>1, CountConcat
<1> QED
  BY <1>1, <1>2, CountOne

LEMMA ListedConcat ==
  ASSUME NEW S, NEW a \in Seq(S), NEW b \in Seq(S), NEW x, Listed(x, a \o b)
  PROVE  Listed(x, a) \/ Listed(x, b)
<1>0. /\ Len(a) \in Nat /\ Len(b) \in Nat
      /\ DOMAIN a = 1..Len(a) /\ DOMAIN b = 1..Len(b)
  OBVIOUS
<1>1. /\ DOMAIN (a \o b) = 1..(Len(a) + Len(b))
      /\ \A i \in 1..(Len(a) + Len(b)) :
           (a \o b)[i] = IF i <= Len(a) THEN a[i] ELSE b[i - Len(a)]
  BY ConcatProperties
<1>2. PICK i \in DOMAIN (a \o b) : (a \o b)[i] = x
  BY DEF Listed
<1>3. CASE i <= Len(a)
  BY <1>0, <1>1, <1>2, <1>3 DEF Listed
<1>4. CASE ~(i <= Len(a))
  <2>1. i - Len(a) \in DOMAIN b /\ b[i - Len(a)] = x
    BY <1>0, <1>1, <1>2, <1>4
  <2> QED
    BY <2>1 DEF Listed
<1> QED
  BY <1>3, <1>4

LEMMA ListedAppend ==
  ASSUME NEW S, NEW list \in Seq(S), NEW y \in S, NEW x,
         Listed(x, Append(list, y))
  PROVE  Listed(x, list) \/ x = y
<1>1. Append(list, y) = list \o <<y>> /\ <<y>> \in Seq(S)
  BY AppendIsConcat
<1>2. Listed(x, list) \/ Listed(x, <<y>>)
  BY <1>1, ListedConcat
<1> QED
  BY <1>2 DEF Listed

(* A status that is counted is listed. *)
LEMMA CountedIsListed ==
  ASSUME NEW list, NEW x, Count(list, x) # 0
  PROVE  Listed(x, list)
BY NotListed DEF Listed, Count

(* The last row of two lists is the last row of the second. *)
LEMMA LastOfConcat ==
  ASSUME NEW S, NEW a \in Seq(S), NEW b \in Seq(S)
  PROVE  /\ a \o b = <<>> <=> a = <<>> /\ b = <<>>
         /\ b = <<>> => a \o b = a
         /\ b # <<>> => Last(a \o b) = Last(b)
<1>0. /\ Len(a) \in Nat /\ Len(b) \in Nat
      /\ (a = <<>> <=> Len(a) = 0) /\ (b = <<>> <=> Len(b) = 0)
  BY EmptySeq
<1>1. /\ a \o b \in Seq(S)
      /\ Len(a \o b) = Len(a) + Len(b)
      /\ \A i \in 1..(Len(a) + Len(b)) :
           (a \o b)[i] = IF i <= Len(a) THEN a[i] ELSE b[i - Len(a)]
  BY ConcatProperties
<1>2. a \o b = <<>> <=> a = <<>> /\ b = <<>>
  <2>1. a \o b = <<>> <=> Len(a \o b) = 0
    BY <1>1, EmptySeq
  <2> QED
    BY <1>0, <1>1, <2>1
<1>3. ASSUME b = <<>> PROVE a \o b = a
  BY <1>3, ConcatEmptySeq
<1>4. ASSUME b # <<>> PROVE Last(a \o b) = Last(b)
  <2>1. Len(a) + Len(b) \in 1..(Len(a) + Len(b)) /\ ~(Len(a) + Len(b) <= Len(a))
    BY <1>0, <1>4
  <2>2. (Len(a) + Len(b)) - Len(a) = Len(b)
    BY <1>0
  <2> QED
    BY <1>1, <2>1, <2>2 DEF Last
<1> QED
  BY <1>2, <1>3, <1>4

-----------------------------------------------------------------------------
(* Types.                                                                  *)

LEMMA TermsTyped ==
  /\ \A r \in Rows : /\ Terms[r].debit \in Keys /\ Terms[r].credit \in Keys
                     /\ Terms[r].amount \in Amounts
                     /\ Terms[r].amount \in Nat /\ Terms[r].amount \in Int
  /\ Threads \subseteq Sessions
  /\ NoOne \notin Threads
  /\ Payments \subseteq Rows /\ Escrows \subseteq Rows
  /\ Handlers \subseteq Threads /\ Checkers \subseteq Threads
<1>1. \A r \in Rows : /\ Terms[r].debit \in Liabilities
                      /\ Terms[r].credit \in Liabilities
                      /\ Terms[r].amount \in Amounts
  BY EngineAssumption
<1>2. \A n \in Amounts : n \in Nat /\ n \in Int
  BY AmountsAssumption
<1>3. Threads \subseteq Sessions
  BY EngineAssumption DEF Threads
<1> QED
  BY <1>1, <1>2, <1>3, KeysAssumption DEF Keys, Rows, Threads

(* The end of a session keeps the types. *)
LEMMA EndSessionTypes ==
  ASSUME RowTypeOK, NEW s \in Threads, EndSession(s)
  PROVE  /\ freed' \in [Threads -> [Keys -> Nat]]
         /\ draft' \in [Threads -> [Rows -> Seq(Statuses)]]
         /\ rowLock' \in [Rows -> Threads \cup {NoOne}]
         /\ pc' \in [Threads -> Labels]
         /\ at' \in [Threads -> Rows \cup {NoRow}]
         /\ todo' \in [Threads -> SUBSET Rows]
         /\ passNow' \in [Threads -> 0..MaxClock]
<1>1. [r \in Rows |-> <<>>] \in [Rows -> Seq(Statuses)]
  OBVIOUS
<1>2. NoEntries \in [Keys -> Nat]
  BY DEF NoEntries
<1>3. 0 \in 0..MaxClock
  BY EngineAssumption
<1>4. "idle" \in Labels
  BY DEF Labels
<1>5. freed' \in [Threads -> [Keys -> Nat]]
  BY <1>2 DEF RowTypeOK, EndSession
<1>6. draft' \in [Threads -> [Rows -> Seq(Statuses)]]
  BY <1>1 DEF RowTypeOK, EndSession
<1>7. rowLock' \in [Rows -> Threads \cup {NoOne}]
  BY DEF RowTypeOK, EndSession
<1>8. pc' \in [Threads -> Labels]
  BY <1>4 DEF RowTypeOK, EndSession
<1>9. at' \in [Threads -> Rows \cup {NoRow}]
  BY DEF RowTypeOK, EndSession
<1>10. todo' \in [Threads -> SUBSET Rows]
  BY DEF RowTypeOK, EndSession
<1>11. passNow' \in [Threads -> 0..MaxClock]
  BY <1>3 DEF RowTypeOK, EndSession
<1> QED
  BY <1>5, <1>6, <1>7, <1>8, <1>9, <1>10, <1>11

LEMMA EndTransactionTypes ==
  ASSUME LedgerTypeOK, NEW s \in Sessions, EndTransaction(s)
  PROVE  /\ delta' \in [Sessions -> [Keys -> Int]]
         /\ holder' \in [Keys -> Sessions \cup {NoOne}]
         /\ seen' \in [Sessions -> [key : Keys \cup {NoKey}, balance : Int]]
BY DEF LedgerTypeOK, EndTransaction, NoEntries, NoRead

LEMMA CommitTypes ==
  ASSUME LedgerTypeOK, NEW s \in Sessions, Commit(s)
  PROVE  LedgerTypeOK'
<1>1. ledger' \in [Keys -> Int]
  BY DEF LedgerTypeOK, Commit
<1> QED
  BY <1>1, EndTransactionTypes DEF LedgerTypeOK, Commit

LEMMA CommitSessionTypes ==
  ASSUME EngineTypeOK, NEW s \in Threads, CommitSession(s)
  PROVE  EngineTypeOK'
<1>1. LedgerTypeOK /\ RowTypeOK
  BY DEF EngineTypeOK
<1>2. LedgerTypeOK'
  BY <1>1, CommitTypes, TermsTyped DEF CommitSession
<1>3. released' \in [Keys -> Nat]
  BY <1>1 DEF RowTypeOK, CommitSession
<1>4. history' \in [Rows -> Seq(Statuses)]
  <2>1. \A r \in Rows : history[r] \o draft[s][r] \in Seq(Statuses)
    BY <1>1, ConcatProperties DEF RowTypeOK
  <2> QED
    BY <2>1 DEF CommitSession
<1>5. UNCHANGED <<reserved, told, clock, crashes>>
  BY DEF CommitSession, worldVars
<1>6. RowTypeOK'
  BY <1>1, <1>3, <1>4, <1>5, EndSessionTypes DEF RowTypeOK, CommitSession
<1> QED
  BY <1>2, <1>6 DEF EngineTypeOK

LEMMA RollbackSessionTypes ==
  ASSUME EngineTypeOK, NEW s \in Threads, RollbackSession(s),
         UNCHANGED <<told, clock>>, crashes' \in 0..MaxCrashes
  PROVE  EngineTypeOK'
<1>1. LedgerTypeOK /\ RowTypeOK
  BY DEF EngineTypeOK
<1>2. LedgerTypeOK'
  BY <1>1, EndTransactionTypes, TermsTyped
  DEF LedgerTypeOK, RollbackSession, Rollback
<1>3. UNCHANGED <<reserved, released, history>>
  BY DEF RollbackSession, tableVars
<1>4. RowTypeOK'
  BY <1>1, <1>3, EndSessionTypes DEF RowTypeOK, RollbackSession
<1> QED
  BY <1>2, <1>4 DEF EngineTypeOK

LEMMA WriteStatusTypes ==
  ASSUME RowTypeOK, NEW s \in Threads, NEW r \in Rows, NEW new \in Statuses,
         WriteStatus(s, r, new)
  PROVE  /\ rowLock' \in [Rows -> Threads \cup {NoOne}]
         /\ draft' \in [Threads -> [Rows -> Seq(Statuses)]]
<1>1. rowLock' \in [Rows -> Threads \cup {NoOne}]
  BY DEF RowTypeOK, WriteStatus
<1>2. Append(draft[s][r], new) \in Seq(Statuses)
  BY DEF RowTypeOK
<1>3. draft' = [draft EXCEPT ![s] = [@ EXCEPT ![r] = Append(draft[s][r], new)]]
  BY DEF RowTypeOK, WriteStatus
<1> QED
  BY <1>1, <1>2, <1>3 DEF RowTypeOK

LEMMA PairTypes ==
  ASSUME LedgerTypeOK, NEW s \in Sessions, NEW debit \in Keys, NEW credit \in Keys,
         NEW amount \in Int
  PROVE  /\ PairEntries(s, debit, credit, amount) \in [Sessions -> [Keys -> Int]]
         /\ \A t \in Sessions \ {s} :
              PairEntries(s, debit, credit, amount)[t] = delta[t]
         /\ \A k \in Keys : PairEntries(s, debit, credit, amount)[s][k] =
              delta[s][k] - (IF k = debit THEN amount ELSE 0)
                          + (IF k = credit THEN amount ELSE 0)
BY DEF LedgerTypeOK, PairEntries

-----------------------------------------------------------------------------
(* The rows: what a step of one thread leaves of the others.               *)

(* A step leaves the threads of T alone: it does not move them, keeps the  *)
(* rows they have locked, and does not take a contract they are creating.  *)
Untouched(T) ==
  /\ \A t \in T : /\ pc'[t] = pc[t] /\ at'[t] = at[t]
                  /\ draft'[t] = draft[t] /\ todo'[t] = todo[t]
  /\ \A t \in T, r \in Rows :
       /\ rowLock[r] = t => rowLock'[r] = t /\ history'[r] = history[r]
       /\ rowLock'[r] = t => rowLock[r] = t
  /\ \A r \in Rows : history[r] # <<>> => history'[r] # <<>>
  /\ \A t \in T : Creating(t) =>
       /\ history'[at[t]] = <<>>
       /\ \A u \in Threads : at'[u] = at[t] => u = t

LEMMA UntouchedKept ==
  ASSUME RowInv, NEW T \in SUBSET Threads, Untouched(T)
  PROVE  \A t \in T : ThreadInv(t)'
<1> SUFFICES ASSUME NEW t \in T PROVE ThreadInv(t)'
  OBVIOUS
<1>0. /\ t \in Threads /\ ThreadInv(t)
      /\ Payments \subseteq Rows /\ Escrows \subseteq Rows
  BY TermsTyped DEF RowInv
<1>1. /\ pc'[t] = pc[t] /\ at'[t] = at[t]
      /\ draft'[t] = draft[t] /\ todo'[t] = todo[t]
  BY DEF Untouched
<1>2. \A r \in Rows : r \in Recorded => r \in Recorded'
  BY DEF Untouched, Recorded
<1>3. Creating(t)' <=> Creating(t)
  BY <1>1 DEF Creating
<1>4. \A r \in Rows : /\ rowLock[r] = t => rowLock'[r] = t /\ history'[r] = history[r]
                      /\ rowLock'[r] = t => rowLock[r] = t
  BY DEF Untouched
<1>5. AtItsRow(t)'
  <2>1. Recorded \subseteq Rows
    BY DEF Recorded
  <2> QED
    BY <1>0, <1>1, <1>2, <1>3, <2>1 DEF ThreadInv, AtItsRow
<1>6. CreatesAlone(t)'
  <2>1. Creating(t) => /\ history'[at[t]] = <<>>
                       /\ \A u \in Threads : at'[u] = at[t] => u = t
    BY DEF Untouched
  <2>2. Creating(t) => at'[t] \notin Recorded'
    BY <1>1, <2>1 DEF Recorded
  <2> QED
    BY <1>0, <1>1, <1>3, <2>1, <2>2 DEF ThreadInv, CreatesAlone
<1>7. DraftsLocked(t)'
  BY <1>0, <1>1, <1>2, <1>4 DEF ThreadInv, DraftsLocked
<1>8. ContractHeld(t)'
  BY <1>0, <1>1, <1>4 DEF ThreadInv, ContractHeld, DraftsLocked, AtItsRow
<1> QED
  BY <1>5, <1>6, <1>7, <1>8 DEF ThreadInv

(* A step that changes neither rows nor locks nor drafts. *)
LEMMA ThreadStep ==
  ASSUME RowInv, EngineTypeOK', NEW s \in Threads,
         UNCHANGED <<history, draft, rowLock>>,
         \A t \in Threads \ {s} : /\ pc'[t] = pc[t] /\ at'[t] = at[t]
                                  /\ todo'[t] = todo[t],
         AtItsRow(s)', CreatesAlone(s)', pc'[s] \notin {"idle", "pay"},
         \A t \in Threads \ {s} : Creating(t) => at'[s] # at[t]
  PROVE  RowInv'
<1>0. Recorded' = Recorded
  BY DEF Recorded
<1>1. Untouched(Threads \ {s})
  <2>1. \A t \in Threads \ {s} : Creating(t) =>
          /\ history'[at[t]] = <<>>
          /\ \A u \in Threads : at'[u] = at[t] => u = t
    <3> SUFFICES ASSUME NEW t \in Threads \ {s}, Creating(t)
                 PROVE  /\ history'[at[t]] = <<>>
                        /\ \A u \in Threads : at'[u] = at[t] => u = t
      OBVIOUS
    <3>1. CreatesAlone(t) /\ at[t] \in Rows
      BY TermsTyped DEF RowInv, ThreadInv, Creating
    <3> QED
      BY <3>1 DEF CreatesAlone, Recorded
  <2> QED
    BY <2>1 DEF Untouched
<1>2. \A t \in Threads \ {s} : ThreadInv(t)'
  BY <1>1, UntouchedKept
<1>3. ThreadInv(s)'
  <2>1. ThreadInv(s)
    BY DEF RowInv
  <2>2. DraftsLocked(s)'
    BY <1>0, <2>1 DEF ThreadInv, DraftsLocked
  <2>3. ContractHeld(s)'
    BY <2>1 DEF ThreadInv, ContractHeld
  <2> QED
    BY <2>2, <2>3 DEF ThreadInv
<1>4. \A e \in Escrows : EscrowInv(e)'
  BY DEF RowInv, EscrowInv
<1> QED
  BY <1>0, <1>2, <1>3, <1>4 DEF RowInv

(* A step that locks the row its thread is at and writes a status to it. *)
LEMMA WriteStep ==
  ASSUME RowInv, EngineTypeOK', NEW s \in Threads, NEW new \in Statuses,
         at[s] \in Recorded, WriteStatus(s, at[s], new),
         UNCHANGED <<history, at, todo>>,
         \A t \in Threads \ {s} : pc'[t] = pc[t],
         AtItsRow(s)', ~Creating(s)', pc'[s] \notin {"idle", "pay", "execute"},
         at[s] \in Escrows =>
           \/ s \in Handlers /\ pc[s] = "pay" /\ new = "released"
           \/ s \in Checkers /\ new = "expired"
  PROVE  RowInv'
<1> DEFINE r == at[s]
<1>0. /\ Recorded' = Recorded /\ r \in Rows /\ ThreadInv(s)
      /\ RowTypeOK /\ s \notin {NoOne} /\ NoOne \notin Threads
      /\ Payments \subseteq Rows /\ Escrows \subseteq Rows
  BY TermsTyped DEF Recorded, RowInv, EngineTypeOK
<1>1. /\ rowLock[r] \in {NoOne, s} /\ rowLock'[r] = s
      /\ \A q \in Rows \ {r} : rowLock'[q] = rowLock[q]
      /\ draft'[s][r] = Append(draft[s][r], new)
      /\ \A q \in Rows \ {r} : draft'[s][q] = draft[s][q]
      /\ \A t \in Threads \ {s} : draft'[t] = draft[t]
  BY <1>0 DEF WriteStatus, Free, RowTypeOK
<1>2. draft[s][r] \in Seq(Statuses)
  BY <1>0 DEF RowTypeOK
<1>3. Untouched(Threads \ {s})
  <2>1. \A t \in Threads \ {s} : Creating(t) =>
          /\ history'[at[t]] = <<>>
          /\ \A u \in Threads : at'[u] = at[t] => u = t
    <3> SUFFICES ASSUME NEW t \in Threads \ {s}, Creating(t)
                 PROVE  /\ history'[at[t]] = <<>>
                        /\ \A u \in Threads : at'[u] = at[t] => u = t
      OBVIOUS
    <3>1. CreatesAlone(t) /\ at[t] \in Rows
      BY TermsTyped DEF RowInv, ThreadInv, Creating
    <3> QED
      BY <3>1 DEF CreatesAlone, Recorded
  <2>2. \A t \in Threads \ {s}, q \in Rows :
          /\ rowLock[q] = t => rowLock'[q] = t /\ history'[q] = history[q]
          /\ rowLock'[q] = t => rowLock[q] = t
    BY <1>0, <1>1
  <2> QED
    BY <1>1, <2>1, <2>2 DEF Untouched
<1>4. \A t \in Threads \ {s} : ThreadInv(t)'
  BY <1>3, UntouchedKept
<1>5. ThreadInv(s)'
  <2>1. CreatesAlone(s)'
    BY DEF CreatesAlone
  <2>2. DraftsLocked(s)'
    <3>1. \A q \in Rows : /\ draft'[s][q] # <<>> => rowLock'[q] = s
                          /\ rowLock'[q] = s => q \in Recorded
      BY <1>0, <1>1 DEF ThreadInv, DraftsLocked
    <3> QED
      BY <1>0, <3>1 DEF DraftsLocked
  <2>3. ASSUME s \in Handlers, NEW e \in Escrows, draft'[s][e] # <<>>
        PROVE  draft'[s][e] = <<"released">> /\ history[e] = <<"active">>
    <3>1. s \notin Checkers
      BY <2>3, EngineAssumption
    <3>2. CASE e = r
      <4>1. pc[s] = "pay" /\ new = "released"
        BY <3>1, <3>2
      <4>2. draft[s][r] = <<>> /\ history[r] = <<"active">>
        BY <1>0, <4>1 DEF ThreadInv, DraftsLocked, ContractHeld
      <4>3. Append(<<>>, "released") = <<"released">>
        OBVIOUS
      <4> QED
        BY <1>1, <3>2, <4>1, <4>2, <4>3
    <3>3. CASE e # r
      BY <1>0, <1>1, <2>3, <3>3 DEF ThreadInv, ContractHeld
    <3> QED
      BY <3>2, <3>3
  <2>4. ASSUME s \in Checkers, NEW e \in Escrows, NEW i \in DOMAIN draft'[s][e]
        PROVE  draft'[s][e][i] = "expired"
    <3>1. s \notin Handlers
      BY <2>4, EngineAssumption
    <3>2. CASE e = r
      <4>1. new = "expired"
        BY <3>1, <3>2
      <4>2. \A j \in DOMAIN draft[s][r] : draft[s][r][j] = "expired"
        BY <1>0, <2>4, <3>2 DEF ThreadInv, ContractHeld
      <4>3. Listed(draft'[s][e][i], Append(draft[s][r], new))
        BY <1>1, <2>4, <3>2 DEF Listed
      <4>4. Listed(draft'[s][e][i], draft[s][r]) \/ draft'[s][e][i] = new
        BY <1>2, <4>3, ListedAppend
      <4> QED
        BY <4>1, <4>2, <4>4 DEF Listed
    <3>3. CASE e # r
      BY <1>0, <1>1, <2>4, <3>3 DEF ThreadInv, ContractHeld
    <3> QED
      BY <3>2, <3>3
  <2>5. ContractHeld(s)'
    BY <2>3, <2>4 DEF ContractHeld
  <2> QED
    BY <2>1, <2>2, <2>5 DEF ThreadInv
<1>6. \A e \in Escrows : EscrowInv(e)'
  BY DEF RowInv, EscrowInv
<1> QED
  BY <1>0, <1>4, <1>5, <1>6 DEF RowInv

(* The end of a session, as far as the other threads can tell. *)
LEMMA SessionEnds ==
  ASSUME RowInv, EngineTypeOK', NEW s \in Threads, EndSession(s),
         \A t \in Threads \ {s}, r \in Rows :
           rowLock[r] = t => history'[r] = history[r],
         \A r \in Rows : history[r] # <<>> => history'[r] # <<>>,
         \A t \in Threads \ {s} : Creating(t) => history'[at[t]] = <<>>
  PROVE  /\ \A t \in Threads : ThreadInv(t)'
         /\ pc'[s] = "idle" /\ draft'[s] = [r \in Rows |-> <<>>]
         /\ \A t \in Threads \ {s} : /\ pc'[t] = pc[t] /\ at'[t] = at[t]
                                      /\ draft'[t] = draft[t]
<1>0. /\ RowTypeOK /\ ThreadInv(s) /\ NoRow \notin Rows /\ NoOne \notin Threads
      /\ Payments \subseteq Rows /\ Escrows \subseteq Rows
  BY TermsTyped, EngineAssumption DEF RowInv, EngineTypeOK, NoRow
<1>1. /\ pc'[s] = "idle" /\ at'[s] = NoRow /\ todo'[s] = {}
      /\ draft'[s] = [r \in Rows |-> <<>>]
      /\ \A t \in Threads \ {s} : /\ pc'[t] = pc[t] /\ at'[t] = at[t]
                                   /\ draft'[t] = draft[t] /\ todo'[t] = todo[t]
      /\ \A r \in Rows : rowLock'[r] = IF rowLock[r] = s THEN NoOne ELSE rowLock[r]
  BY <1>0 DEF EndSession, RowTypeOK
<1>2. Untouched(Threads \ {s})
  <2>1. \A t \in Threads \ {s} : Creating(t) =>
          \A u \in Threads : at'[u] = at[t] => u = t
    <3> SUFFICES ASSUME NEW t \in Threads \ {s}, Creating(t), NEW u \in Threads,
                        at'[u] = at[t]
                 PROVE  u = t
      OBVIOUS
    <3>1. CreatesAlone(t) /\ at[t] \in Rows
      BY TermsTyped DEF RowInv, ThreadInv, Creating
    <3> QED
      BY <1>0, <1>1, <3>1 DEF CreatesAlone
  <2>2. \A t \in Threads \ {s}, q \in Rows :
          /\ rowLock[q] = t => rowLock'[q] = t /\ history'[q] = history[q]
          /\ rowLock'[q] = t => rowLock[q] = t
    BY <1>0, <1>1
  <2> QED
    BY <1>1, <2>1, <2>2 DEF Untouched
<1>3. \A t \in Threads \ {s} : ThreadInv(t)'
  BY <1>2, UntouchedKept
<1>4. ThreadInv(s)'
  <2>1. \A r \in Rows : draft'[s][r] = <<>>
    BY <1>1
  <2>2. \A r \in Rows : DOMAIN draft'[s][r] = {}
    BY <2>1
  <2>3. AtItsRow(s)' /\ CreatesAlone(s)'
    BY <1>0, <1>1 DEF AtItsRow, CreatesAlone, Creating
  <2>4. DraftsLocked(s)'
    BY <1>0, <1>1, <2>1 DEF DraftsLocked
  <2>5. ContractHeld(s)'
    BY <1>0, <1>1, <2>1, <2>2 DEF ContractHeld
  <2> QED
    BY <2>3, <2>4, <2>5 DEF ThreadInv
<1> QED
  BY <1>1, <1>3, <1>4

LEMMA RollbackStep ==
  ASSUME RowInv, EngineTypeOK', NEW s \in Threads, RollbackSession(s)
  PROVE  RowInv'
<1>0. /\ history' = history /\ Recorded' = Recorded /\ EndSession(s)
      /\ Payments \subseteq Rows
  BY TermsTyped DEF RollbackSession, tableVars, Recorded
<1>1. \A t \in Threads \ {s} : Creating(t) => history'[at[t]] = <<>>
  BY <1>0, TermsTyped DEF RowInv, ThreadInv, CreatesAlone, Creating, Recorded
<1>2. /\ \A t \in Threads : ThreadInv(t)'
      /\ pc'[s] = "idle" /\ draft'[s] = [r \in Rows |-> <<>>]
      /\ \A t \in Threads \ {s} : /\ pc'[t] = pc[t] /\ at'[t] = at[t]
                                   /\ draft'[t] = draft[t]
  BY <1>0, <1>1, SessionEnds
<1>3. \A e \in Escrows : EscrowInv(e)'
  BY <1>0 DEF RowInv, EscrowInv
<1> QED
  BY <1>0, <1>2, <1>3 DEF RowInv

(* Committing what a handler has written resolves a contract that was      *)
(* active and locked; committing a pass of the checker only adds expiries. *)
LEMMA CommitStep ==
  ASSUME RowInv, EngineTypeOK', NEW s \in Threads, CommitSession(s)
  PROVE  RowInv' /\ Recorded' = Recorded
<1>0. /\ \A r \in Rows : history'[r] = history[r] \o draft[s][r]
      /\ EndSession(s) /\ clock' = clock /\ ThreadInv(s) /\ RowTypeOK
      /\ Payments \subseteq Rows /\ Escrows \subseteq Rows
  BY TermsTyped DEF CommitSession, worldVars, RowInv, EngineTypeOK
<1>1. \A r \in Rows : history[r] \in Seq(Statuses) /\ draft[s][r] \in Seq(Statuses)
  BY <1>0 DEF RowTypeOK
<1>2. \A r \in Rows : draft[s][r] # <<>> => rowLock[r] = s /\ history[r] # <<>>
  BY <1>0 DEF ThreadInv, DraftsLocked, Recorded
<1>3. ASSUME NEW r \in Rows
      PROVE  /\ draft[s][r] = <<>> => history'[r] = history[r]
             /\ draft[s][r] # <<>> => Last(history'[r]) = Last(draft[s][r])
             /\ history'[r] = <<>> <=> history[r] = <<>>
  <2> DEFINE a == history[r]  b == draft[s][r]
  <2>1. a \in Seq(Statuses) /\ b \in Seq(Statuses)
    BY <1>1
  <2>2. history'[r] = a \o b /\ (b # <<>> => a # <<>>)
    BY <1>0, <1>2
  <2> HIDE DEF a, b
  <2>3. /\ a \o b = <<>> <=> a = <<>> /\ b = <<>>
        /\ b = <<>> => a \o b = a
        /\ b # <<>> => Last(a \o b) = Last(b)
    BY <2>1, LastOfConcat
  <2>4. /\ b = <<>> => history'[r] = a
        /\ b # <<>> => Last(history'[r]) = Last(b)
        /\ history'[r] = <<>> <=> a = <<>>
    BY <2>2, <2>3
  <2> QED
    BY <2>4 DEF a, b
<1>4. Recorded' = Recorded
  BY <1>3 DEF Recorded
<1>5. \A t \in Threads \ {s} : Creating(t) => history'[at[t]] = <<>>
  BY <1>3, TermsTyped DEF RowInv, ThreadInv, CreatesAlone, Creating, Recorded
<1>6. /\ \A t \in Threads : ThreadInv(t)'
      /\ pc'[s] = "idle" /\ draft'[s] = [r \in Rows |-> <<>>]
      /\ \A t \in Threads \ {s} : /\ pc'[t] = pc[t] /\ at'[t] = at[t]
                                   /\ draft'[t] = draft[t]
  BY <1>0, <1>2, <1>3, <1>5, SessionEnds
<1>7. ASSUME NEW e \in Escrows PROVE EscrowInv(e)'
  <2>0. e \in Rows /\ EscrowInv(e)
    BY <1>0 DEF RowInv
  <2>1. \A x : /\ Count(history'[e], x) = Count(history[e], x) + Count(draft[s][e], x)
               /\ Count(history[e], x) \in Nat /\ Count(draft[s][e], x) \in Nat
    <3> SUFFICES ASSUME NEW x
                 PROVE  /\ Count(history'[e], x)
                             = Count(history[e], x) + Count(draft[s][e], x)
                        /\ Count(history[e], x) \in Nat
                        /\ Count(draft[s][e], x) \in Nat
      OBVIOUS
    <3> DEFINE a == history[e]  b == draft[s][e]
    <3>1. a \in Seq(Statuses) /\ b \in Seq(Statuses) /\ history'[e] = a \o b
      BY <1>0, <1>1, <2>0
    <3> HIDE DEF a, b
    <3>2. /\ Count(a \o b, x) = Count(a, x) + Count(b, x)
          /\ Count(a, x) \in Nat /\ Count(b, x) \in Nat
      BY <3>1, CountConcat, CountType
    <3> QED
      BY <3>1, <3>2 DEF a, b
  <2>2. CASE draft[s][e] = <<>>
    BY <1>3, <2>0, <2>2 DEF EscrowInv
  <2>3. CASE draft[s][e] # <<>> /\ s \in Handlers
    <3>1. draft[s][e] = <<"released">> /\ history[e] = <<"active">>
      BY <1>0, <2>3 DEF ThreadInv, ContractHeld
    <3>2. Last(history'[e]) = "released"
      BY <1>3, <2>0, <2>3, <3>1 DEF Last
    <3>3. /\ Count(history[e], "released") = 0 /\ Count(history[e], "refunded") = 0
          /\ Count(draft[s][e], "released") = 1 /\ Count(draft[s][e], "refunded") = 0
      BY <3>1, CountOne
    <3> QED
      BY <2>1, <3>2, <3>3 DEF EscrowInv
  <2>4. CASE draft[s][e] # <<>> /\ s \in Checkers
    <3>1. \A i \in DOMAIN draft[s][e] : draft[s][e][i] = "expired"
      BY <1>0, <2>4 DEF ThreadInv, ContractHeld
    <3>2. Last(history'[e]) = "expired"
      <4>1. Len(draft[s][e]) \in DOMAIN draft[s][e]
        BY <1>1, <2>0, <2>4, EmptySeq
      <4> QED
        BY <1>3, <2>0, <2>4, <3>1, <4>1 DEF Last
    <3>3. ~Listed("released", draft[s][e]) /\ ~Listed("refunded", draft[s][e])
      BY <3>1 DEF Listed
    <3>4. Count(draft[s][e], "released") = 0 /\ Count(draft[s][e], "refunded") = 0
      BY <3>3, CountedIsListed
    <3> QED
      BY <2>0, <2>1, <3>2, <3>4 DEF EscrowInv
  <2> QED
    BY <2>2, <2>3, <2>4 DEF Threads
<1> QED
  BY <1>4, <1>6, <1>7 DEF RowInv

-----------------------------------------------------------------------------
(* The actions, one by one.                                                *)

LEMMA GotoEffect ==
  ASSUME RowTypeOK, NEW s \in Threads, NEW label \in Labels, Goto(s, label)
  PROVE  /\ pc' \in [Threads -> Labels] /\ pc'[s] = label
         /\ \A t \in Threads \ {s} : pc'[t] = pc[t]
BY DEF RowTypeOK, Goto

(* What RowInv says of a thread. *)
LEMMA ThreadFacts ==
  ASSUME RowInv, NEW s \in Threads
  PROVE  /\ LedgerTypeOK /\ RowTypeOK /\ s \in Sessions
         /\ AtItsRow(s) /\ CreatesAlone(s) /\ DraftsLocked(s) /\ ContractHeld(s)
         /\ Payments \cap Escrows = {} /\ Handlers \cap Checkers = {}
         /\ NoRow \notin Rows
BY TermsTyped, EngineAssumption DEF RowInv, EngineTypeOK, ThreadInv, NoRow

(* The four statements in which a balance is read, in any thread. *)
LEMMA ReadingStep ==
  ASSUME RowInv, LedgerTypeOK', NEW s \in Threads, NEW label \in Labels,
         Goto(s, label),
         <<pc[s], label>> \in {<<"lock", "balance">>, <<"balance", "held">>,
                               <<"held", "released">>, <<"released", "act">>},
         UNCHANGED <<tableVars, writeVars, at, todo, passNow, worldVars>>
  PROVE  RowInv'
<1>0. /\ LedgerTypeOK /\ RowTypeOK /\ s \in Sessions
      /\ AtItsRow(s) /\ CreatesAlone(s) /\ Payments \cap Escrows = {}
      /\ Payments \subseteq Rows
  BY ThreadFacts, TermsTyped
<1>1. /\ pc' \in [Threads -> Labels] /\ pc'[s] = label
      /\ \A t \in Threads \ {s} : pc'[t] = pc[t]
  BY <1>0, GotoEffect
<1>2. /\ UNCHANGED <<reserved, released, history, outbox, freed, draft, rowLock>>
      /\ UNCHANGED <<at, todo, passNow, told, clock, crashes>>
      /\ Recorded' = Recorded
  BY DEF tableVars, writeVars, worldVars, Recorded
<1>3. RowTypeOK'
  BY <1>0, <1>1, <1>2 DEF RowTypeOK
<1>4. pc[s] \in {"lock", "balance", "held", "released"} /\ at[s] \in Rows
  BY <1>0 DEF AtItsRow
<1>5. Creating(s)' => Creating(s)
  BY <1>0, <1>1, <1>2 DEF Creating, AtItsRow
<1>6. AtItsRow(s)' /\ CreatesAlone(s)'
  <2>1. at[s] \in Rows => at[s] \in Recorded \/ Creating(s)'
    BY <1>0, <1>1, <1>2, <1>4 DEF Creating, AtItsRow
  <2>2. CreatesAlone(s)'
    BY <1>0, <1>2, <1>5 DEF CreatesAlone
  <2>3. label \in {"balance", "held", "released", "act"}
    OBVIOUS
  <2>4. label = "balance" => at[s] \in Payments
    BY <1>0 DEF AtItsRow
  <2> QED
    BY <1>0, <1>1, <1>2, <1>4, <2>1, <2>2, <2>3, <2>4 DEF AtItsRow
<1>7. \A t \in Threads \ {s} : Creating(t) => at'[s] # at[t]
  BY <1>2 DEF RowInv, ThreadInv, CreatesAlone
<1> QED
  BY <1>0, <1>1, <1>2, <1>3, <1>6, <1>7, ThreadStep DEF EngineTypeOK

LEMMA LockDebitedPreserves ==
  ASSUME RowInv, NEW s \in Threads, LockDebited(s)
  PROVE  RowInv'
<1>1. /\ LedgerTypeOK /\ s \in Sessions /\ pc[s] = "lock"
      /\ Terms[at[s]].debit \in Keys
  BY ThreadFacts, TermsTyped DEF AtItsRow, LockDebited
<1>2. LedgerTypeOK'
  BY <1>1 DEF LockDebited, AcquireBalanceLock, LedgerTypeOK
<1>3. "balance" \in Labels /\ Goto(s, "balance")
  BY DEF Labels, LockDebited
<1>4. UNCHANGED <<tableVars, writeVars, at, todo, passNow, worldVars>>
  BY DEF LockDebited
<1> QED
  BY <1>1, <1>2, <1>3, <1>4, ReadingStep

LEMMA ReadBalancePreserves ==
  ASSUME RowInv, NEW s \in Threads, ReadBalance(s)
  PROVE  RowInv'
<1>1. /\ LedgerTypeOK /\ s \in Sessions /\ pc[s] = "balance"
      /\ Terms[at[s]].debit \in Keys
  BY ThreadFacts, TermsTyped DEF AtItsRow, ReadBalance
<1>2. LedgerTypeOK'
  <2>1. Balance(s, Terms[at[s]].debit) \in Int
    BY <1>1 DEF LedgerTypeOK, Balance
  <2> QED
    BY <1>1, <2>1 DEF ReadBalance, GetBalance, LedgerTypeOK
<1>3. "held" \in Labels /\ Goto(s, "held")
  BY DEF Labels, ReadBalance
<1>4. UNCHANGED <<tableVars, writeVars, at, todo, passNow, worldVars>>
  BY DEF ReadBalance
<1> QED
  BY <1>1, <1>2, <1>3, <1>4, ReadingStep

LEMMA ReadHeldPreserves ==
  ASSUME RowInv, NEW s \in Threads, ReadHeld(s)
  PROVE  RowInv'
<1>1. /\ LedgerTypeOK /\ RowTypeOK /\ s \in Sessions /\ pc[s] = "held"
      /\ Terms[at[s]].debit \in Keys
  BY ThreadFacts, TermsTyped DEF AtItsRow, ReadHeld
<1>2. LedgerTypeOK'
  <2>1. seen[s].balance - reserved[Terms[at[s]].debit] \in Int
    BY <1>1 DEF LedgerTypeOK, RowTypeOK
  <2> QED
    BY <1>1, <2>1 DEF ReadHeld, LedgerTypeOK
<1>3. "released" \in Labels /\ Goto(s, "released")
  BY DEF Labels, ReadHeld
<1>4. UNCHANGED <<tableVars, writeVars, at, todo, passNow, worldVars>>
  BY DEF ReadHeld
<1> QED
  BY <1>1, <1>2, <1>3, <1>4, ReadingStep

LEMMA ReadReleasedPreserves ==
  ASSUME RowInv, NEW s \in Threads, ReadReleased(s)
  PROVE  RowInv'
<1>1. /\ LedgerTypeOK /\ RowTypeOK /\ s \in Sessions /\ pc[s] = "released"
      /\ Terms[at[s]].debit \in Keys
  BY ThreadFacts, TermsTyped DEF AtItsRow, ReadReleased
<1>2. LedgerTypeOK'
  <2> DEFINE k == Terms[at[s]].debit
  <2>1. released[k] \in Nat /\ freed[s][k] \in Nat /\ seen[s].balance \in Int
    BY <1>1 DEF LedgerTypeOK, RowTypeOK
  <2>2. seen[s].balance + released[k] + freed[s][k] \in Int
    BY <2>1
  <2> QED
    BY <1>1, <2>2 DEF ReadReleased, LedgerTypeOK
<1>3. "act" \in Labels /\ Goto(s, "act")
  BY DEF Labels, ReadReleased
<1>4. UNCHANGED <<tableVars, writeVars, at, todo, passNow, worldVars>>
  BY DEF ReadReleased
<1> QED
  BY <1>1, <1>2, <1>3, <1>4, ReadingStep

LEMMA RollbackPreserves ==
  ASSUME RowInv, NEW s \in Threads, RollbackSession(s), UNCHANGED <<told, clock>>,
         crashes' \in 0..MaxCrashes
  PROVE  RowInv'
<1>1. EngineTypeOK'
  BY RollbackSessionTypes DEF RowInv
<1> QED
  BY <1>1, RollbackStep

(* Refuse, RejectedByCheck, DeadlockVictim and Crash. *)
LEMMA AbortPreserves ==
  ASSUME RowInv, NEW s \in Threads,
         Refuse(s) \/ RejectedByCheck(s) \/ DeadlockVictim(s) \/ Crash(s)
  PROVE  RowInv'
<1>1. RollbackSession(s) /\ UNCHANGED <<told, clock>>
  BY DEF Refuse, RejectedByCheck, DeadlockVictim, Crash, worldVars
<1>2. crashes' \in 0..MaxCrashes
  <2>1. crashes \in 0..MaxCrashes /\ MaxCrashes \in Nat
    BY EngineAssumption DEF RowInv, EngineTypeOK, RowTypeOK
  <2>2. crashes' = crashes \/ (crashes < MaxCrashes /\ crashes' = crashes + 1)
    BY DEF Refuse, RejectedByCheck, DeadlockVictim, Crash, worldVars
  <2> QED
    BY <2>1, <2>2
<1> QED
  BY <1>1, <1>2, RollbackPreserves

(* CommitRequest and CommitPass. *)
LEMMA CommitPreserves ==
  ASSUME RowInv, NEW s \in Threads, CommitSession(s)
  PROVE  RowInv'
<1>1. EngineTypeOK'
  BY CommitSessionTypes DEF RowInv
<1> QED
  BY <1>1, CommitStep

LEMMA BeginExecutionPreserves ==
  ASSUME RowInv, NEW s \in Threads, BeginExecution(s)
  PROVE  RowInv'
<1>0. /\ LedgerTypeOK /\ RowTypeOK /\ s \in Sessions /\ at[s] \in Payments
      /\ at[s] \in Rows /\ Payments \cap Escrows = {} /\ Handlers \cap Checkers = {}
      /\ AtItsRow(s) /\ CreatesAlone(s)
      /\ Terms[at[s]].debit \in Keys /\ Terms[at[s]].credit \in Keys
      /\ Terms[at[s]].amount \in Nat /\ Terms[at[s]].amount \in Int
  BY ThreadFacts, TermsTyped DEF AtItsRow, BeginExecution
<1>1. at[s] \in Recorded
  BY <1>0 DEF AtItsRow, Creating, BeginExecution
<1> DEFINE label == "lock"
<1>2. label \in Labels /\ "processing" \in Statuses
  BY DEF Labels, Statuses
<1>3. /\ pc' \in [Threads -> Labels] /\ pc'[s] = label
      /\ \A t \in Threads \ {s} : pc'[t] = pc[t]
  BY <1>0, <1>2, GotoEffect DEF BeginExecution
<1>4. /\ UNCHANGED <<reserved, released, history, outbox>>
      /\ UNCHANGED <<at, todo, passNow, told, clock, crashes>>
      /\ Recorded' = Recorded
      /\ WriteStatus(s, at[s], "processing")
  BY DEF BeginExecution, tableVars, worldVars, Recorded
<1>5. /\ rowLock' \in [Rows -> Threads \cup {NoOne}]
      /\ draft' \in [Threads -> [Rows -> Seq(Statuses)]]
  BY <1>0, <1>2, <1>4, WriteStatusTypes
<1>6. LedgerTypeOK'
  BY <1>0 DEF BeginExecution, LedgerTypeOK, ledgerVars
<1>7. freed' \in [Threads -> [Keys -> Nat]]
  BY <1>0 DEF BeginExecution, RowTypeOK
<1>8. EngineTypeOK'
  BY <1>0, <1>3, <1>4, <1>5, <1>6, <1>7 DEF EngineTypeOK, RowTypeOK
<1>9. AtItsRow(s)' /\ ~Creating(s)'
  BY <1>0, <1>1, <1>3, <1>4 DEF AtItsRow, Creating
<1>10. /\ at[s] \in Escrows =>
            \/ s \in Handlers /\ pc[s] = "pay" /\ "processing" = "released"
            \/ s \in Checkers /\ "processing" = "expired"
       /\ pc'[s] \notin {"idle", "pay", "execute"}
  BY <1>0, <1>3 DEF BeginExecution, AtItsRow
<1> HIDE DEF label
<1> QED
  BY <1>1, <1>2, <1>3, <1>4, <1>8, <1>9, <1>10, WriteStep

LEMMA FailExpiredPreserves ==
  ASSUME RowInv, NEW s \in Threads, FailExpired(s)
  PROVE  RowInv'
<1>0. /\ LedgerTypeOK /\ RowTypeOK /\ s \in Sessions /\ at[s] \in Payments
      /\ at[s] \in Rows /\ Payments \cap Escrows = {} /\ Handlers \cap Checkers = {}
      /\ AtItsRow(s) /\ CreatesAlone(s)
      /\ Terms[at[s]].debit \in Keys /\ Terms[at[s]].credit \in Keys
      /\ Terms[at[s]].amount \in Nat /\ Terms[at[s]].amount \in Int
  BY ThreadFacts, TermsTyped DEF AtItsRow, FailExpired
<1>1. at[s] \in Recorded
  BY <1>0 DEF AtItsRow, Creating, FailExpired
<1> DEFINE label == "payments"
<1>2. label \in Labels /\ "failed" \in Statuses
  BY DEF Labels, Statuses
<1>3. /\ pc' \in [Threads -> Labels] /\ pc'[s] = label
      /\ \A t \in Threads \ {s} : pc'[t] = pc[t]
  BY <1>0, <1>2, GotoEffect DEF FailExpired
<1>4. /\ UNCHANGED <<reserved, released, history, outbox>>
      /\ UNCHANGED <<at, todo, passNow, told, clock, crashes>>
      /\ Recorded' = Recorded
      /\ WriteStatus(s, at[s], "failed")
  BY DEF FailExpired, tableVars, worldVars, Recorded
<1>5. /\ rowLock' \in [Rows -> Threads \cup {NoOne}]
      /\ draft' \in [Threads -> [Rows -> Seq(Statuses)]]
  BY <1>0, <1>2, <1>4, WriteStatusTypes
<1>6. LedgerTypeOK'
  BY <1>0 DEF FailExpired, LedgerTypeOK, ledgerVars
<1>7. freed' \in [Threads -> [Keys -> Nat]]
  BY <1>0 DEF FailExpired, RowTypeOK
<1>8. EngineTypeOK'
  BY <1>0, <1>3, <1>4, <1>5, <1>6, <1>7 DEF EngineTypeOK, RowTypeOK
<1>9. AtItsRow(s)' /\ ~Creating(s)'
  BY <1>0, <1>1, <1>3, <1>4 DEF AtItsRow, Creating
<1>10. /\ at[s] \in Escrows =>
            \/ s \in Handlers /\ pc[s] = "pay" /\ "failed" = "released"
            \/ s \in Checkers /\ "failed" = "expired"
       /\ pc'[s] \notin {"idle", "pay", "execute"}
  BY <1>0, <1>3 DEF FailExpired, AtItsRow
<1> HIDE DEF label
<1> QED
  BY <1>1, <1>2, <1>3, <1>4, <1>8, <1>9, <1>10, WriteStep

LEMMA CompletePaymentPreserves ==
  ASSUME RowInv, NEW s \in Threads, CompletePayment(s)
  PROVE  RowInv'
<1>0. /\ LedgerTypeOK /\ RowTypeOK /\ s \in Sessions /\ at[s] \in Payments
      /\ at[s] \in Rows /\ Payments \cap Escrows = {} /\ Handlers \cap Checkers = {}
      /\ AtItsRow(s) /\ CreatesAlone(s)
      /\ Terms[at[s]].debit \in Keys /\ Terms[at[s]].credit \in Keys
      /\ Terms[at[s]].amount \in Nat /\ Terms[at[s]].amount \in Int
  BY ThreadFacts, TermsTyped DEF AtItsRow, CompletePayment
<1>1. at[s] \in Recorded
  BY <1>0 DEF AtItsRow, Creating, CompletePayment
<1> DEFINE label == IF s \in Checkers THEN "payments" ELSE "commit"
<1>2. label \in Labels /\ "completed" \in Statuses
  BY DEF Labels, Statuses
<1>3. /\ pc' \in [Threads -> Labels] /\ pc'[s] = label
      /\ \A t \in Threads \ {s} : pc'[t] = pc[t]
  BY <1>0, <1>2, GotoEffect DEF CompletePayment
<1>4. /\ UNCHANGED <<reserved, released, history, outbox>>
      /\ UNCHANGED <<at, todo, passNow, told, clock, crashes>>
      /\ Recorded' = Recorded
      /\ WriteStatus(s, at[s], "completed")
  BY DEF CompletePayment, tableVars, worldVars, Recorded
<1>5. /\ rowLock' \in [Rows -> Threads \cup {NoOne}]
      /\ draft' \in [Threads -> [Rows -> Seq(Statuses)]]
  BY <1>0, <1>2, <1>4, WriteStatusTypes
<1>6. LedgerTypeOK'
  <2>1. delta' = PairEntries(s, Terms[at[s]].debit, Terms[at[s]].credit,
                             Terms[at[s]].amount)
    BY DEF CompletePayment, RecordJournalPair
  <2>2. delta' \in [Sessions -> [Keys -> Int]]
    BY <1>0, <2>1, PairTypes
  <2>3. ledger' \in [Keys -> Int] /\ holder' \in [Keys -> Sessions \cup {NoOne}]
    BY <1>0 DEF CompletePayment, RecordJournalPair, LedgerTypeOK, NoRead
  <2>4. seen' \in [Sessions -> [key : Keys \cup {NoKey}, balance : Int]]
    BY <1>0 DEF CompletePayment, RecordJournalPair, LedgerTypeOK, NoRead
  <2> QED
    BY <2>2, <2>3, <2>4 DEF LedgerTypeOK
<1>7. freed' \in [Threads -> [Keys -> Nat]]
  BY <1>0 DEF CompletePayment, RowTypeOK
<1>8. EngineTypeOK'
  BY <1>0, <1>3, <1>4, <1>5, <1>6, <1>7 DEF EngineTypeOK, RowTypeOK
<1>9. AtItsRow(s)' /\ ~Creating(s)'
  BY <1>0, <1>1, <1>3, <1>4 DEF AtItsRow, Creating
<1>10. /\ at[s] \in Escrows =>
            \/ s \in Handlers /\ pc[s] = "pay" /\ "completed" = "released"
            \/ s \in Checkers /\ "completed" = "expired"
       /\ pc'[s] \notin {"idle", "pay", "execute"}
  BY <1>0, <1>3 DEF CompletePayment, AtItsRow
<1> HIDE DEF label
<1> QED
  BY <1>1, <1>2, <1>3, <1>4, <1>8, <1>9, <1>10, WriteStep

LEMMA PayBeneficiaryPreserves ==
  ASSUME RowInv, NEW s \in Threads, PayBeneficiary(s)
  PROVE  RowInv'
<1>0. /\ LedgerTypeOK /\ RowTypeOK /\ s \in Sessions /\ at[s] \in Escrows
      /\ at[s] \in Rows /\ Payments \cap Escrows = {} /\ Handlers \cap Checkers = {}
      /\ AtItsRow(s) /\ CreatesAlone(s)
      /\ Terms[at[s]].debit \in Keys /\ Terms[at[s]].credit \in Keys
      /\ Terms[at[s]].amount \in Nat /\ Terms[at[s]].amount \in Int
  BY ThreadFacts, TermsTyped DEF AtItsRow, PayBeneficiary
<1>1. at[s] \in Recorded
  BY <1>0 DEF AtItsRow, Creating, PayBeneficiary
<1> DEFINE label == "commit"
<1>2. label \in Labels /\ "released" \in Statuses
  BY DEF Labels, Statuses
<1>3. /\ pc' \in [Threads -> Labels] /\ pc'[s] = label
      /\ \A t \in Threads \ {s} : pc'[t] = pc[t]
  BY <1>0, <1>2, GotoEffect DEF PayBeneficiary
<1>4. /\ UNCHANGED <<reserved, released, history, outbox>>
      /\ UNCHANGED <<at, todo, passNow, told, clock, crashes>>
      /\ Recorded' = Recorded
      /\ WriteStatus(s, at[s], "released")
  BY DEF PayBeneficiary, tableVars, worldVars, Recorded
<1>5. /\ rowLock' \in [Rows -> Threads \cup {NoOne}]
      /\ draft' \in [Threads -> [Rows -> Seq(Statuses)]]
  BY <1>0, <1>2, <1>4, WriteStatusTypes
<1>6. LedgerTypeOK'
  <2>1. delta' = PairEntries(s, Terms[at[s]].debit, Terms[at[s]].credit,
                             Terms[at[s]].amount)
    BY DEF PayBeneficiary
  <2>2. delta' \in [Sessions -> [Keys -> Int]]
    BY <1>0, <2>1, PairTypes
  <2>3. ledger' \in [Keys -> Int] /\ holder' \in [Keys -> Sessions \cup {NoOne}]
    BY <1>0 DEF PayBeneficiary, LedgerTypeOK
  <2>4. seen' \in [Sessions -> [key : Keys \cup {NoKey}, balance : Int]]
    BY <1>0 DEF PayBeneficiary, LedgerTypeOK
  <2> QED
    BY <2>2, <2>3, <2>4 DEF LedgerTypeOK
<1>7. freed' \in [Threads -> [Keys -> Nat]]
  <2>0. freed[s] \in [Keys -> Nat]
    BY <1>0 DEF RowTypeOK
  <2>1. freed[s][Terms[at[s]].debit] + Terms[at[s]].amount \in Nat
    <3>1. freed[s][Terms[at[s]].debit] \in Nat
      BY <1>0, <2>0
    <3>2. Terms[at[s]].amount \in Nat
      BY <1>0
    <3> QED
      BY <3>1, <3>2
  <2> QED
    BY <1>0, <2>1 DEF PayBeneficiary, RowTypeOK
<1>8. EngineTypeOK'
  BY <1>0, <1>3, <1>4, <1>5, <1>6, <1>7 DEF EngineTypeOK, RowTypeOK
<1>9. AtItsRow(s)' /\ ~Creating(s)'
  BY <1>0, <1>1, <1>3, <1>4 DEF AtItsRow, Creating
<1>10. /\ at[s] \in Escrows =>
            \/ s \in Handlers /\ pc[s] = "pay" /\ "released" = "released"
            \/ s \in Checkers /\ "released" = "expired"
       /\ pc'[s] \notin {"idle", "pay", "execute"}
  BY <1>0, <1>3 DEF PayBeneficiary, AtItsRow
<1> HIDE DEF label
<1> QED
  BY <1>1, <1>2, <1>3, <1>4, <1>8, <1>9, <1>10, WriteStep

LEMMA ExpireEscrowPreserves ==
  ASSUME RowInv, NEW s \in Threads, ExpireEscrow(s)
  PROVE  RowInv'
<1>0. /\ LedgerTypeOK /\ RowTypeOK /\ s \in Sessions /\ at[s] \in Escrows
      /\ at[s] \in Rows /\ Payments \cap Escrows = {} /\ Handlers \cap Checkers = {}
      /\ AtItsRow(s) /\ CreatesAlone(s)
      /\ Terms[at[s]].debit \in Keys /\ Terms[at[s]].credit \in Keys
      /\ Terms[at[s]].amount \in Nat /\ Terms[at[s]].amount \in Int
  BY ThreadFacts, TermsTyped DEF AtItsRow, ExpireEscrow
<1>1. at[s] \in Recorded
  BY <1>0 DEF AtItsRow, Creating, ExpireEscrow
<1> DEFINE label == "escrows"
<1>2. label \in Labels /\ "expired" \in Statuses
  BY DEF Labels, Statuses
<1>3. /\ pc' \in [Threads -> Labels] /\ pc'[s] = label
      /\ \A t \in Threads \ {s} : pc'[t] = pc[t]
  BY <1>0, <1>2, GotoEffect DEF ExpireEscrow
<1>4. /\ UNCHANGED <<reserved, released, history, outbox>>
      /\ UNCHANGED <<at, todo, passNow, told, clock, crashes>>
      /\ Recorded' = Recorded
      /\ WriteStatus(s, at[s], "expired")
  BY DEF ExpireEscrow, tableVars, worldVars, Recorded
<1>5. /\ rowLock' \in [Rows -> Threads \cup {NoOne}]
      /\ draft' \in [Threads -> [Rows -> Seq(Statuses)]]
  BY <1>0, <1>2, <1>4, WriteStatusTypes
<1>6. LedgerTypeOK'
  BY <1>0 DEF ExpireEscrow, LedgerTypeOK, ledgerVars
<1>7. freed' \in [Threads -> [Keys -> Nat]]
  <2>0. freed[s] \in [Keys -> Nat]
    BY <1>0 DEF RowTypeOK
  <2>1. freed[s][Terms[at[s]].debit] + Terms[at[s]].amount \in Nat
    <3>1. freed[s][Terms[at[s]].debit] \in Nat
      BY <1>0, <2>0
    <3>2. Terms[at[s]].amount \in Nat
      BY <1>0
    <3> QED
      BY <3>1, <3>2
  <2> QED
    BY <1>0, <2>1 DEF ExpireEscrow, RowTypeOK
<1>8. EngineTypeOK'
  BY <1>0, <1>3, <1>4, <1>5, <1>6, <1>7 DEF EngineTypeOK, RowTypeOK
<1>9. AtItsRow(s)' /\ ~Creating(s)'
  BY <1>0, <1>1, <1>3, <1>4 DEF AtItsRow, Creating
<1>10. /\ at[s] \in Escrows =>
            \/ s \in Handlers /\ pc[s] = "pay" /\ "expired" = "released"
            \/ s \in Checkers /\ "expired" = "expired"
       /\ pc'[s] \notin {"idle", "pay", "execute"}
  BY <1>0, <1>3 DEF ExpireEscrow, AtItsRow
<1> HIDE DEF label
<1> QED
  BY <1>1, <1>2, <1>3, <1>4, <1>8, <1>9, <1>10, WriteStep

(* A thread that goes to a row on record, to its next query or to nothing. *)
LEMMA TravelStep ==
  ASSUME RowInv, NEW s \in Threads, NEW label \in Labels, Goto(s, label),
         UNCHANGED <<ledgerVars, tableVars, writeVars, worldVars>>,
         at' \in [Threads -> Rows \cup {NoRow}],
         todo' \in [Threads -> SUBSET Rows],
         passNow' \in [Threads -> 0..MaxClock],
         \A t \in Threads \ {s} : at'[t] = at[t] /\ todo'[t] = todo[t],
         at'[s] \in Recorded \cup {NoRow} \/ (at'[s] = at[s] /\ ~Creating(s)),
         todo'[s] \subseteq Recorded,
         label \in {"execute", "fail"} => at'[s] \in Payments,
         label = "expire" => at'[s] \in Escrows /\ s \in Checkers,
         label \in {"execute", "fail", "expire", "payments", "escrows"}
  PROVE  RowInv'
<1>0. /\ LedgerTypeOK /\ RowTypeOK /\ AtItsRow(s) /\ NoRow \notin Rows
      /\ Payments \subseteq Rows /\ Escrows \subseteq Rows
  BY ThreadFacts, TermsTyped
<1>1. /\ pc' \in [Threads -> Labels] /\ pc'[s] = label
      /\ \A t \in Threads \ {s} : pc'[t] = pc[t]
  BY <1>0, GotoEffect
<1>2. /\ UNCHANGED <<ledger, delta, holder, seen, reserved, released, history, outbox>>
      /\ UNCHANGED <<freed, draft, rowLock, told, clock, crashes>>
      /\ Recorded' = Recorded
  BY DEF ledgerVars, tableVars, writeVars, worldVars, Recorded
<1>3. EngineTypeOK'
  BY <1>0, <1>1, <1>2 DEF EngineTypeOK, LedgerTypeOK, RowTypeOK
<1>4. at'[s] \in Rows => at'[s] \in Recorded
  BY <1>0 DEF AtItsRow
<1>5. AtItsRow(s)' /\ CreatesAlone(s)'
  BY <1>1, <1>2, <1>4 DEF AtItsRow, CreatesAlone, Creating
<1>6. \A t \in Threads \ {s} : Creating(t) => at'[s] # at[t]
  BY <1>0, <1>4 DEF RowInv, ThreadInv, CreatesAlone, Creating
<1> QED
  BY <1>1, <1>2, <1>3, <1>5, <1>6, ThreadStep

LEMMA TriggerPreserves ==
  ASSUME RowInv, NEW s \in Threads, NEW p \in Payments, NEW data \in Evidence,
         Trigger(s, p, data)
  PROVE  RowInv'
<1>0. /\ RowTypeOK /\ AtItsRow(s) /\ p \in Rows
  BY ThreadFacts, TermsTyped
<1>1. /\ at' = [at EXCEPT ![s] = p] /\ UNCHANGED <<todo, passNow>>
      /\ Goto(s, "execute") /\ "execute" \in Labels
      /\ UNCHANGED <<ledgerVars, tableVars, writeVars, worldVars>>
  BY DEF Trigger, Labels
<1>2. p \in Recorded
  BY <1>0 DEF Trigger, Status, Recorded
<1>3. /\ at' \in [Threads -> Rows \cup {NoRow}] /\ at'[s] = p
      /\ \A t \in Threads \ {s} : at'[t] = at[t] /\ todo'[t] = todo[t]
      /\ todo'[s] \subseteq Recorded
      /\ todo' \in [Threads -> SUBSET Rows]
      /\ passNow' \in [Threads -> 0..MaxClock]
  BY <1>0, <1>1 DEF RowTypeOK, AtItsRow
<1> QED
  BY <1>1, <1>2, <1>3, TravelStep

LEMMA BeginPassPreserves ==
  ASSUME RowInv, NEW s \in Checkers, BeginPass(s)
  PROVE  RowInv'
<1>0. s \in Threads /\ Payments \subseteq Rows
  BY TermsTyped
<1>1. RowTypeOK /\ AtItsRow(s) /\ pc[s] = "idle"
  BY <1>0, ThreadFacts DEF BeginPass
<1>2. /\ at' = at /\ passNow' = [passNow EXCEPT ![s] = clock]
      /\ Goto(s, "payments") /\ "payments" \in Labels
      /\ UNCHANGED <<ledgerVars, tableVars, writeVars, worldVars>>
      /\ todo' = [todo EXCEPT ![s] =
                    {p \in Payments : Status(p) = "pending" /\ AutoTyped(p)}]
  BY DEF BeginPass, Labels
<1>3. {p \in Payments : Status(p) = "pending" /\ AutoTyped(p)}
        \subseteq Recorded \cap Rows
  BY <1>0 DEF Status, Recorded
<1>4. /\ at' \in [Threads -> Rows \cup {NoRow}] /\ at'[s] = at[s] /\ ~Creating(s)
      /\ todo' \in [Threads -> SUBSET Rows]
      /\ todo'[s] \subseteq Recorded
      /\ passNow' \in [Threads -> 0..MaxClock]
      /\ \A t \in Threads \ {s} : at'[t] = at[t] /\ todo'[t] = todo[t]
  BY <1>0, <1>1, <1>2, <1>3 DEF RowTypeOK, Creating
<1> QED
  BY <1>0, <1>2, <1>4, TravelStep

LEMMA TakePaymentPreserves ==
  ASSUME RowInv, NEW s \in Checkers, NEW p \in Payments, TakePayment(s, p)
  PROVE  RowInv'
<1>0. s \in Threads /\ p \in Rows
  BY TermsTyped
<1>1. RowTypeOK /\ AtItsRow(s) /\ p \in todo[s] /\ p \in Recorded
  BY <1>0, ThreadFacts DEF TakePayment, AtItsRow
<1> DEFINE due == EvaluateCondition(Terms[p].condition, CheckerEvidence(p))
           label == IF Expired(p, passNow[s]) THEN "fail"
                    ELSE IF due THEN "execute" ELSE "payments"
<1>2. /\ at' = [at EXCEPT ![s] = p] /\ UNCHANGED passNow
      /\ Goto(s, label)
      /\ UNCHANGED <<ledgerVars, tableVars, writeVars, worldVars>>
      /\ todo' = [todo EXCEPT ![s] = @ \ {p}]
  BY DEF TakePayment
<1>3. label \in {"fail", "execute", "payments"} /\ label \in Labels
  BY DEF Labels
<1> HIDE DEF label, due
<1>4. /\ at' \in [Threads -> Rows \cup {NoRow}] /\ at'[s] = p
      /\ todo' \in [Threads -> SUBSET Rows]
      /\ todo'[s] \subseteq Recorded
      /\ passNow' \in [Threads -> 0..MaxClock]
      /\ \A t \in Threads \ {s} : at'[t] = at[t] /\ todo'[t] = todo[t]
  BY <1>0, <1>1, <1>2 DEF RowTypeOK, AtItsRow
<1> QED
  BY <1>0, <1>1, <1>2, <1>3, <1>4, TravelStep

LEMMA SelectExpiredEscrowsPreserves ==
  ASSUME RowInv, NEW s \in Checkers, SelectExpiredEscrows(s)
  PROVE  RowInv'
<1>0. s \in Threads /\ Escrows \subseteq Rows
  BY TermsTyped
<1>1. RowTypeOK /\ AtItsRow(s) /\ pc[s] = "payments"
  BY <1>0, ThreadFacts DEF SelectExpiredEscrows
<1> DEFINE late ==
             {e \in Escrows : Status(e) = "active" /\ Terms[e].expires <= passNow[s]}
<1>2. /\ at' = at /\ UNCHANGED passNow
      /\ Goto(s, "escrows") /\ "escrows" \in Labels
      /\ UNCHANGED <<ledgerVars, tableVars, writeVars, worldVars>>
      /\ todo' = [todo EXCEPT ![s] = late]
  BY DEF SelectExpiredEscrows, Labels
<1>3. late \subseteq Recorded \cap Rows
  BY <1>0 DEF Status, Recorded
<1> HIDE DEF late
<1>4. /\ at' \in [Threads -> Rows \cup {NoRow}] /\ at'[s] = at[s] /\ ~Creating(s)
      /\ todo' \in [Threads -> SUBSET Rows]
      /\ todo'[s] \subseteq Recorded
      /\ passNow' \in [Threads -> 0..MaxClock]
      /\ \A t \in Threads \ {s} : at'[t] = at[t] /\ todo'[t] = todo[t]
  BY <1>0, <1>1, <1>2, <1>3 DEF RowTypeOK, Creating
<1> QED
  BY <1>0, <1>2, <1>4, TravelStep

LEMMA TakeEscrowPreserves ==
  ASSUME RowInv, NEW s \in Checkers, NEW e \in Escrows, TakeEscrow(s, e)
  PROVE  RowInv'
<1>0. s \in Threads /\ e \in Rows
  BY TermsTyped
<1>1. RowTypeOK /\ AtItsRow(s) /\ e \in todo[s] /\ e \in Recorded
  BY <1>0, ThreadFacts DEF TakeEscrow, AtItsRow
<1>2. /\ at' = [at EXCEPT ![s] = e] /\ UNCHANGED passNow
      /\ Goto(s, "expire") /\ "expire" \in Labels
      /\ UNCHANGED <<ledgerVars, tableVars, writeVars, worldVars>>
      /\ todo' = [todo EXCEPT ![s] = @ \ {e}]
  BY DEF TakeEscrow, Labels
<1>3. /\ at' \in [Threads -> Rows \cup {NoRow}] /\ at'[s] = e
      /\ todo' \in [Threads -> SUBSET Rows]
      /\ todo'[s] \subseteq Recorded
      /\ passNow' \in [Threads -> 0..MaxClock]
      /\ \A t \in Threads \ {s} : at'[t] = at[t] /\ todo'[t] = todo[t]
  BY <1>0, <1>1, <1>2 DEF RowTypeOK, AtItsRow
<1> QED
  BY <1>0, <1>1, <1>2, <1>3, TravelStep

(* A row without a status is not on record. *)
LEMMA NoStatusNoRow ==
  ASSUME RowTypeOK, NEW r \in Rows, Status(r) = "none"
  PROVE  r \notin Recorded
<1>1. history[r] \in Seq(Statuses)
  BY DEF RowTypeOK
<1>2. history[r] # <<>> => Len(history[r]) \in DOMAIN history[r]
  BY <1>1, EmptySeq
<1>3. history[r] # <<>> => Last(history[r]) \in Statuses
  BY <1>1, <1>2 DEF Last
<1> QED
  BY <1>3 DEF Status, Recorded, Statuses

(* create_escrow begins: the contract is new, and nobody else creates it. *)
LEMMA BeginReservePreserves ==
  ASSUME RowInv, NEW s \in Handlers, NEW e \in Escrows, BeginReserve(s, e)
  PROVE  RowInv'
<1>0. s \in Threads /\ e \in Rows /\ Terms[e].debit \in Keys
  BY TermsTyped
<1>1. /\ LedgerTypeOK /\ RowTypeOK /\ s \in Sessions /\ pc[s] = "idle"
      /\ AtItsRow(s) /\ DraftsLocked(s) /\ NoRow \notin Rows
      /\ Payments \cap Escrows = {}
  BY <1>0, ThreadFacts DEF BeginReserve
<1>2. /\ UNCHANGED <<ledger, delta, holder, reserved, released, history, outbox>>
      /\ UNCHANGED <<freed, draft, rowLock, todo, passNow, told, clock, crashes>>
      /\ at' = [at EXCEPT ![s] = e] /\ Goto(s, "held") /\ "held" \in Labels
      /\ seen' = [seen EXCEPT ![s] = [key |-> Terms[e].debit,
                                      balance |-> Balance(s, Terms[e].debit)]]
      /\ Recorded' = Recorded
  BY DEF BeginReserve, Labels, tableVars, writeVars, worldVars, Recorded
<1>3. e \notin Recorded
  BY <1>0, <1>1, NoStatusNoRow DEF BeginReserve
<1>4. \A t \in Threads : at[t] # e
  <2> SUFFICES ASSUME NEW t \in Threads, at[t] = e PROVE FALSE
    OBVIOUS
  <2>1. t \notin Handlers
    BY DEF BeginReserve
  <2>2. AtItsRow(t) /\ CreatesAlone(t)
    BY DEF RowInv, ThreadInv
  <2>3. Creating(t)
    BY <1>0, <1>3, <2>2 DEF AtItsRow
  <2> QED
    BY <2>1, <2>2, <2>3 DEF CreatesAlone
<1>5. /\ pc' \in [Threads -> Labels] /\ pc'[s] = "held"
      /\ \A t \in Threads \ {s} : pc'[t] = pc[t]
  BY <1>0, <1>1, <1>2, GotoEffect
<1>6. LedgerTypeOK'
  <2>1. Balance(s, Terms[e].debit) \in Int
    BY <1>0, <1>1 DEF LedgerTypeOK, Balance
  <2> QED
    BY <1>0, <1>1, <1>2, <2>1 DEF LedgerTypeOK
<1>7. /\ at' \in [Threads -> Rows \cup {NoRow}] /\ at'[s] = e
      /\ \A t \in Threads \ {s} : at'[t] = at[t] /\ todo'[t] = todo[t]
  BY <1>0, <1>1, <1>2 DEF RowTypeOK
<1>8. EngineTypeOK'
  BY <1>1, <1>2, <1>5, <1>6, <1>7 DEF EngineTypeOK, RowTypeOK
<1>9. AtItsRow(s)'
  BY <1>0, <1>1, <1>2, <1>5, <1>7 DEF AtItsRow, Creating
<1>10. CreatesAlone(s)'
  BY <1>0, <1>1, <1>2, <1>3, <1>4, <1>5, <1>7 DEF CreatesAlone, DraftsLocked
<1> QED
  BY <1>0, <1>2, <1>4, <1>5, <1>7, <1>8, <1>9, <1>10, ThreadStep

LEMMA CreateEscrowPreserves ==
  ASSUME RowInv, NEW s \in Handlers, CreateEscrow(s)
  PROVE  RowInv' /\ Recorded' = Recorded \cup {at[s]} /\ at[s] \notin Recorded
<1> DEFINE e == at[s]
<1>0. s \in Threads /\ e \in Escrows /\ e \in Rows /\ pc[s] = "act"
  BY TermsTyped DEF CreateEscrow
<1>1. /\ LedgerTypeOK /\ RowTypeOK /\ s \in Sessions
      /\ CreatesAlone(s) /\ Creating(s) /\ Payments \cap Escrows = {}
      /\ Terms[e].debit \in Keys /\ Terms[e].amount \in Nat
      /\ Payments \subseteq Rows /\ Escrows \subseteq Rows
  BY <1>0, ThreadFacts, TermsTyped DEF Creating
<1>2. /\ history[e] = <<>> /\ e \notin Recorded
      /\ \A t \in Threads : at[t] = e => t = s
      /\ \A r \in Rows : draft[s][r] = <<>>
  BY <1>0, <1>1 DEF CreatesAlone, Recorded
<1>3. /\ history' = [history EXCEPT ![e] = <<"active">>]
      /\ reserved' = [reserved EXCEPT ![Terms[e].debit] = @ + Terms[e].amount]
      /\ Commit(s) /\ EndSession(s) /\ UNCHANGED <<released, told, clock, crashes>>
  BY DEF CreateEscrow, worldVars
<1>4. <<"active">> \in Seq(Statuses)
  BY DEF Statuses
<1>5. EngineTypeOK'
  <2>1. LedgerTypeOK'
    BY <1>1, <1>3, CommitTypes
  <2>2. history' \in [Rows -> Seq(Statuses)]
    BY <1>1, <1>3, <1>4 DEF RowTypeOK
  <2>3. reserved' \in [Keys -> Nat]
    <3>1. reserved[Terms[e].debit] + Terms[e].amount \in Nat
      BY <1>1 DEF RowTypeOK
    <3> QED
      BY <1>1, <1>3, <3>1 DEF RowTypeOK
  <2> QED
    BY <1>0, <1>1, <1>3, <2>1, <2>2, <2>3, EndSessionTypes DEF EngineTypeOK, RowTypeOK
<1>6. /\ history'[e] = <<"active">>
      /\ \A r \in Rows \ {e} : history'[r] = history[r]
      /\ Recorded' = Recorded \cup {e}
  BY <1>0, <1>1, <1>3 DEF RowTypeOK, Recorded
<1>7. \A t \in Threads \ {s} : Creating(t) => history'[at[t]] = <<>>
  <2> SUFFICES ASSUME NEW t \in Threads \ {s}, Creating(t)
               PROVE  history'[at[t]] = <<>>
    OBVIOUS
  <2>1. at[t] \in Rows /\ at[t] \notin Recorded
    BY <1>1 DEF RowInv, ThreadInv, CreatesAlone, Creating
  <2> QED
    BY <1>2, <1>6, <2>1 DEF Recorded
<1>8. \A t \in Threads \ {s}, r \in Rows : rowLock[r] = t => history'[r] = history[r]
  BY <1>2, <1>6 DEF RowInv, ThreadInv, DraftsLocked
<1>9. \A r \in Rows : history[r] # <<>> => history'[r] # <<>>
  BY <1>2, <1>6
<1> HIDE DEF e
<1>10. /\ \A t \in Threads : ThreadInv(t)'
       /\ pc'[s] = "idle" /\ draft'[s] = [r \in Rows |-> <<>>]
       /\ \A t \in Threads \ {s} : /\ pc'[t] = pc[t] /\ at'[t] = at[t]
                                    /\ draft'[t] = draft[t]
  BY <1>0, <1>3, <1>5, <1>7, <1>8, <1>9, SessionEnds
<1>11. IsFiniteSet(Recorded)'
  BY <1>6, FS_AddElement DEF RowInv
<1>12. ASSUME NEW x \in Escrows PROVE EscrowInv(x)'
  <2>1. CASE x = e
    <3>1. Count(<<"active">>, "released") = 0 /\ Count(<<"active">>, "refunded") = 0
      BY CountOne
    <3> QED
      BY <1>6, <2>1, <3>1 DEF EscrowInv
  <2>2. CASE x # e
    BY <1>1, <1>6, <2>2 DEF RowInv, EscrowInv
  <2> QED
    BY <2>1, <2>2
<1> QED
  BY <1>2, <1>5, <1>6, <1>10, <1>11, <1>12 DEF RowInv, e

(* A statement of a request that needs no thread of its own changes the    *)
(* history of one row that no thread has locked or is creating.            *)
LEMMA UnlockedRowStep ==
  ASSUME RowInv, EngineTypeOK', NEW r \in Rows,
         UNCHANGED <<pc, at, draft, todo, rowLock>>,
         history'[r] # <<>>, \A q \in Rows \ {r} : history'[q] = history[q],
         \A t \in Threads : rowLock[r] # t /\ (Creating(t) => at[t] # r),
         r \in Escrows => EscrowInv(r)'
  PROVE  RowInv' /\ Recorded' = Recorded \cup {r}
<1>0. Recorded' = Recorded \cup {r} /\ Escrows \subseteq Rows /\ Payments \subseteq Rows
  BY TermsTyped DEF Recorded
<1>1. Untouched(Threads)
  <2>1. \A t \in Threads : Creating(t) =>
          /\ history'[at[t]] = <<>>
          /\ \A u \in Threads : at'[u] = at[t] => u = t
    <3> SUFFICES ASSUME NEW t \in Threads, Creating(t)
                 PROVE  /\ history'[at[t]] = <<>>
                        /\ \A u \in Threads : at'[u] = at[t] => u = t
      OBVIOUS
    <3>1. CreatesAlone(t) /\ at[t] \in Rows /\ at[t] # r
      BY TermsTyped DEF RowInv, ThreadInv, Creating
    <3> QED
      BY <3>1 DEF CreatesAlone, Recorded
  <2>2. \A t \in Threads, q \in Rows : rowLock[q] = t => history'[q] = history[q]
    OBVIOUS
  <2> QED
    BY <2>1, <2>2 DEF Untouched
<1>2. \A t \in Threads : ThreadInv(t)'
  BY <1>1, UntouchedKept
<1>3. IsFiniteSet(Recorded)'
  BY <1>0, FS_AddElement DEF RowInv
<1>4. ASSUME NEW e \in Escrows PROVE EscrowInv(e)'
  <2>1. CASE e # r
    BY <1>0, <2>1 DEF RowInv, EscrowInv
  <2> QED
    BY <2>1
<1> QED
  BY <1>0, <1>2, <1>3, <1>4 DEF RowInv

LEMMA CreateConditionalPaymentPreserves ==
  ASSUME RowInv, NEW p \in Payments, CreateConditionalPayment(p)
  PROVE  /\ RowInv' /\ Recorded' = Recorded \cup {p} /\ p \notin Recorded
         /\ \A t \in Threads : draft[t][p] = <<>>
<1>0. /\ LedgerTypeOK /\ RowTypeOK /\ p \in Rows /\ p \notin Escrows
  BY TermsTyped, EngineAssumption DEF RowInv, EngineTypeOK
<1>1. /\ history' = [history EXCEPT ![p] = <<"pending">>]
      /\ UNCHANGED <<ledger, delta, holder, seen, reserved, released, freed, draft>>
      /\ UNCHANGED <<rowLock, pc, at, todo, passNow, told, clock, crashes>>
  BY DEF CreateConditionalPayment, ledgerVars, writeVars, threadVars, worldVars
<1>2. p \notin Recorded
  BY <1>0, NoStatusNoRow DEF CreateConditionalPayment
<1>3. <<"pending">> \in Seq(Statuses)
  BY DEF Statuses
<1>4. EngineTypeOK'
  BY <1>0, <1>1, <1>3 DEF EngineTypeOK, LedgerTypeOK, RowTypeOK
<1>5. history'[p] = <<"pending">> /\ \A q \in Rows \ {p} : history'[q] = history[q]
  BY <1>0, <1>1 DEF RowTypeOK
<1>6. \A t \in Threads : rowLock[p] # t /\ (Creating(t) => at[t] # p)
                        /\ draft[t][p] = <<>>
  BY <1>0, <1>2 DEF RowInv, ThreadInv, DraftsLocked, Creating
<1> QED
  BY <1>0, <1>1, <1>2, <1>4, <1>5, <1>6, UnlockedRowStep

LEMMA RefundDepositorPreserves ==
  ASSUME RowInv, NEW e \in Escrows, RefundDepositor(e)
  PROVE  /\ RowInv' /\ Recorded' = Recorded /\ e \in Recorded
         /\ history[e] = <<"active">> /\ history'[e] = <<"active", "refunded">>
<1>0. /\ LedgerTypeOK /\ RowTypeOK /\ e \in Rows /\ NoOne \notin Threads
      /\ Terms[e].debit \in Keys /\ Terms[e].amount \in Nat
  BY TermsTyped DEF RowInv, EngineTypeOK
<1>1. /\ rowLock[e] = NoOne /\ Status(e) = "active"
      /\ history' = [history EXCEPT ![e] = Append(@, "refunded")]
      /\ released' = [released EXCEPT ![Terms[e].debit] = @ + Terms[e].amount]
      /\ UNCHANGED <<ledger, delta, holder, seen, reserved, freed, draft>>
      /\ UNCHANGED <<rowLock, pc, at, todo, passNow, told, clock, crashes>>
  BY DEF RefundDepositor, Releasable, ledgerVars, writeVars, threadVars, worldVars
<1>2. e \in Recorded /\ history[e] = <<"active">>
  BY <1>0, <1>1 DEF Status, Recorded, RowInv, EscrowInv
<1>3. Append(<<"active">>, "refunded") = <<"active", "refunded">>
  BY AppendToOne
<1>4. <<"active", "refunded">> \in Seq(Statuses)
  BY DEF Statuses
<1>5. history' = [history EXCEPT ![e] = <<"active", "refunded">>]
  BY <1>0, <1>1, <1>2, <1>3 DEF RowTypeOK
<1>6. released[Terms[e].debit] + Terms[e].amount \in Nat
  BY <1>0 DEF RowTypeOK
<1>7. released' \in [Keys -> Nat]
  BY <1>0, <1>1, <1>6 DEF RowTypeOK
<1>8. EngineTypeOK'
  <2>1. history' \in [Rows -> Seq(Statuses)]
    BY <1>0, <1>4, <1>5 DEF RowTypeOK
  <2>2. LedgerTypeOK'
    BY <1>0, <1>1 DEF LedgerTypeOK
  <2>3. RowTypeOK'
    BY <1>0, <1>1, <1>7, <2>1 DEF RowTypeOK
  <2> QED
    BY <2>2, <2>3 DEF EngineTypeOK
<1>9. /\ history'[e] = <<"active", "refunded">>
      /\ \A q \in Rows \ {e} : history'[q] = history[q]
  BY <1>0, <1>5 DEF RowTypeOK
<1>10. \A t \in Threads : rowLock[e] # t /\ (Creating(t) => at[t] # e)
  BY <1>0, <1>1, <1>2 DEF RowInv, ThreadInv, CreatesAlone
<1>11. EscrowInv(e)'
  <2> DEFINE list == <<"active", "refunded">>
  <2>1. DOMAIN list = 1..2 /\ list[1] = "active" /\ list[2] = "refunded" /\ Len(list) = 2
    OBVIOUS
  <2> HIDE DEF list
  <2>2. \A i \in DOMAIN list : list[i] # "released"
    BY <2>1
  <2>3. 2 \in DOMAIN list /\ \A i \in DOMAIN list : list[i] = "refunded" <=> i = 2
    BY <2>1
  <2>4. Count(list, "released") = 0
    BY <2>2, NotListed DEF Count
  <2>5. Count(list, "refunded") = 1
    BY <2>3, ListedOnce DEF Count
  <2>6. Last(list) = "refunded"
    BY <2>1 DEF Last
  <2>7. history'[e] = list
    BY <1>9 DEF list
  <2> QED
    BY <2>4, <2>5, <2>6, <2>7 DEF EscrowInv
<1>12. history'[e] # <<>>
  BY <1>9
<1>13. RowInv' /\ Recorded' = Recorded \cup {e}
  BY <1>0, <1>1, <1>8, <1>9, <1>10, <1>11, <1>12, UnlockedRowStep
<1> QED
  BY <1>2, <1>9, <1>13

LEMMA BeginReleasePreserves ==
  ASSUME RowInv, NEW s \in Handlers, NEW e \in Escrows, BeginRelease(s, e)
  PROVE  RowInv'
<1>0. s \in Threads /\ e \in Rows /\ NoOne \notin Threads
  BY TermsTyped
<1>1. /\ LedgerTypeOK /\ RowTypeOK /\ pc[s] = "idle"
      /\ AtItsRow(s) /\ DraftsLocked(s) /\ ContractHeld(s)
      /\ Payments \cap Escrows = {} /\ Handlers \cap Checkers = {}
      /\ Payments \subseteq Rows /\ Escrows \subseteq Rows
  BY <1>0, ThreadFacts, TermsTyped DEF BeginRelease
<1>2. /\ UNCHANGED <<ledger, delta, holder, seen, reserved, released, history, outbox>>
      /\ UNCHANGED <<freed, draft, todo, passNow, told, clock, crashes>>
      /\ rowLock' = [rowLock EXCEPT ![e] = s] /\ at' = [at EXCEPT ![s] = e]
      /\ Goto(s, "pay") /\ "pay" \in Labels /\ Recorded' = Recorded
      /\ rowLock[e] = NoOne /\ Status(e) = "active"
  BY DEF BeginRelease, Releasable, Labels, ledgerVars, tableVars, worldVars, Recorded
<1>3. e \in Recorded /\ history[e] = <<"active">>
  BY <1>0, <1>2 DEF Status, Recorded, RowInv, EscrowInv
<1>4. /\ pc' \in [Threads -> Labels] /\ pc'[s] = "pay"
      /\ \A t \in Threads \ {s} : pc'[t] = pc[t]
  BY <1>0, <1>1, <1>2, GotoEffect
<1>5. /\ at' \in [Threads -> Rows \cup {NoRow}] /\ at'[s] = e
      /\ \A t \in Threads \ {s} : at'[t] = at[t]
      /\ rowLock' \in [Rows -> Threads \cup {NoOne}] /\ rowLock'[e] = s
      /\ \A q \in Rows \ {e} : rowLock'[q] = rowLock[q]
  BY <1>0, <1>1, <1>2 DEF RowTypeOK
<1>6. EngineTypeOK'
  BY <1>1, <1>2, <1>4, <1>5 DEF EngineTypeOK, LedgerTypeOK, RowTypeOK
<1>7. Untouched(Threads \ {s})
  <2>1. \A t \in Threads \ {s} : Creating(t) =>
          /\ history'[at[t]] = <<>>
          /\ \A u \in Threads : at'[u] = at[t] => u = t
    <3> SUFFICES ASSUME NEW t \in Threads \ {s}, Creating(t)
                 PROVE  /\ history'[at[t]] = <<>>
                        /\ \A u \in Threads : at'[u] = at[t] => u = t
      OBVIOUS
    <3>1. CreatesAlone(t) /\ at[t] \in Rows
      BY TermsTyped DEF RowInv, ThreadInv, Creating
    <3> QED
      BY <1>2, <1>3, <1>5, <3>1 DEF CreatesAlone, Recorded
  <2>2. \A t \in Threads \ {s}, q \in Rows :
          /\ rowLock[q] = t => rowLock'[q] = t /\ history'[q] = history[q]
          /\ rowLock'[q] = t => rowLock[q] = t
    BY <1>0, <1>2, <1>5
  <2> QED
    BY <1>2, <1>4, <1>5, <2>1, <2>2 DEF Untouched
<1>8. \A t \in Threads \ {s} : ThreadInv(t)'
  BY <1>7, UntouchedKept
<1>9. ThreadInv(s)'
  <2>1. AtItsRow(s)' /\ CreatesAlone(s)'
    BY <1>1, <1>2, <1>3, <1>4, <1>5 DEF AtItsRow, CreatesAlone, Creating
  <2>2. DraftsLocked(s)'
    BY <1>0, <1>1, <1>2, <1>3, <1>4, <1>5 DEF DraftsLocked
  <2>3. ContractHeld(s)'
    BY <1>1, <1>2, <1>3, <1>4, <1>5 DEF ContractHeld
  <2> QED
    BY <2>1, <2>2, <2>3 DEF ThreadInv
<1>10. \A x \in Escrows : EscrowInv(x)'
  BY <1>2 DEF RowInv, EscrowInv
<1> QED
  BY <1>2, <1>6, <1>8, <1>9, <1>10 DEF RowInv

(* ReleaseTooLate, TriggerUnsatisfied, Tick, and a step that does nothing. *)
LEMMA WorldStep ==
  ASSUME RowInv,
         UNCHANGED <<ledgerVars, reserved, released, history, writeVars, threadVars,
                     crashes>>,
         told' \subseteq Escrows, clock' \in 0..MaxClock
  PROVE  RowInv'
<1>0. /\ UNCHANGED <<ledger, delta, holder, seen, reserved, released, history, freed>>
      /\ UNCHANGED <<draft, rowLock, pc, at, todo, passNow, crashes>>
      /\ Recorded' = Recorded /\ LedgerTypeOK /\ RowTypeOK
  BY DEF ledgerVars, writeVars, threadVars, Recorded, RowInv, EngineTypeOK
<1>1. EngineTypeOK'
  BY <1>0 DEF EngineTypeOK, LedgerTypeOK, RowTypeOK
<1>2. \A t \in Threads : ThreadInv(t)'
  BY <1>0
  DEF RowInv, ThreadInv, AtItsRow, CreatesAlone, Creating, DraftsLocked, ContractHeld
<1>3. \A e \in Escrows : EscrowInv(e)'
  BY <1>0 DEF RowInv, EscrowInv
<1> QED
  BY <1>0, <1>1, <1>2, <1>3 DEF RowInv

LEMMA InitRows == Init => RowInv
<1> SUFFICES ASSUME Init PROVE RowInv
  OBVIOUS
<1>0. /\ ledger = Opening /\ delta = [s \in Sessions |-> NoEntries]
      /\ holder = [k \in Keys |-> NoOne] /\ seen = [s \in Sessions |-> NoRead]
      /\ 0 \in 0..MaxClock /\ 0 \in 0..MaxCrashes
      /\ Payments \subseteq Rows /\ Escrows \subseteq Rows /\ NoRow \notin Rows
      /\ NoOne \notin Threads
  BY TermsTyped, EngineAssumption DEF Init, LedgerInit, NoRow
<1>1. LedgerTypeOK
  BY <1>0, OpeningAssumption DEF LedgerTypeOK, NoEntries, NoRead
<1>2. RowTypeOK
  <2>1. history \in [Rows -> Seq(Statuses)]
    BY DEF Init
  <2>2. draft \in [Threads -> [Rows -> Seq(Statuses)]]
    BY DEF Init
  <2> QED
    BY <1>0, <2>1, <2>2 DEF Init, RowTypeOK, NoEntries, Labels
<1>3. Recorded = {}
  BY DEF Init, Recorded
<1>4. IsFiniteSet(Recorded)
  BY <1>3, FS_EmptySet
<1>5. ASSUME NEW s \in Threads PROVE ThreadInv(s)
  <2>1. /\ pc[s] = "idle" /\ at[s] = NoRow /\ todo[s] = {}
        /\ \A r \in Rows : draft[s][r] = <<>> /\ rowLock[r] = NoOne
    BY DEF Init
  <2>2. AtItsRow(s) /\ CreatesAlone(s)
    BY <1>0, <2>1 DEF AtItsRow, CreatesAlone, Creating
  <2>3. DraftsLocked(s) /\ ContractHeld(s)
    BY <1>0, <2>1 DEF DraftsLocked, ContractHeld
  <2> QED
    BY <2>2, <2>3 DEF ThreadInv
<1>6. ASSUME NEW e \in Escrows PROVE EscrowInv(e)
  <2>1. history[e] = <<>>
    BY <1>0 DEF Init
  <2>2. Count(<<>>, "released") = 0 /\ Count(<<>>, "refunded") = 0
    BY CountEmpty
  <2> QED
    BY <2>1, <2>2 DEF EscrowInv
<1> QED
  BY <1>1, <1>2, <1>4, <1>5, <1>6 DEF RowInv, EngineTypeOK

LEMMA TransferPreserves ==
  ASSUME RowInv, NEW s \in Threads, TransferStep(s)
  PROVE  RowInv'
BY BeginExecutionPreserves, LockDebitedPreserves, ReadBalancePreserves,
   ReadHeldPreserves, ReadReleasedPreserves, AbortPreserves,
   CompletePaymentPreserves
DEF TransferStep

LEMMA WorldPreserves ==
  ASSUME RowInv,
         \/ Tick \/ UNCHANGED vars \/ \E e \in Escrows : ReleaseTooLate(e)
         \/ \E p \in Payments, data \in Evidence : TriggerUnsatisfied(p, data)
  PROVE  RowInv'
<1>1. clock \in 0..MaxClock /\ MaxClock \in Nat /\ told \subseteq Escrows
  BY EngineAssumption DEF RowInv, EngineTypeOK, RowTypeOK
<1>2. UNCHANGED <<ledgerVars, reserved, released, history, writeVars, threadVars,
                  crashes>>
  BY DEF Tick, vars, ReleaseTooLate, TriggerUnsatisfied, tableVars, worldVars
<1>3. told' \subseteq Escrows
  BY <1>1 DEF Tick, vars, ReleaseTooLate, TriggerUnsatisfied, worldVars
<1>4. clock' = clock \/ (clock < MaxClock /\ clock' = clock + 1)
  BY DEF Tick, vars, ReleaseTooLate, TriggerUnsatisfied, worldVars
<1>5. clock' \in 0..MaxClock
  BY <1>1, <1>4
<1> QED
  BY <1>2, <1>3, <1>5, WorldStep

(* Every step of the engine keeps the invariant. *)
LEMMA NextPreservesRows == RowInv /\ [Next]_vars => RowInv'
<1> SUFFICES ASSUME RowInv, [Next]_vars PROVE RowInv'
  OBVIOUS
<1>0. Handlers \subseteq Threads /\ Checkers \subseteq Threads
  BY TermsTyped
<1>1. CASE NewRequest
  BY <1>0, <1>1, CreateConditionalPaymentPreserves, WorldPreserves, TriggerPreserves,
     BeginReservePreserves, BeginReleasePreserves, RefundDepositorPreserves
  DEF NewRequest
<1>2. ASSUME NEW s \in Handlers, HandlerStep(s) PROVE RowInv'
  BY <1>0, <1>2, TransferPreserves, CreateEscrowPreserves, PayBeneficiaryPreserves,
     AbortPreserves, CommitPreserves
  DEF HandlerStep, CommitRequest
<1>3. ASSUME NEW s \in Checkers, CheckerStep(s) PROVE RowInv'
  BY <1>0, <1>3, TransferPreserves, BeginPassPreserves, TakePaymentPreserves,
     FailExpiredPreserves, SelectExpiredEscrowsPreserves, TakeEscrowPreserves,
     ExpireEscrowPreserves, CommitPreserves
  DEF CheckerStep, CommitPass
<1>4. ASSUME NEW s \in Threads, Crash(s) PROVE RowInv'
  BY <1>4, AbortPreserves
<1>5. CASE Tick \/ UNCHANGED vars
  BY <1>5, WorldPreserves
<1> QED
  BY <1>1, <1>2, <1>3, <1>4, <1>5 DEF Next

(* The engine keeps RowInv: every thread is at a row of the right table,   *)
(* what it has written is locked, and a contract being paid out is active. *)
THEOREM EngineRowInvariant == Spec => []RowInv
BY InitRows, NextPreservesRows, PTL DEF Spec

(* Every variable keeps its shape, and no hold sum goes negative.          *)
THEOREM EngineTypeCorrectness == Spec => []EngineTypeOK
<1>1. RowInv => EngineTypeOK
  BY DEF RowInv
<1> QED
  BY <1>1, EngineRowInvariant, PTL

(* However many handlers release a contract and however often the checker  *)
(* expires it, it is released or refunded at most once.                    *)
THEOREM EngineResolvesOnce == Spec => []EscrowResolvedOnce
<1>1. RowInv => EscrowResolvedOnce
  BY DEF RowInv, EscrowInv, EscrowResolvedOnce, Times
<1> QED
  BY <1>1, EngineRowInvariant, PTL

-----------------------------------------------------------------------------
(* The books: what a status row is worth.                                  *)

Lists == [Rows -> Seq(Statuses)]

(* What one status row of r is worth to key k, in the journal and as a     *)
(* reserve and a release hold.                                             *)
RowMoves(k, r, x) ==
  IF x \in {"completed", "released"}
  THEN (IF Terms[r].credit = k THEN Terms[r].amount ELSE 0)
         - (IF Terms[r].debit = k THEN Terms[r].amount ELSE 0)
  ELSE 0

RowHolds(k, r, x) ==
  IF r \in Escrows /\ Terms[r].debit = k /\ x = "active" THEN Terms[r].amount ELSE 0

RowFrees(k, r, x) ==
  IF /\ r \in Escrows /\ Terms[r].debit = k
     /\ x \in {"released", "refunded", "expired"}
  THEN Terms[r].amount ELSE 0

LEMMA WorthTyped ==
  ASSUME NEW k, NEW r \in Rows, NEW list \in Seq(Statuses)
  PROVE  /\ MovedInto(k, r, list) \in Int
         /\ HeldFor(k, r, list) \in Int
         /\ FreedFor(k, r, list) \in Int
<1>1. \A x : Count(list, x) \in Nat
  BY CountType
<1>2. Terms[r].amount \in Nat
  BY TermsTyped
<1>3. \A m, n \in Nat : m * n \in Int
  OBVIOUS
<1>4. MovedInto(k, r, list) \in Int
  BY <1>1, <1>2, <1>3 DEF MovedInto, MovedBy
<1>5. HeldFor(k, r, list) \in Int
  <2>1. Terms[r].amount * Count(list, "active") \in Int
    BY <1>1, <1>2, <1>3
  <2> QED
    BY <2>1 DEF HeldFor
<1>6. FreedFor(k, r, list) \in Int
  BY <1>1, <1>2, <1>3 DEF FreedFor
<1> QED
  BY <1>4, <1>5, <1>6

LEMMA BooksTyped ==
  ASSUME NEW lists \in Lists, NEW k
  PROVE  /\ MovesOf(k, lists) \in [Rows -> Int]
         /\ HoldsOf(k, lists) \in [Rows -> Int]
         /\ FreesOf(k, lists) \in [Rows -> Int]
<1>1. \A r \in Rows : /\ MovedInto(k, r, lists[r]) \in Int
                      /\ HeldFor(k, r, lists[r]) \in Int
                      /\ FreedFor(k, r, lists[r]) \in Int
  BY WorthTyped DEF Lists
<1> QED
  BY <1>1 DEF MovesOf, HoldsOf, FreesOf

(* Two lists of rows are worth what each is worth. *)
LEMMA WorthConcat ==
  ASSUME NEW a \in Seq(Statuses), NEW b \in Seq(Statuses), NEW k, NEW r \in Rows
  PROVE  /\ MovedInto(k, r, a \o b) = MovedInto(k, r, a) + MovedInto(k, r, b)
         /\ HeldFor(k, r, a \o b) = HeldFor(k, r, a) + HeldFor(k, r, b)
         /\ FreedFor(k, r, a \o b) = FreedFor(k, r, a) + FreedFor(k, r, b)
<1>1. \A x : /\ Count(a, x) \in Nat /\ Count(b, x) \in Nat
             /\ Count(a \o b, x) = Count(a, x) + Count(b, x)
  BY CountType, CountConcat
<1>2. Terms[r].amount \in Nat
  BY TermsTyped
<1>3. \A m, n, l \in Nat : m * (n + l) = m * n + m * l /\ m * n \in Int /\ m * l \in Int
  OBVIOUS
<1>4. /\ MovedBy(r, a \o b) = MovedBy(r, a) + MovedBy(r, b)
      /\ MovedBy(r, a) \in Int /\ MovedBy(r, b) \in Int
  <2> DEFINE m == Count(a, "completed") + Count(a, "released")
             n == Count(b, "completed") + Count(b, "released")
  <2>1. /\ Count(a \o b, "completed") + Count(a \o b, "released") = m + n
        /\ m \in Nat /\ n \in Nat
    BY <1>1
  <2>2. MovedBy(r, a) = Terms[r].amount * m /\ MovedBy(r, b) = Terms[r].amount * n
    BY DEF MovedBy
  <2>3. MovedBy(r, a \o b) = Terms[r].amount * (m + n)
    BY <2>1 DEF MovedBy
  <2> HIDE DEF m, n
  <2> QED
    BY <1>2, <1>3, <2>1, <2>2, <2>3
<1>5. MovedInto(k, r, a \o b) = MovedInto(k, r, a) + MovedInto(k, r, b)
  BY <1>4 DEF MovedInto
<1>6. HeldFor(k, r, a \o b) = HeldFor(k, r, a) + HeldFor(k, r, b)
  <2> DEFINE m == Count(a, "active")  n == Count(b, "active")
  <2>1. Count(a \o b, "active") = m + n /\ m \in Nat /\ n \in Nat
    BY <1>1
  <2>2. Terms[r].amount * Count(a \o b, "active")
          = Terms[r].amount * m + Terms[r].amount * n
    BY <1>2, <1>3, <2>1
  <2> QED
    BY <2>2 DEF HeldFor
<1>7. FreedFor(k, r, a \o b) = FreedFor(k, r, a) + FreedFor(k, r, b)
  <2> DEFINE m == Count(a, "released") + Count(a, "refunded") + Count(a, "expired")
             n == Count(b, "released") + Count(b, "refunded") + Count(b, "expired")
             l == Count(a \o b, "released") + Count(a \o b, "refunded")
                    + Count(a \o b, "expired")
  <2>1. l = m + n /\ m \in Nat /\ n \in Nat
    <3> DEFINE a1 == Count(a, "released")  b1 == Count(b, "released")
               a2 == Count(a, "refunded")  b2 == Count(b, "refunded")
               a3 == Count(a, "expired")   b3 == Count(b, "expired")
    <3>1. /\ a1 \in Nat /\ a2 \in Nat /\ a3 \in Nat
          /\ b1 \in Nat /\ b2 \in Nat /\ b3 \in Nat
      BY <1>1
    <3>2. /\ m = a1 + a2 + a3 /\ n = b1 + b2 + b3
          /\ l = (a1 + b1) + (a2 + b2) + (a3 + b3)
      BY <1>1
    <3> HIDE DEF a1, a2, a3, b1, b2, b3, l, m, n
    <3> QED
      BY <3>1, <3>2
  <2>2. /\ Terms[r].amount * (m + n) = Terms[r].amount * m + Terms[r].amount * n
        /\ Terms[r].amount * m \in Int /\ Terms[r].amount * n \in Int
    BY <1>2, <1>3, <2>1
  <2>3. Terms[r].amount * l = Terms[r].amount * m + Terms[r].amount * n
    BY <2>1, <2>2
  <2> QED
    BY <2>3 DEF FreedFor
<1> QED
  BY <1>5, <1>6, <1>7

LEMMA WorthEmpty ==
  ASSUME NEW k, NEW r \in Rows
  PROVE  /\ MovedInto(k, r, <<>>) = 0 /\ HeldFor(k, r, <<>>) = 0
         /\ FreedFor(k, r, <<>>) = 0
<1>1. \A x : Count(<<>>, x) = 0
  BY CountEmpty
<1>2. Terms[r].amount * 0 = 0 /\ Terms[r].amount * (0 + 0) = 0
      /\ Terms[r].amount * (0 + 0 + 0) = 0
  BY TermsTyped
<1> QED
  BY <1>1, <1>2 DEF MovedInto, MovedBy, HeldFor, FreedFor

LEMMA WorthOne ==
  ASSUME NEW k, NEW r \in Rows, NEW x
  PROVE  /\ MovedInto(k, r, <<x>>) = RowMoves(k, r, x)
         /\ HeldFor(k, r, <<x>>) = RowHolds(k, r, x)
         /\ FreedFor(k, r, <<x>>) = RowFrees(k, r, x)
<1> DEFINE n == Terms[r].amount
<1>1. n \in Nat
  BY TermsTyped
<1>2. n * 0 = 0 /\ n * 1 = n
  BY <1>1
<1>3. \A y : Count(<<x>>, y) = IF y = x THEN 1 ELSE 0
  BY CountOne
<1>4. MovedBy(r, <<x>>) = IF x \in {"completed", "released"} THEN n ELSE 0
  BY <1>2, <1>3 DEF MovedBy
<1>5. MovedInto(k, r, <<x>>) = RowMoves(k, r, x)
  BY <1>4 DEF MovedInto, RowMoves
<1>6. HeldFor(k, r, <<x>>) = RowHolds(k, r, x)
  BY <1>2, <1>3 DEF HeldFor, RowHolds
<1>7. FreedFor(k, r, <<x>>) = RowFrees(k, r, x)
  BY <1>2, <1>3 DEF FreedFor, RowFrees
<1> QED
  BY <1>5, <1>6, <1>7

(* A row with one more status is worth that status more. *)
LEMMA WorthAppend ==
  ASSUME NEW a \in Seq(Statuses), NEW k, NEW r \in Rows, NEW x \in Statuses
  PROVE  /\ MovedInto(k, r, Append(a, x)) = MovedInto(k, r, a) + RowMoves(k, r, x)
         /\ HeldFor(k, r, Append(a, x)) = HeldFor(k, r, a) + RowHolds(k, r, x)
         /\ FreedFor(k, r, Append(a, x)) = FreedFor(k, r, a) + RowFrees(k, r, x)
<1> DEFINE b == <<x>>
<1>1. b \in Seq(Statuses)
  OBVIOUS
<1>2. Append(a, x) = a \o b
  BY AppendIsConcat
<1>3. /\ MovedInto(k, r, b) = RowMoves(k, r, x)
      /\ HeldFor(k, r, b) = RowHolds(k, r, x)
      /\ FreedFor(k, r, b) = RowFrees(k, r, x)
  BY WorthOne
<1> HIDE DEF b
<1>4. /\ MovedInto(k, r, a \o b) = MovedInto(k, r, a) + MovedInto(k, r, b)
      /\ HeldFor(k, r, a \o b) = HeldFor(k, r, a) + HeldFor(k, r, b)
      /\ FreedFor(k, r, a \o b) = FreedFor(k, r, a) + FreedFor(k, r, b)
  BY <1>1, WorthConcat
<1> QED
  BY <1>2, <1>3, <1>4

-----------------------------------------------------------------------------
(* The books: the sums over all rows on record.                            *)

(* Sums over a set of rows add up and follow one changed row. *)
LEMMA RowSums ==
  ASSUME NEW S \in SUBSET Rows, IsFiniteSet(S)
  PROVE  \A f, g, h \in [Rows -> Int] :
           (\A x \in S : h[x] = f[x] + g[x])
             => SumFunctionOnSet(h, S) = SumFunctionOnSet(f, S) + SumFunctionOnSet(g, S)
<1> SUFFICES ASSUME NEW f \in [Rows -> Int], NEW g \in [Rows -> Int],
                    NEW h \in [Rows -> Int], \A x \in S : h[x] = f[x] + g[x]
             PROVE  SumFunctionOnSet(h, S)
                      = SumFunctionOnSet(f, S) + SumFunctionOnSet(g, S)
  OBVIOUS
<1> QED
  BY SumPlus

LEMMA RowSumUpdate ==
  ASSUME NEW S \in SUBSET Rows, IsFiniteSet(S), NEW r \in S
  PROVE  \A f, g \in [Rows -> Int] :
           (\A x \in S \ {r} : g[x] = f[x])
             => SumFunctionOnSet(g, S) = SumFunctionOnSet(f, S) + g[r] - f[r]
<1> SUFFICES ASSUME NEW f \in [Rows -> Int], NEW g \in [Rows -> Int],
                    \A x \in S \ {r} : g[x] = f[x]
             PROVE  SumFunctionOnSet(g, S) = SumFunctionOnSet(f, S) + g[r] - f[r]
  OBVIOUS
<1> QED
  BY SumUpdate

(* Sums over the rows on record when one of them gets one more status. *)
LEMMA BooksAppend ==
  ASSUME NEW S \in SUBSET Rows, IsFiniteSet(S), NEW a \in Lists, NEW c \in Lists,
         NEW r \in S, NEW x \in Statuses, c[r] = Append(a[r], x),
         \A q \in S \ {r} : c[q] = a[q], NEW k
  PROVE  /\ SumFunctionOnSet(MovesOf(k, c), S)
              = SumFunctionOnSet(MovesOf(k, a), S) + RowMoves(k, r, x)
         /\ SumFunctionOnSet(HoldsOf(k, c), S)
              = SumFunctionOnSet(HoldsOf(k, a), S) + RowHolds(k, r, x)
         /\ SumFunctionOnSet(FreesOf(k, c), S)
              = SumFunctionOnSet(FreesOf(k, a), S) + RowFrees(k, r, x)
<1> DEFINE am == MovesOf(k, a)  cm == MovesOf(k, c)  m == RowMoves(k, r, x)
           ah == HoldsOf(k, a)  ch == HoldsOf(k, c)  h == RowHolds(k, r, x)
           af == FreesOf(k, a)  cf == FreesOf(k, c)  f == RowFrees(k, r, x)
<1>1. /\ am \in [Rows -> Int] /\ cm \in [Rows -> Int]
      /\ ah \in [Rows -> Int] /\ ch \in [Rows -> Int]
      /\ af \in [Rows -> Int] /\ cf \in [Rows -> Int]
  BY BooksTyped
<1>2. \A q \in S \ {r} : cm[q] = am[q] /\ ch[q] = ah[q] /\ cf[q] = af[q]
  BY DEF MovesOf, HoldsOf, FreesOf
<1>3. cm[r] = am[r] + m /\ ch[r] = ah[r] + h /\ cf[r] = af[r] + f
  <2>1. a[r] \in Seq(Statuses)
    BY DEF Lists
  <2>2. /\ MovedInto(k, r, Append(a[r], x)) = MovedInto(k, r, a[r]) + m
        /\ HeldFor(k, r, Append(a[r], x)) = HeldFor(k, r, a[r]) + h
        /\ FreedFor(k, r, Append(a[r], x)) = FreedFor(k, r, a[r]) + f
    BY <2>1, WorthAppend
  <2> HIDE DEF m, h, f
  <2> QED
    BY <2>2 DEF MovesOf, HoldsOf, FreesOf
<1>4. m \in Int /\ h \in Int /\ f \in Int
  BY TermsTyped DEF RowMoves, RowHolds, RowFrees
<1> HIDE DEF am, cm, m, ah, ch, h, af, cf, f
<1>5. /\ SumFunctionOnSet(cm, S) = SumFunctionOnSet(am, S) + cm[r] - am[r]
      /\ SumFunctionOnSet(am, S) \in Int
  <2>1. /\ am \in [Rows -> Int] /\ cm \in [Rows -> Int]
        /\ \A q \in S \ {r} : cm[q] = am[q]
    BY <1>1, <1>2
  <2>2. SumFunctionOnSet(cm, S) = SumFunctionOnSet(am, S) + cm[r] - am[r]
    BY <2>1, RowSumUpdate, Zenon
  <2>3. SumFunctionOnSet(am, S) \in Int
    BY <2>1, SumType
  <2> QED
    BY <2>2, <2>3
<1>6. /\ SumFunctionOnSet(ch, S) = SumFunctionOnSet(ah, S) + ch[r] - ah[r]
      /\ SumFunctionOnSet(ah, S) \in Int
  <2>1. /\ ah \in [Rows -> Int] /\ ch \in [Rows -> Int]
        /\ \A q \in S \ {r} : ch[q] = ah[q]
    BY <1>1, <1>2
  <2>2. SumFunctionOnSet(ch, S) = SumFunctionOnSet(ah, S) + ch[r] - ah[r]
    BY <2>1, RowSumUpdate, Zenon
  <2>3. SumFunctionOnSet(ah, S) \in Int
    BY <2>1, SumType
  <2> QED
    BY <2>2, <2>3
<1>7. /\ SumFunctionOnSet(cf, S) = SumFunctionOnSet(af, S) + cf[r] - af[r]
      /\ SumFunctionOnSet(af, S) \in Int
  <2>1. /\ af \in [Rows -> Int] /\ cf \in [Rows -> Int]
        /\ \A q \in S \ {r} : cf[q] = af[q]
    BY <1>1, <1>2
  <2>2. SumFunctionOnSet(cf, S) = SumFunctionOnSet(af, S) + cf[r] - af[r]
    BY <2>1, RowSumUpdate, Zenon
  <2>3. SumFunctionOnSet(af, S) \in Int
    BY <2>1, SumType
  <2> QED
    BY <2>2, <2>3
<1>8. am[r] \in Int /\ ah[r] \in Int /\ af[r] \in Int
  BY <1>1
<1>9. /\ SumFunctionOnSet(cm, S) = SumFunctionOnSet(am, S) + m
      /\ SumFunctionOnSet(ch, S) = SumFunctionOnSet(ah, S) + h
      /\ SumFunctionOnSet(cf, S) = SumFunctionOnSet(af, S) + f
  BY <1>3, <1>4, <1>5, <1>6, <1>7, <1>8
<1> QED
  BY <1>9 DEF am, cm, m, ah, ch, h, af, cf, f

(* ... when every one of them gets the rows of another list ... *)
Joined(S, a, b, c) == \A r \in S : c[r] = a[r] \o b[r]

LEMMA BooksConcat ==
  ASSUME NEW S \in SUBSET Rows, IsFiniteSet(S),
         NEW a \in Lists, NEW b \in Lists, NEW c \in Lists,
         Joined(S, a, b, c), NEW k
  PROVE  /\ SumFunctionOnSet(MovesOf(k, c), S)
              = SumFunctionOnSet(MovesOf(k, a), S) + SumFunctionOnSet(MovesOf(k, b), S)
         /\ SumFunctionOnSet(HoldsOf(k, c), S)
              = SumFunctionOnSet(HoldsOf(k, a), S) + SumFunctionOnSet(HoldsOf(k, b), S)
         /\ SumFunctionOnSet(FreesOf(k, c), S)
              = SumFunctionOnSet(FreesOf(k, a), S) + SumFunctionOnSet(FreesOf(k, b), S)
<1> DEFINE am == MovesOf(k, a)  bm == MovesOf(k, b)  cm == MovesOf(k, c)
           ah == HoldsOf(k, a)  bh == HoldsOf(k, b)  ch == HoldsOf(k, c)
           af == FreesOf(k, a)  bf == FreesOf(k, b)  cf == FreesOf(k, c)
<1>1. /\ am \in [Rows -> Int] /\ bm \in [Rows -> Int] /\ cm \in [Rows -> Int]
      /\ ah \in [Rows -> Int] /\ bh \in [Rows -> Int] /\ ch \in [Rows -> Int]
      /\ af \in [Rows -> Int] /\ bf \in [Rows -> Int] /\ cf \in [Rows -> Int]
  BY BooksTyped
<1>2. ASSUME NEW r \in S
      PROVE  cm[r] = am[r] + bm[r] /\ ch[r] = ah[r] + bh[r] /\ cf[r] = af[r] + bf[r]
  <2> DEFINE d == a[r]  e == b[r]
  <2>1. d \in Seq(Statuses) /\ e \in Seq(Statuses) /\ c[r] = d \o e
    BY DEF Lists, Joined
  <2> HIDE DEF d, e
  <2>2. /\ MovedInto(k, r, d \o e) = MovedInto(k, r, d) + MovedInto(k, r, e)
        /\ HeldFor(k, r, d \o e) = HeldFor(k, r, d) + HeldFor(k, r, e)
        /\ FreedFor(k, r, d \o e) = FreedFor(k, r, d) + FreedFor(k, r, e)
    BY <2>1, WorthConcat
  <2>3. /\ am[r] = MovedInto(k, r, d) /\ bm[r] = MovedInto(k, r, e)
        /\ ah[r] = HeldFor(k, r, d) /\ bh[r] = HeldFor(k, r, e)
        /\ af[r] = FreedFor(k, r, d) /\ bf[r] = FreedFor(k, r, e)
    BY DEF MovesOf, HoldsOf, FreesOf, d, e
  <2>4. /\ cm[r] = MovedInto(k, r, d \o e) /\ ch[r] = HeldFor(k, r, d \o e)
        /\ cf[r] = FreedFor(k, r, d \o e)
    BY <2>1 DEF MovesOf, HoldsOf, FreesOf
  <2> HIDE DEF am, bm, cm, ah, bh, ch, af, bf, cf
  <2> QED
    BY <2>2, <2>3, <2>4
<1> HIDE DEF am, bm, cm, ah, bh, ch, af, bf, cf
<1>3. SumFunctionOnSet(cm, S) = SumFunctionOnSet(am, S) + SumFunctionOnSet(bm, S)
  <2>1. /\ am \in [Rows -> Int] /\ bm \in [Rows -> Int] /\ cm \in [Rows -> Int]
        /\ \A r \in S : cm[r] = am[r] + bm[r]
    BY <1>1, <1>2
  <2> QED
    BY <2>1, RowSums, Zenon
<1>4. SumFunctionOnSet(ch, S) = SumFunctionOnSet(ah, S) + SumFunctionOnSet(bh, S)
  <2>1. /\ ah \in [Rows -> Int] /\ bh \in [Rows -> Int] /\ ch \in [Rows -> Int]
        /\ \A r \in S : ch[r] = ah[r] + bh[r]
    BY <1>1, <1>2
  <2> QED
    BY <2>1, RowSums, Zenon
<1>5. SumFunctionOnSet(cf, S) = SumFunctionOnSet(af, S) + SumFunctionOnSet(bf, S)
  <2>1. /\ af \in [Rows -> Int] /\ bf \in [Rows -> Int] /\ cf \in [Rows -> Int]
        /\ \A r \in S : cf[r] = af[r] + bf[r]
    BY <1>1, <1>2
  <2> QED
    BY <2>1, RowSums, Zenon
<1> QED
  BY <1>3, <1>4, <1>5 DEF am, bm, cm, ah, bh, ch, af, bf, cf

(* ... when none of them has any ... *)
LEMMA BooksEmpty ==
  ASSUME NEW S \in SUBSET Rows, IsFiniteSet(S), NEW a \in Lists,
         \A r \in S : a[r] = <<>>, NEW k
  PROVE  /\ SumFunctionOnSet(MovesOf(k, a), S) = 0
         /\ SumFunctionOnSet(HoldsOf(k, a), S) = 0
         /\ SumFunctionOnSet(FreesOf(k, a), S) = 0
<1> DEFINE am == MovesOf(k, a)  ah == HoldsOf(k, a)  af == FreesOf(k, a)
<1>1. /\ am \in [Rows -> Int] /\ ah \in [Rows -> Int] /\ af \in [Rows -> Int]
  BY BooksTyped
<1>2. \A r \in S : am[r] = 0 /\ ah[r] = 0 /\ af[r] = 0
  BY WorthEmpty DEF MovesOf, HoldsOf, FreesOf
<1> HIDE DEF am, ah, af
<1>3. SumFunctionOnSet(am, S) = 0
  BY <1>1, <1>2, SumZero
<1>4. SumFunctionOnSet(ah, S) = 0
  BY <1>1, <1>2, SumZero
<1>5. SumFunctionOnSet(af, S) = 0
  BY <1>1, <1>2, SumZero
<1> QED
  BY <1>3, <1>4, <1>5 DEF am, ah, af

(* ... and when there is one row more. *)
LEMMA BooksGrow ==
  ASSUME NEW S \in SUBSET Rows, IsFiniteSet(S), NEW a \in Lists, NEW c \in Lists,
         NEW r \in Rows \ S, \A q \in S : c[q] = a[q], NEW k
  PROVE  /\ SumFunctionOnSet(MovesOf(k, c), S \cup {r})
              = SumFunctionOnSet(MovesOf(k, a), S) + MovedInto(k, r, c[r])
         /\ SumFunctionOnSet(HoldsOf(k, c), S \cup {r})
              = SumFunctionOnSet(HoldsOf(k, a), S) + HeldFor(k, r, c[r])
         /\ SumFunctionOnSet(FreesOf(k, c), S \cup {r})
              = SumFunctionOnSet(FreesOf(k, a), S) + FreedFor(k, r, c[r])
<1> DEFINE am == MovesOf(k, a)  cm == MovesOf(k, c)
           ah == HoldsOf(k, a)  ch == HoldsOf(k, c)
           af == FreesOf(k, a)  cf == FreesOf(k, c)
<1>1. /\ am \in [Rows -> Int] /\ cm \in [Rows -> Int]
      /\ ah \in [Rows -> Int] /\ ch \in [Rows -> Int]
      /\ af \in [Rows -> Int] /\ cf \in [Rows -> Int]
  BY BooksTyped
<1>2. \A q \in S : cm[q] = am[q] /\ ch[q] = ah[q] /\ cf[q] = af[q]
  BY DEF MovesOf, HoldsOf, FreesOf
<1>3. /\ cm[r] = MovedInto(k, r, c[r]) /\ ch[r] = HeldFor(k, r, c[r])
      /\ cf[r] = FreedFor(k, r, c[r])
  BY DEF MovesOf, HoldsOf, FreesOf
<1> HIDE DEF am, cm, ah, ch, af, cf
<1>4. SumFunctionOnSet(cm, S \cup {r}) = SumFunctionOnSet(am, S) + cm[r]
  BY <1>1, <1>2, SumAdd, SumSame
<1>5. SumFunctionOnSet(ch, S \cup {r}) = SumFunctionOnSet(ah, S) + ch[r]
  BY <1>1, <1>2, SumAdd, SumSame
<1>6. SumFunctionOnSet(cf, S \cup {r}) = SumFunctionOnSet(af, S) + cf[r]
  BY <1>1, <1>2, SumAdd, SumSame
<1> QED
  BY <1>3, <1>4, <1>5, <1>6 DEF am, cm, ah, ch, af, cf

-----------------------------------------------------------------------------
(* The books: every step keeps them.                                       *)

(* The invariant gives the lemmas above what they ask for. *)
LEMMA BooksFacts ==
  ASSUME RowInv
  PROVE  /\ Recorded \in SUBSET Rows /\ IsFiniteSet(Recorded)
         /\ history \in Lists /\ \A s \in Threads : draft[s] \in Lists
         /\ Threads \subseteq Sessions
         /\ ledger \in [Keys -> Int] /\ delta \in [Sessions -> [Keys -> Int]]
         /\ reserved \in [Keys -> Nat] /\ released \in [Keys -> Nat]
         /\ freed \in [Threads -> [Keys -> Nat]]
BY TermsTyped DEF RowInv, EngineTypeOK, RowTypeOK, LedgerTypeOK, Recorded, Lists

LEMMA NextBooksFacts ==
  ASSUME RowInv'
  PROVE  /\ Recorded' \in SUBSET Rows /\ IsFiniteSet(Recorded')
         /\ history' \in Lists /\ \A s \in Threads : draft'[s] \in Lists
BY DEF RowInv, EngineTypeOK, RowTypeOK, Recorded, Lists

(* A thread whose drafts and pending entries stay keeps its books. *)
LEMMA PendingKept ==
  ASSUME NEW t \in Threads, Pending(t), Recorded' = Recorded,
         draft'[t] = draft[t], delta'[t] = delta[t], freed'[t] = freed[t]
  PROVE  Pending(t)'
BY DEF Pending

(* A thread that has written nothing has no pending entries. *)
LEMMA PendingEnded ==
  ASSUME RowInv', NEW s \in Threads, draft'[s] = [r \in Rows |-> <<>>],
         delta'[s] = NoEntries, freed'[s] = NoEntries
  PROVE  Pending(s)'
<1>1. /\ Recorded' \in SUBSET Rows /\ IsFiniteSet(Recorded') /\ draft'[s] \in Lists
      /\ \A r \in Recorded' : draft'[s][r] = <<>>
  BY NextBooksFacts DEF Recorded, Lists
<1> SUFFICES ASSUME NEW k \in Keys
             PROVE  /\ SumFunctionOnSet(MovesOf(k, draft'[s]), Recorded') = 0
                    /\ SumFunctionOnSet(FreesOf(k, draft'[s]), Recorded') = 0
  BY DEF Pending, NoEntries
<1> QED
  BY <1>1, BooksEmpty

(* A step that writes no row and no entry keeps the books. *)
LEMMA QuietBooks ==
  ASSUME BooksInv, RowInv',
         UNCHANGED <<ledger, delta, reserved, released, history, freed, draft>>
  PROVE  BooksInv'
<1>1. Recorded' = Recorded
  BY DEF Recorded
<1>2. PendingReconciles'
  BY <1>1, PendingKept DEF BooksInv, PendingReconciles
<1>3. JournalReconciles' /\ HoldsReconcile'
  BY <1>1 DEF BooksInv, JournalReconciles, HoldsReconcile
<1> QED
  BY <1>2, <1>3 DEF BooksInv

(* A status row written together with the entries it is worth keeps them. *)
LEMMA WriteBooks ==
  ASSUME BooksInv, RowInv', NEW s \in Threads, NEW new \in Statuses,
         at[s] \in Recorded, WriteStatus(s, at[s], new),
         UNCHANGED <<ledger, reserved, released, history>>,
         \A t \in Threads \ {s} : delta'[t] = delta[t] /\ freed'[t] = freed[t],
         \A k \in Keys : /\ delta'[s][k] = delta[s][k] + RowMoves(k, at[s], new)
                         /\ freed'[s][k] = freed[s][k] + RowFrees(k, at[s], new)
  PROVE  BooksInv'
<1>1. Recorded' = Recorded
  BY DEF Recorded
<1>2. /\ Recorded \in SUBSET Rows /\ IsFiniteSet(Recorded)
      /\ draft[s] \in Lists /\ draft'[s] \in Lists
  BY BooksFacts, NextBooksFacts DEF BooksInv
<1>3. draft'[s][at[s]] = Append(draft[s][at[s]], new)
  BY <1>2 DEF WriteStatus, BooksInv, RowInv, EngineTypeOK, RowTypeOK
<1>4. /\ \A q \in Recorded \ {at[s]} : draft'[s][q] = draft[s][q]
      /\ \A t \in Threads \ {s} : draft'[t] = draft[t]
  BY <1>2 DEF WriteStatus, BooksInv, RowInv, EngineTypeOK, RowTypeOK
<1>5. ASSUME NEW t \in Threads \ {s} PROVE Pending(t)'
  BY <1>1, <1>4, <1>5, PendingKept DEF BooksInv, PendingReconciles
<1>6. Pending(s)'
  <2> SUFFICES ASSUME NEW k \in Keys
               PROVE  /\ delta'[s][k]
                           = SumFunctionOnSet(MovesOf(k, draft'[s]), Recorded)
                      /\ freed'[s][k]
                           = SumFunctionOnSet(FreesOf(k, draft'[s]), Recorded)
    BY <1>1 DEF Pending
  <2> DEFINE S == Recorded  a == draft[s]  c == draft'[s]  r == at[s]
  <2>1. /\ S \in SUBSET Rows /\ IsFiniteSet(S) /\ a \in Lists /\ c \in Lists
        /\ r \in S /\ c[r] = Append(a[r], new) /\ \A q \in S \ {r} : c[q] = a[q]
    BY <1>2, <1>3, <1>4
  <2>2. /\ delta[s][k] = SumFunctionOnSet(MovesOf(k, a), S)
        /\ freed[s][k] = SumFunctionOnSet(FreesOf(k, a), S)
    BY DEF BooksInv, PendingReconciles, Pending
  <2> HIDE DEF S, a, c, r
  <2>3. /\ SumFunctionOnSet(MovesOf(k, c), S)
             = SumFunctionOnSet(MovesOf(k, a), S) + RowMoves(k, r, new)
        /\ SumFunctionOnSet(FreesOf(k, c), S)
             = SumFunctionOnSet(FreesOf(k, a), S) + RowFrees(k, r, new)
    BY <2>1, BooksAppend
  <2> QED
    BY <2>2, <2>3 DEF S, a, c, r
<1>7. JournalReconciles' /\ HoldsReconcile'
  BY <1>1 DEF BooksInv, JournalReconciles, HoldsReconcile
<1> QED
  BY <1>5, <1>6, <1>7 DEF BooksInv, PendingReconciles

(* A session that ends without committing leaves the books as they were. *)
LEMMA RollbackBooks ==
  ASSUME BooksInv, RowInv', NEW s \in Threads, RollbackSession(s)
  PROVE  BooksInv'
<1>1. UNCHANGED <<ledger, reserved, released, history>>
  BY DEF RollbackSession, Rollback, tableVars
<1>2. Recorded' = Recorded
  BY <1>1 DEF Recorded
<1>3. /\ draft'[s] = [r \in Rows |-> <<>>]
      /\ delta'[s] = NoEntries /\ freed'[s] = NoEntries
      /\ \A t \in Threads \ {s} : /\ draft'[t] = draft[t] /\ delta'[t] = delta[t]
                                   /\ freed'[t] = freed[t]
  BY TermsTyped DEF RollbackSession, Rollback, EndTransaction, EndSession, BooksInv,
     RowInv, EngineTypeOK, RowTypeOK, LedgerTypeOK
<1>4. Pending(s)'
  BY <1>3, PendingEnded
<1>5. ASSUME NEW t \in Threads \ {s} PROVE Pending(t)'
  BY <1>2, <1>3, <1>5, PendingKept DEF BooksInv, PendingReconciles
<1>6. JournalReconciles' /\ HoldsReconcile'
  BY <1>1, <1>2 DEF BooksInv, JournalReconciles, HoldsReconcile
<1> QED
  BY <1>4, <1>5, <1>6 DEF BooksInv, PendingReconciles

(* No draft creates a contract, so committing one reserves nothing. *)
LEMMA DraftsHoldNothing ==
  ASSUME RowInv, NEW s \in Threads, NEW k
  PROVE  SumFunctionOnSet(HoldsOf(k, draft[s]), Recorded) = 0
<1> DEFINE f == HoldsOf(k, draft[s])
<1>1. /\ Recorded \in SUBSET Rows /\ IsFiniteSet(Recorded) /\ draft[s] \in Lists
  BY BooksFacts
<1>2. f \in [Rows -> Int]
  BY <1>1, BooksTyped
<1>3. ASSUME NEW r \in Recorded PROVE f[r] = 0
  <2>1. f[r] = HeldFor(k, r, draft[s][r])
    BY <1>1 DEF HoldsOf
  <2>2. CASE r \notin Escrows
    BY <2>1, <2>2 DEF HeldFor
  <2>3. CASE r \in Escrows
    <3>1. \A i \in DOMAIN draft[s][r] : draft[s][r][i] # "active"
      <4>1. CASE s \in Handlers
        <5>1. draft[s][r] = <<>> \/ draft[s][r] = <<"released">>
          BY <2>3, <4>1 DEF RowInv, ThreadInv, ContractHeld
        <5> QED
          BY <5>1
      <4>2. CASE s \in Checkers
        BY <2>3, <4>2 DEF RowInv, ThreadInv, ContractHeld
      <4> QED
        BY <4>1, <4>2 DEF Threads
    <3>2. Count(draft[s][r], "active") = 0
      BY <3>1, NotListed DEF Count
    <3>3. Terms[r].amount * 0 = 0
      BY <1>1, TermsTyped
    <3> QED
      BY <2>1, <3>2, <3>3 DEF HeldFor
  <2> QED
    BY <2>2, <2>3
<1> HIDE DEF f
<1>4. SumFunctionOnSet(f, Recorded) = 0
  BY <1>1, <1>2, <1>3, SumZero
<1> QED
  BY <1>4 DEF f

(* A commit moves what was pending into the books. *)
LEMMA CommitBooks ==
  ASSUME BooksInv, RowInv', Recorded' = Recorded, NEW s \in Threads, CommitSession(s)
  PROVE  BooksInv'
<1>1. /\ Recorded \in SUBSET Rows /\ IsFiniteSet(Recorded)
      /\ history \in Lists /\ history' \in Lists /\ draft[s] \in Lists
      /\ \A r \in Recorded : history'[r] = history[r] \o draft[s][r]
  BY BooksFacts, NextBooksFacts DEF BooksInv, CommitSession
<1>2. /\ draft'[s] = [r \in Rows |-> <<>>]
      /\ delta'[s] = NoEntries /\ freed'[s] = NoEntries
      /\ \A t \in Threads \ {s} : /\ draft'[t] = draft[t] /\ delta'[t] = delta[t]
                                   /\ freed'[t] = freed[t]
  BY TermsTyped DEF CommitSession, Commit, EndTransaction, EndSession, BooksInv,
     RowInv, EngineTypeOK, RowTypeOK, LedgerTypeOK
<1>3. Pending(s)'
  BY <1>2, PendingEnded
<1>4. ASSUME NEW t \in Threads \ {s} PROVE Pending(t)'
  BY <1>2, <1>4, PendingKept DEF BooksInv, PendingReconciles
<1>5. ASSUME NEW k \in Keys
      PROVE  /\ ledger'[k]
                  = Opening[k] + SumFunctionOnSet(MovesOf(k, history'), Recorded)
             /\ reserved'[k] = SumFunctionOnSet(HoldsOf(k, history'), Recorded)
             /\ released'[k] = SumFunctionOnSet(FreesOf(k, history'), Recorded)
  <2> DEFINE S == Recorded  a == history  b == draft[s]  c == history'
             am == SumFunctionOnSet(MovesOf(k, a), S)
             bm == SumFunctionOnSet(MovesOf(k, b), S)
             cm == SumFunctionOnSet(MovesOf(k, c), S)
             ah == SumFunctionOnSet(HoldsOf(k, a), S)
             bh == SumFunctionOnSet(HoldsOf(k, b), S)
             ch == SumFunctionOnSet(HoldsOf(k, c), S)
             af == SumFunctionOnSet(FreesOf(k, a), S)
             bf == SumFunctionOnSet(FreesOf(k, b), S)
             cf == SumFunctionOnSet(FreesOf(k, c), S)
  <2>1. cm = am + bm /\ ch = ah + bh /\ cf = af + bf
    <3>1. /\ S \in SUBSET Rows /\ IsFiniteSet(S)
          /\ a \in Lists /\ b \in Lists /\ c \in Lists
          /\ Joined(S, a, b, c)
      BY <1>1 DEF Joined
    <3> HIDE DEF S, a, b, c
    <3> QED
      BY <3>1, BooksConcat
  <2>2. /\ ledger[k] = Opening[k] + am /\ reserved[k] = ah /\ released[k] = af
        /\ delta[s][k] = bm /\ freed[s][k] = bf
    BY DEF BooksInv, JournalReconciles, HoldsReconcile, PendingReconciles, Pending
  <2>3. bh = 0
    BY DraftsHoldNothing DEF BooksInv
  <2>4. /\ ledger'[k] = ledger[k] + delta[s][k] /\ reserved'[k] = reserved[k]
        /\ released'[k] = released[k] + freed[s][k]
    BY DEF CommitSession, Commit
  <2>5. am \in Int /\ bm \in Int /\ ah \in Int
    <3>1. /\ MovesOf(k, a) \in [Rows -> Int] /\ MovesOf(k, b) \in [Rows -> Int]
          /\ HoldsOf(k, a) \in [Rows -> Int]
      BY <1>1, BooksTyped
    <3> QED
      BY <1>1, <3>1, SumType
  <2>6. Opening[k] \in Int
    BY OpeningAssumption
  <2> HIDE DEF am, bm, cm, ah, bh, ch, af, bf, cf
  <2>7. ledger'[k] = Opening[k] + cm /\ reserved'[k] = ch /\ released'[k] = cf
    BY <2>1, <2>2, <2>3, <2>4, <2>5, <2>6
  <2> QED
    BY <2>7 DEF am, bm, cm, ah, bh, ch, af, bf, cf
<1>6. JournalReconciles' /\ HoldsReconcile'
  BY <1>5 DEF JournalReconciles, HoldsReconcile
<1> QED
  BY <1>3, <1>4, <1>6 DEF BooksInv, PendingReconciles

(* The tables with one row more. *)
LEMMA PendingOnMoreRows ==
  ASSUME BooksInv, NEW r \in Rows \ Recorded, Recorded' = Recorded \cup {r},
         NEW t \in Threads, draft[t][r] = <<>>,
         draft'[t] = draft[t], delta'[t] = delta[t], freed'[t] = freed[t]
  PROVE  Pending(t)'
<1> SUFFICES ASSUME NEW k \in Keys
             PROVE  /\ delta[t][k]
                         = SumFunctionOnSet(MovesOf(k, draft[t]), Recorded \cup {r})
                    /\ freed[t][k]
                         = SumFunctionOnSet(FreesOf(k, draft[t]), Recorded \cup {r})
  BY DEF Pending
<1> DEFINE S == Recorded  a == draft[t]
           am == SumFunctionOnSet(MovesOf(k, a), S)
           af == SumFunctionOnSet(FreesOf(k, a), S)
<1>1. /\ S \in SUBSET Rows /\ IsFiniteSet(S) /\ a \in Lists
      /\ r \in Rows \ S /\ \A q \in S : a[q] = a[q] /\ a[r] = <<>>
  BY BooksFacts DEF BooksInv
<1>2. delta[t][k] = am /\ freed[t][k] = af
  BY DEF BooksInv, PendingReconciles, Pending
<1>3. am \in Int /\ af \in Int
  BY <1>2, BooksFacts, TermsTyped DEF BooksInv
<1>4. /\ SumFunctionOnSet(MovesOf(k, a), S \cup {r}) = am + MovedInto(k, r, a[r])
      /\ SumFunctionOnSet(FreesOf(k, a), S \cup {r}) = af + FreedFor(k, r, a[r])
  <2> HIDE DEF S, a
  <2> QED
    BY <1>1, BooksGrow
<1>5. MovedInto(k, r, a[r]) = 0 /\ FreedFor(k, r, a[r]) = 0
  BY <1>1, WorthEmpty
<1> HIDE DEF am, af, a, S
<1>6. /\ SumFunctionOnSet(MovesOf(k, a), S \cup {r}) = am
      /\ SumFunctionOnSet(FreesOf(k, a), S \cup {r}) = af
  BY <1>3, <1>4, <1>5
<1> QED
  BY <1>2, <1>6 DEF a, S

LEMMA HistoryOnMoreRows ==
  ASSUME BooksInv, RowInv', NEW r \in Rows \ Recorded, Recorded' = Recorded \cup {r},
         \A q \in Recorded : history'[q] = history[q],
         NEW x, history'[r] = <<x>>, NEW k \in Keys
  PROVE  /\ Opening[k] + SumFunctionOnSet(MovesOf(k, history'), Recorded')
              = ledger[k] + RowMoves(k, r, x)
         /\ SumFunctionOnSet(HoldsOf(k, history'), Recorded')
              = reserved[k] + RowHolds(k, r, x)
         /\ SumFunctionOnSet(FreesOf(k, history'), Recorded')
              = released[k] + RowFrees(k, r, x)
<1> DEFINE S == Recorded  a == history  c == history'
           am == SumFunctionOnSet(MovesOf(k, a), S)
           cm == SumFunctionOnSet(MovesOf(k, c), S \cup {r})
<1>1. /\ S \in SUBSET Rows /\ IsFiniteSet(S) /\ a \in Lists /\ c \in Lists
      /\ r \in Rows \ S /\ \A q \in S : c[q] = a[q]
  BY BooksFacts, NextBooksFacts DEF BooksInv
<1>2. /\ ledger[k] = Opening[k] + am
      /\ reserved[k] = SumFunctionOnSet(HoldsOf(k, a), S)
      /\ released[k] = SumFunctionOnSet(FreesOf(k, a), S)
  BY DEF BooksInv, JournalReconciles, HoldsReconcile
<1>3. /\ cm = am + MovedInto(k, r, c[r])
      /\ SumFunctionOnSet(HoldsOf(k, c), S \cup {r})
           = SumFunctionOnSet(HoldsOf(k, a), S) + HeldFor(k, r, c[r])
      /\ SumFunctionOnSet(FreesOf(k, c), S \cup {r})
           = SumFunctionOnSet(FreesOf(k, a), S) + FreedFor(k, r, c[r])
  <2> HIDE DEF S, a, c
  <2> QED
    BY <1>1, BooksGrow
<1>4. /\ MovedInto(k, r, c[r]) = RowMoves(k, r, x)
      /\ HeldFor(k, r, c[r]) = RowHolds(k, r, x)
      /\ FreedFor(k, r, c[r]) = RowFrees(k, r, x)
  BY WorthOne
<1>5. Opening[k] \in Int /\ am \in Int /\ RowMoves(k, r, x) \in Int
  <2>1. MovesOf(k, a) \in [Rows -> Int]
    BY <1>1, BooksTyped
  <2>2. am \in Int
    BY <1>1, <2>1, SumType
  <2> QED
    BY <2>2, OpeningAssumption, TermsTyped DEF RowMoves
<1> HIDE DEF am, cm
<1>6. Opening[k] + cm = ledger[k] + RowMoves(k, r, x)
  BY <1>2, <1>3, <1>4, <1>5
<1> QED
  BY <1>2, <1>3, <1>4, <1>6 DEF cm

LEMMA CreateConditionalPaymentBooks ==
  ASSUME BooksInv, NEW p \in Payments, CreateConditionalPayment(p)
  PROVE  BooksInv'
<1>0. RowInv
  BY DEF BooksInv
<1>1. /\ RowInv' /\ Recorded' = Recorded \cup {p} /\ p \notin Recorded
      /\ \A t \in Threads : draft[t][p] = <<>>
  BY <1>0, CreateConditionalPaymentPreserves
<1>2. p \in Rows \ Recorded
  BY <1>1, TermsTyped DEF Rows
<1>3. UNCHANGED <<ledger, delta, reserved, released, freed, draft>>
  BY DEF CreateConditionalPayment, ledgerVars, writeVars
<1>4. /\ \A q \in Recorded : history'[q] = history[q]
      /\ history'[p] = <<"pending">>
  BY <1>0, <1>1, <1>2 DEF CreateConditionalPayment, RowInv, EngineTypeOK, RowTypeOK
<1>5. PendingReconciles'
  BY <1>1, <1>2, <1>3, PendingOnMoreRows DEF PendingReconciles
<1>6. ASSUME NEW k \in Keys
      PROVE  /\ Opening[k] + SumFunctionOnSet(MovesOf(k, history'), Recorded')
                  = ledger[k] + RowMoves(k, p, "pending")
             /\ SumFunctionOnSet(HoldsOf(k, history'), Recorded')
                  = reserved[k] + RowHolds(k, p, "pending")
             /\ SumFunctionOnSet(FreesOf(k, history'), Recorded')
                  = released[k] + RowFrees(k, p, "pending")
  BY <1>1, <1>2, <1>4, HistoryOnMoreRows
<1>7. ASSUME NEW k \in Keys
      PROVE  /\ RowMoves(k, p, "pending") = 0 /\ RowHolds(k, p, "pending") = 0
             /\ RowFrees(k, p, "pending") = 0
             /\ ledger[k] \in Int /\ reserved[k] \in Int /\ released[k] \in Int
  BY <1>0, BooksFacts DEF RowMoves, RowHolds, RowFrees
<1>8. JournalReconciles' /\ HoldsReconcile'
  <2> SUFFICES ASSUME NEW k \in Keys
               PROVE  /\ ledger[k]
                           = Opening[k] + SumFunctionOnSet(MovesOf(k, history'), Recorded')
                      /\ reserved[k] = SumFunctionOnSet(HoldsOf(k, history'), Recorded')
                      /\ released[k] = SumFunctionOnSet(FreesOf(k, history'), Recorded')
    BY <1>3 DEF JournalReconciles, HoldsReconcile
  <2> QED
    BY <1>6, <1>7
<1> QED
  BY <1>1, <1>5, <1>8 DEF BooksInv

LEMMA CreateEscrowBooks ==
  ASSUME BooksInv, NEW s \in Handlers, CreateEscrow(s)
  PROVE  BooksInv'
<1> DEFINE e == at[s]
<1>0. RowInv /\ s \in Threads
  BY TermsTyped DEF BooksInv
<1>1. RowInv' /\ Recorded' = Recorded \cup {e} /\ e \notin Recorded
  BY <1>0, CreateEscrowPreserves
<1>2. /\ e \in Rows \ Recorded /\ e \in Escrows
      /\ \A r \in Rows : draft[s][r] = <<>>
  BY <1>0, <1>1, TermsTyped
  DEF CreateEscrow, RowInv, ThreadInv, CreatesAlone, Creating
<1>3. ASSUME NEW t \in Threads PROVE draft[t][e] = <<>>
  <2>1. DraftsLocked(t)
    BY <1>0 DEF RowInv, ThreadInv
  <2> QED
    BY <1>1, <1>2, <2>1 DEF DraftsLocked
<1>4. /\ draft'[s] = [r \in Rows |-> <<>>]
      /\ delta'[s] = NoEntries /\ freed'[s] = NoEntries
      /\ \A t \in Threads \ {s} : /\ draft'[t] = draft[t] /\ delta'[t] = delta[t]
                                   /\ freed'[t] = freed[t]
  BY <1>0, TermsTyped DEF CreateEscrow, Commit, EndTransaction, EndSession, RowInv,
     EngineTypeOK, RowTypeOK, LedgerTypeOK
<1>5. Pending(s)'
  BY <1>0, <1>1, <1>4, PendingEnded
<1>6. ASSUME NEW t \in Threads \ {s} PROVE Pending(t)'
  BY <1>1, <1>2, <1>3, <1>4, PendingOnMoreRows
<1>7. /\ \A q \in Recorded : history'[q] = history[q]
      /\ history'[e] = <<"active">>
  BY <1>0, <1>1, <1>2 DEF CreateEscrow, RowInv, EngineTypeOK, RowTypeOK
<1>8. ASSUME NEW k \in Keys
      PROVE  /\ Opening[k] + SumFunctionOnSet(MovesOf(k, history'), Recorded')
                  = ledger[k] + RowMoves(k, e, "active")
             /\ SumFunctionOnSet(HoldsOf(k, history'), Recorded')
                  = reserved[k] + RowHolds(k, e, "active")
             /\ SumFunctionOnSet(FreesOf(k, history'), Recorded')
                  = released[k] + RowFrees(k, e, "active")
  <2> HIDE DEF e
  <2> QED
    BY <1>1, <1>2, <1>7, HistoryOnMoreRows
<1>9. ASSUME NEW k \in Keys PROVE delta[s][k] = 0
  <2>1. delta[s][k] = SumFunctionOnSet(MovesOf(k, draft[s]), Recorded)
    BY <1>0 DEF BooksInv, PendingReconciles, Pending
  <2>2. /\ Recorded \in SUBSET Rows /\ IsFiniteSet(Recorded) /\ draft[s] \in Lists
        /\ \A r \in Recorded : draft[s][r] = <<>>
    BY <1>0, <1>2, BooksFacts
  <2> QED
    BY <2>1, <2>2, BooksEmpty
<1>10. ASSUME NEW k \in Keys
       PROVE  /\ RowMoves(k, e, "active") = 0 /\ RowFrees(k, e, "active") = 0
              /\ ledger[k] \in Int /\ reserved[k] \in Int /\ released[k] \in Int
              /\ ledger'[k] = ledger[k] + 0 /\ released'[k] = released[k]
              /\ reserved'[k] = reserved[k] + RowHolds(k, e, "active")
  <2>1. /\ RowMoves(k, e, "active") = 0 /\ RowFrees(k, e, "active") = 0
        /\ RowHolds(k, e, "active") = IF Terms[e].debit = k THEN Terms[e].amount ELSE 0
    BY <1>2 DEF RowMoves, RowHolds, RowFrees
  <2>2. ledger[k] \in Int /\ reserved[k] \in Int /\ released[k] \in Int
    BY <1>0, BooksFacts
  <2>3. ledger'[k] = ledger[k] + 0 /\ released'[k] = released[k]
    BY <1>9 DEF CreateEscrow, Commit
  <2>4. reserved'[k] = reserved[k] + (IF Terms[e].debit = k THEN Terms[e].amount ELSE 0)
    BY <1>0, <1>2, <2>2, BooksFacts, TermsTyped DEF CreateEscrow
  <2> QED
    BY <2>1, <2>2, <2>3, <2>4
<1>11. JournalReconciles' /\ HoldsReconcile'
  <2> SUFFICES ASSUME NEW k \in Keys
               PROVE  /\ ledger'[k]
                           = Opening[k] + SumFunctionOnSet(MovesOf(k, history'), Recorded')
                      /\ reserved'[k] = SumFunctionOnSet(HoldsOf(k, history'), Recorded')
                      /\ released'[k] = SumFunctionOnSet(FreesOf(k, history'), Recorded')
    BY DEF JournalReconciles, HoldsReconcile
  <2> HIDE DEF e
  <2> QED
    BY <1>8, <1>10
<1> QED
  BY <1>1, <1>5, <1>6, <1>11 DEF BooksInv, PendingReconciles

LEMMA RefundDepositorBooks ==
  ASSUME BooksInv, NEW e \in Escrows, RefundDepositor(e)
  PROVE  BooksInv'
<1>0. RowInv
  BY DEF BooksInv
<1>1. RowInv' /\ Recorded' = Recorded /\ e \in Recorded
  BY <1>0, RefundDepositorPreserves
<1>2. UNCHANGED <<ledger, delta, reserved, freed, draft>>
  BY DEF RefundDepositor, ledgerVars, writeVars
<1>3. PendingReconciles'
  BY <1>1, <1>2, PendingKept DEF BooksInv, PendingReconciles
<1>4. ASSUME NEW k \in Keys
      PROVE  /\ ledger[k]
                  = Opening[k] + SumFunctionOnSet(MovesOf(k, history'), Recorded)
             /\ reserved[k] = SumFunctionOnSet(HoldsOf(k, history'), Recorded)
             /\ released'[k] = SumFunctionOnSet(FreesOf(k, history'), Recorded)
  <2> DEFINE S == Recorded  a == history  c == history'  x == "refunded"
             am == SumFunctionOnSet(MovesOf(k, a), S)
             cm == SumFunctionOnSet(MovesOf(k, c), S)
             ah == SumFunctionOnSet(HoldsOf(k, a), S)
             ch == SumFunctionOnSet(HoldsOf(k, c), S)
             af == SumFunctionOnSet(FreesOf(k, a), S)
             cf == SumFunctionOnSet(FreesOf(k, c), S)
  <2>1. /\ S \in SUBSET Rows /\ IsFiniteSet(S) /\ a \in Lists /\ c \in Lists
        /\ e \in S /\ x \in Statuses
    BY <1>0, <1>1, BooksFacts, NextBooksFacts DEF Statuses
  <2>2. c[e] = Append(a[e], x) /\ \A q \in S \ {e} : c[q] = a[q]
    BY <2>1 DEF RefundDepositor, Lists
  <2>3. /\ ledger[k] = Opening[k] + am /\ reserved[k] = ah /\ released[k] = af
    BY DEF BooksInv, JournalReconciles, HoldsReconcile
  <2>4. /\ RowMoves(k, e, x) = 0 /\ RowHolds(k, e, x) = 0
        /\ RowFrees(k, e, x) = IF Terms[e].debit = k THEN Terms[e].amount ELSE 0
    BY DEF RowMoves, RowHolds, RowFrees
  <2>5. released'[k] = released[k] + RowFrees(k, e, x)
    BY <1>0, <2>1, <2>4, BooksFacts, TermsTyped DEF RefundDepositor
  <2>6. am \in Int /\ ah \in Int
    <3>1. MovesOf(k, a) \in [Rows -> Int] /\ HoldsOf(k, a) \in [Rows -> Int]
      BY <2>1, BooksTyped
    <3> QED
      BY <2>1, <3>1, SumType
  <2> HIDE DEF S, a, c, x
  <2>7. /\ cm = am + RowMoves(k, e, x) /\ ch = ah + RowHolds(k, e, x)
        /\ cf = af + RowFrees(k, e, x)
    BY <2>1, <2>2, BooksAppend
  <2> HIDE DEF am, cm, ah, ch, af, cf
  <2>8. ledger[k] = Opening[k] + cm /\ reserved[k] = ch /\ released'[k] = cf
    BY <2>3, <2>4, <2>5, <2>6, <2>7
  <2> QED
    BY <2>8 DEF cm, ch, cf, c, S
<1>5. JournalReconciles' /\ HoldsReconcile'
  BY <1>1, <1>2, <1>4 DEF JournalReconciles, HoldsReconcile
<1> QED
  BY <1>1, <1>3, <1>5 DEF BooksInv

(* A row a transfer works on is on record. *)
LEMMA WrittenRows ==
  ASSUME RowInv, NEW s \in Threads,
         pc[s] \in {"execute", "fail", "pay", "expire"} \/ at[s] \in Payments
  PROVE  at[s] \in Recorded /\ at[s] \in Rows
BY TermsTyped, EngineAssumption
DEF RowInv, ThreadInv, AtItsRow, Creating, EngineTypeOK, RowTypeOK, Rows

LEMMA StatusRowBooks ==
  ASSUME BooksInv, NEW s \in Threads, BeginExecution(s) \/ FailExpired(s), RowInv'
  PROVE  BooksInv'
<1>1. PICK new \in {"processing", "failed"} : WriteStatus(s, at[s], new)
  BY DEF BeginExecution, FailExpired
<1>2. at[s] \in Recorded
  BY WrittenRows DEF BooksInv, BeginExecution, FailExpired
<1>3. UNCHANGED <<ledger, delta, reserved, released, history, freed>>
  BY DEF BeginExecution, FailExpired, ledgerVars, tableVars
<1>4. ASSUME NEW k \in Keys
      PROVE  /\ delta'[s][k] = delta[s][k] + RowMoves(k, at[s], new)
             /\ freed'[s][k] = freed[s][k] + RowFrees(k, at[s], new)
  <2>1. RowMoves(k, at[s], new) = 0 /\ RowFrees(k, at[s], new) = 0
    BY <1>1 DEF RowMoves, RowFrees
  <2>2. delta[s][k] \in Int /\ freed[s][k] \in Int
    BY BooksFacts DEF BooksInv
  <2> QED
    BY <1>3, <2>1, <2>2
<1>5. new \in Statuses
  BY <1>1 DEF Statuses
<1> QED
  BY <1>1, <1>2, <1>3, <1>4, <1>5, WriteBooks

(* The entries of a journal pair are what the status row is worth. *)
LEMMA PairIsRowMoves ==
  ASSUME RowInv, NEW s \in Threads, NEW r \in Rows, NEW x \in {"completed", "released"},
         delta' = PairEntries(s, Terms[r].debit, Terms[r].credit, Terms[r].amount)
  PROVE  /\ \A t \in Threads \ {s} : delta'[t] = delta[t]
         /\ \A k \in Keys : delta'[s][k] = delta[s][k] + RowMoves(k, r, x)
<1> DEFINE d == Terms[r].debit  c == Terms[r].credit  n == Terms[r].amount
<1>1. /\ LedgerTypeOK /\ d \in Keys /\ c \in Keys /\ n \in Int
      /\ Threads \subseteq Sessions /\ s \in Sessions
  BY TermsTyped DEF RowInv, EngineTypeOK
<1>2. /\ \A t \in Sessions \ {s} : delta'[t] = delta[t]
      /\ \A k \in Keys : delta'[s][k] = delta[s][k] - (IF k = d THEN n ELSE 0)
                                                  + (IF k = c THEN n ELSE 0)
  <2> HIDE DEF d, c, n
  <2>1. delta' = PairEntries(s, d, c, n)
    BY DEF d, c, n
  <2> QED
    BY <1>1, <2>1 DEF PairEntries, LedgerTypeOK
<1>3. \A k \in Keys : RowMoves(k, r, x) = (IF c = k THEN n ELSE 0) - (IF d = k THEN n ELSE 0)
  BY DEF RowMoves
<1>4. \A k \in Keys : delta[s][k] \in Int
  BY <1>1, BooksFacts
<1> HIDE DEF d, c, n
<1> QED
  BY <1>1, <1>2, <1>3, <1>4

(* The release hold of a contract is what its status row is worth. *)
LEMMA HoldIsRowFrees ==
  ASSUME RowInv, NEW s \in Threads, NEW e \in Escrows, NEW x \in {"released", "expired"},
         freed' = [freed EXCEPT ![s][Terms[e].debit] = @ + Terms[e].amount]
  PROVE  /\ \A t \in Threads \ {s} : freed'[t] = freed[t]
         /\ \A k \in Keys : freed'[s][k] = freed[s][k] + RowFrees(k, e, x)
<1> DEFINE d == Terms[e].debit  n == Terms[e].amount
<1>1. /\ d \in Keys /\ n \in Int /\ freed \in [Threads -> [Keys -> Nat]]
  BY TermsTyped, BooksFacts
<1>2. freed' = [freed EXCEPT ![s][d] = @ + n]
  OBVIOUS
<1>3. \A k \in Keys : RowFrees(k, e, x) = IF d = k THEN n ELSE 0
  BY DEF RowFrees
<1> HIDE DEF d, n
<1>4. \A t \in Threads \ {s} : freed'[t] = freed[t]
  BY <1>1, <1>2
<1>5. ASSUME NEW k \in Keys PROVE freed'[s][k] = freed[s][k] + RowFrees(k, e, x)
  <2>1. freed'[s][k] = IF k = d THEN freed[s][d] + n ELSE freed[s][k]
    BY <1>1, <1>2
  <2>2. freed[s][k] \in Int
    BY <1>1
  <2> QED
    BY <1>3, <2>1, <2>2
<1> QED
  BY <1>4, <1>5

LEMMA CompletePaymentBooks ==
  ASSUME BooksInv, NEW s \in Threads, CompletePayment(s), RowInv'
  PROVE  BooksInv'
<1> DEFINE r == at[s]
<1>0. RowInv
  BY DEF BooksInv
<1>1. r \in Recorded /\ r \in Rows
  BY <1>0, WrittenRows DEF CompletePayment
<1>2. /\ delta' = PairEntries(s, Terms[r].debit, Terms[r].credit, Terms[r].amount)
      /\ WriteStatus(s, r, "completed") /\ freed' = freed
      /\ UNCHANGED <<ledger, reserved, released, history>>
  BY DEF CompletePayment, RecordJournalPair, tableVars
<1>3. /\ \A t \in Threads \ {s} : delta'[t] = delta[t]
      /\ \A k \in Keys : delta'[s][k] = delta[s][k] + RowMoves(k, r, "completed")
  <2> HIDE DEF r
  <2> QED
    BY <1>0, <1>1, <1>2, PairIsRowMoves
<1>4. ASSUME NEW k \in Keys
      PROVE  freed'[s][k] = freed[s][k] + RowFrees(k, r, "completed")
  <2>1. RowFrees(k, r, "completed") = 0 /\ freed[s][k] \in Int
    BY <1>0, BooksFacts DEF RowFrees
  <2> QED
    BY <1>2, <2>1
<1>5. "completed" \in Statuses
  BY DEF Statuses
<1> QED
  BY <1>1, <1>2, <1>3, <1>4, <1>5, WriteBooks

LEMMA PayBeneficiaryBooks ==
  ASSUME BooksInv, NEW s \in Threads, PayBeneficiary(s), RowInv'
  PROVE  BooksInv'
<1> DEFINE r == at[s]
<1>0. RowInv
  BY DEF BooksInv
<1>1. r \in Recorded /\ r \in Rows /\ r \in Escrows
  BY <1>0, WrittenRows DEF PayBeneficiary, RowInv, ThreadInv, AtItsRow
<1>2. /\ delta' = PairEntries(s, Terms[r].debit, Terms[r].credit, Terms[r].amount)
      /\ freed' = [freed EXCEPT ![s][Terms[r].debit] = @ + Terms[r].amount]
      /\ WriteStatus(s, r, "released")
      /\ UNCHANGED <<ledger, reserved, released, history>>
  BY DEF PayBeneficiary, tableVars
<1>3. /\ \A t \in Threads \ {s} : delta'[t] = delta[t] /\ freed'[t] = freed[t]
      /\ \A k \in Keys : /\ delta'[s][k] = delta[s][k] + RowMoves(k, r, "released")
                         /\ freed'[s][k] = freed[s][k] + RowFrees(k, r, "released")
  <2> HIDE DEF r
  <2> QED
    BY <1>0, <1>1, <1>2, PairIsRowMoves, HoldIsRowFrees
<1>4. "released" \in Statuses
  BY DEF Statuses
<1> QED
  BY <1>1, <1>2, <1>3, <1>4, WriteBooks

LEMMA ExpireEscrowBooks ==
  ASSUME BooksInv, NEW s \in Threads, ExpireEscrow(s), RowInv'
  PROVE  BooksInv'
<1> DEFINE r == at[s]
<1>0. RowInv
  BY DEF BooksInv
<1>1. r \in Recorded /\ r \in Rows /\ r \in Escrows
  BY <1>0, WrittenRows DEF ExpireEscrow, RowInv, ThreadInv, AtItsRow
<1>2. /\ freed' = [freed EXCEPT ![s][Terms[r].debit] = @ + Terms[r].amount]
      /\ WriteStatus(s, r, "expired") /\ delta' = delta
      /\ UNCHANGED <<ledger, reserved, released, history>>
  BY DEF ExpireEscrow, tableVars, ledgerVars
<1>3. /\ \A t \in Threads \ {s} : freed'[t] = freed[t]
      /\ \A k \in Keys : freed'[s][k] = freed[s][k] + RowFrees(k, r, "expired")
  <2> HIDE DEF r
  <2> QED
    BY <1>0, <1>1, <1>2, HoldIsRowFrees
<1>4. ASSUME NEW k \in Keys
      PROVE  delta'[s][k] = delta[s][k] + RowMoves(k, r, "expired")
  <2>1. RowMoves(k, r, "expired") = 0 /\ delta[s][k] \in Int
    BY <1>0, BooksFacts DEF RowMoves
  <2> QED
    BY <1>2, <2>1
<1>5. "expired" \in Statuses
  BY DEF Statuses
<1> QED
  BY <1>1, <1>2, <1>3, <1>4, <1>5, WriteBooks

LEMMA InitBooks == Init => BooksInv
<1> SUFFICES ASSUME Init PROVE BooksInv
  OBVIOUS
<1>1. RowInv
  BY InitRows
<1>2. /\ \A r \in Recorded : history[r] = <<>>
      /\ \A s \in Threads : \A r \in Recorded : draft[s][r] = <<>>
  BY DEF Init, Recorded
<1>3. /\ Recorded \in SUBSET Rows /\ IsFiniteSet(Recorded) /\ history \in Lists
      /\ \A s \in Threads : draft[s] \in Lists
  BY <1>1, BooksFacts
<1>4. ASSUME NEW k \in Keys
      PROVE  /\ SumFunctionOnSet(MovesOf(k, history), Recorded) = 0
             /\ SumFunctionOnSet(HoldsOf(k, history), Recorded) = 0
             /\ SumFunctionOnSet(FreesOf(k, history), Recorded) = 0
  BY <1>2, <1>3, BooksEmpty
<1>5. ASSUME NEW k \in Keys, NEW s \in Threads
      PROVE  /\ SumFunctionOnSet(MovesOf(k, draft[s]), Recorded) = 0
             /\ SumFunctionOnSet(FreesOf(k, draft[s]), Recorded) = 0
  BY <1>2, <1>3, BooksEmpty
<1>6. /\ \A k \in Keys : /\ ledger[k] = Opening[k] + 0
                         /\ reserved[k] = 0 /\ released[k] = 0
      /\ \A s \in Threads, k \in Keys : delta[s][k] = 0 /\ freed[s][k] = 0
  BY OpeningAssumption, TermsTyped DEF Init, LedgerInit, NoEntries
<1> QED
  BY <1>1, <1>4, <1>5, <1>6
  DEF BooksInv, PendingReconciles, Pending, JournalReconciles, HoldsReconcile

(* Every step of the engine keeps the books. *)
LEMMA NextPreservesBooks == BooksInv /\ [Next]_vars => BooksInv'
<1> SUFFICES ASSUME BooksInv, [Next]_vars PROVE BooksInv'
  OBVIOUS
<1>0. /\ RowInv /\ RowInv'
      /\ Handlers \subseteq Threads /\ Checkers \subseteq Threads
  BY NextPreservesRows, TermsTyped DEF BooksInv
<1> DEFINE Quiet ==
      UNCHANGED <<ledger, delta, reserved, released, history, freed, draft>>
<1>1. ASSUME NEW s \in Threads, TransferStep(s) PROVE BooksInv'
  <2>1. CASE LockDebited(s) \/ ReadBalance(s) \/ ReadHeld(s) \/ ReadReleased(s)
    <3>1. Quiet
      BY <2>1 DEF LockDebited, ReadBalance, ReadHeld, ReadReleased, AcquireBalanceLock,
         GetBalance, tableVars, writeVars
    <3> QED
      BY <1>0, <3>1, QuietBooks
  <2>2. CASE Refuse(s) \/ DeadlockVictim(s)
    BY <1>0, <2>2, RollbackBooks DEF Refuse, DeadlockVictim
  <2> QED
    BY <1>0, <1>1, <2>1, <2>2, StatusRowBooks, CompletePaymentBooks DEF TransferStep
<1>2. ASSUME NEW s \in Threads, CommitSession(s) PROVE BooksInv'
  <2>1. EngineTypeOK'
    BY <1>0 DEF RowInv
  <2>2. Recorded' = Recorded
    BY <1>0, <1>2, <2>1, CommitStep
  <2> QED
    BY <1>0, <1>2, <2>2, CommitBooks
<1>3. ASSUME NEW s \in Handlers, HandlerStep(s) PROVE BooksInv'
  BY <1>0, <1>1, <1>2, <1>3, CreateEscrowBooks, PayBeneficiaryBooks, RollbackBooks
  DEF HandlerStep, RejectedByCheck, CommitRequest
<1>4. ASSUME NEW s \in Checkers, CheckerStep(s) PROVE BooksInv'
  <2>1. CASE \/ BeginPass(s) \/ SelectExpiredEscrows(s)
             \/ \E p \in Payments : TakePayment(s, p)
             \/ \E e \in Escrows : TakeEscrow(s, e)
    <3>1. Quiet
      BY <2>1 DEF BeginPass, SelectExpiredEscrows, TakePayment, TakeEscrow,
         ledgerVars, tableVars, writeVars
    <3> QED
      BY <1>0, <3>1, QuietBooks
  <2> QED
    BY <1>0, <1>1, <1>2, <1>4, <2>1, StatusRowBooks, ExpireEscrowBooks
    DEF CheckerStep, CommitPass
<1>5. CASE NewRequest
  <2>1. CASE \/ \E p \in Payments, data \in Evidence : TriggerUnsatisfied(p, data)
             \/ \E s \in Handlers, p \in Payments, data \in Evidence : Trigger(s, p, data)
             \/ \E s \in Handlers, e \in Escrows : BeginReserve(s, e) \/ BeginRelease(s, e)
             \/ \E e \in Escrows : ReleaseTooLate(e)
    <3>1. Quiet
      BY <2>1 DEF TriggerUnsatisfied, Trigger, BeginReserve, BeginRelease,
         ReleaseTooLate, ledgerVars, tableVars, writeVars
    <3> QED
      BY <1>0, <3>1, QuietBooks
  <2> QED
    BY <1>5, <2>1, CreateConditionalPaymentBooks, RefundDepositorBooks DEF NewRequest
<1>6. ASSUME NEW s \in Threads, Crash(s) PROVE BooksInv'
  BY <1>0, <1>6, RollbackBooks DEF Crash
<1>7. CASE Tick \/ UNCHANGED vars
  <2>1. Quiet
    BY <1>7 DEF Tick, vars, ledgerVars, tableVars, writeVars
  <2> QED
    BY <1>0, <2>1, QuietBooks
<1> QED
  BY <1>3, <1>4, <1>5, <1>6, <1>7 DEF Next

(* The engine's books: what is on record and what a thread has written and *)
(* not committed both reconcile with the status rows, for every thread.    *)
THEOREM EngineBooks == Spec => []BooksInv
BY InitBooks, NextPreservesBooks, PTL DEF Spec

(* JournalReconciles: every balance is the opening balance plus exactly    *)
(* the executions and releases on record, through every rollback, crash    *)
(* and lock cycle, however many payments, contracts and threads there are. *)
THEOREM EngineJournalReconciles == Spec => []JournalReconciles
<1>1. BooksInv => JournalReconciles
  BY DEF BooksInv
<1> QED
  BY <1>1, EngineBooks, PTL

(* HoldsReconcile: escrow_holds has one reserve per contract and one       *)
(* release per time a contract was released, refunded or expired, the      *)
(* double expiry of _check_conditions included.                            *)
THEOREM EngineHoldsReconcile == Spec => []HoldsReconcile
<1>1. BooksInv => HoldsReconcile
  BY DEF BooksInv
<1> QED
  BY <1>1, EngineBooks, PTL

-----------------------------------------------------------------------------
(* How far an account can be overdrawn.  A release of an escrow debits the *)
(* depositor without looking at the balance, so NoOverdraft is not an      *)
(* invariant of the engine (MCEngineOverdraft.cfg).  But each debit that   *)
(* is not checked comes with a release row in escrow_holds, and every      *)
(* other debit is checked under the lock: the release rows bound the debt. *)

(* What session s would find of key k, had nothing been reserved. *)
Purse(s, k) == ledger[k] + delta[s][k] + released[k] + freed[s][k]

(* A thread at one of these labels of a conditional payment. *)
Paying(s, labels) == pc[s] \in labels /\ at[s] \in Payments

(* What a thread is about to spend is locked and there. *)
Covered(s) ==
  /\ \A k \in Keys : delta[s][k] < 0 => holder[k] = s
  /\ \A k \in Liabilities : Purse(s, k) >= 0
  /\ pc[s] = "idle" \/ Creating(s) => \A k \in Keys : delta[s][k] = 0 /\ freed[s][k] = 0
  /\ Paying(s, {"balance", "held", "released", "act"}) => holder[Terms[at[s]].debit] = s
  /\ Paying(s, {"held", "released"}) =>
       seen[s].balance <= ledger[Terms[at[s]].debit] + delta[s][Terms[at[s]].debit]
  /\ Paying(s, {"act"}) => seen[s].balance <= Purse(s, Terms[at[s]].debit)

DebtInv == OverdraftBounded /\ \A s \in Threads : Covered(s)

(* The numbers of a thread. *)
LEMMA PurseTypes ==
  ASSUME EngineTypeOK
  PROVE  /\ \A k \in Keys : ledger[k] \in Int /\ released[k] \in Nat /\ reserved[k] \in Nat
         /\ \A s \in Threads, k \in Keys : delta[s][k] \in Int /\ freed[s][k] \in Nat
         /\ \A s \in Threads : seen[s].balance \in Int
         /\ Liabilities \subseteq Keys
BY TermsTyped DEF EngineTypeOK, LedgerTypeOK, RowTypeOK, Keys

LEMMA NextPurseTypes ==
  ASSUME EngineTypeOK'
  PROVE  /\ \A k \in Keys : ledger'[k] \in Int /\ released'[k] \in Nat
         /\ \A s \in Threads, k \in Keys : delta'[s][k] \in Int /\ freed'[s][k] \in Nat
         /\ \A s \in Threads : seen'[s].balance \in Int
BY TermsTyped DEF EngineTypeOK, LedgerTypeOK, RowTypeOK

(* A step leaves thread t and the keys it has locked alone. *)
Spared(t) ==
  /\ delta'[t] = delta[t] /\ freed'[t] = freed[t] /\ seen'[t] = seen[t]
  /\ pc'[t] = pc[t] /\ at'[t] = at[t]
  /\ \A k \in Keys : holder[k] = t =>
       holder'[k] = t /\ ledger'[k] >= ledger[k] /\ released'[k] >= released[k]

(* Then it is covered as before. *)
LEMMA SparedCovered ==
  ASSUME RowInv, EngineTypeOK', NEW t \in Threads, Covered(t), Spared(t), OverdraftBounded'
  PROVE  Covered(t)'
<1> DEFINE k == Terms[at[t]].debit
<1>0. /\ \A n \in Keys : ledger[n] \in Int /\ released[n] \in Nat
      /\ \A n \in Keys : delta[t][n] \in Int /\ freed[t][n] \in Nat
      /\ seen[t].balance \in Int /\ Liabilities \subseteq Keys
  BY PurseTypes DEF RowInv
<1>1. \A n \in Keys : ledger'[n] \in Int /\ released'[n] \in Nat
  BY NextPurseTypes
<1>2. \A n \in Keys : delta'[t][n] < 0 => holder'[n] = t
  BY DEF Covered, Spared
<1>3. ASSUME NEW n \in Liabilities PROVE Purse(t, n)' >= 0
  <2>1. CASE holder[n] = t
    <3>1. Purse(t, n) >= 0 /\ ledger'[n] >= ledger[n] /\ released'[n] >= released[n]
      BY <1>0, <2>1 DEF Covered, Spared
    <3> QED
      BY <1>0, <1>1, <3>1 DEF Purse, Spared
  <2>2. CASE holder[n] # t
    <3>1. delta[t][n] >= 0 /\ ledger'[n] + released'[n] >= 0
      BY <1>0, <2>2 DEF Covered, OverdraftBounded
    <3> QED
      BY <1>0, <1>1, <3>1 DEF Purse, Spared
  <2> QED
    BY <2>1, <2>2
<1>4. (pc[t] = "idle" \/ Creating(t))' => \A n \in Keys : delta'[t][n] = 0 /\ freed'[t][n] = 0
  BY DEF Covered, Spared, Creating
<1>5. ASSUME Paying(t, {"balance", "held", "released", "act"})
      PROVE  /\ k \in Keys /\ holder[k] = t /\ holder'[k] = t
             /\ ledger'[k] >= ledger[k] /\ released'[k] >= released[k]
  <2>1. k \in Keys
    BY <1>5, TermsTyped DEF Paying
  <2> QED
    BY <1>5, <2>1 DEF Covered, Spared
<1>6. \A labels : Paying(t, labels)' <=> Paying(t, labels)
  BY DEF Paying, Spared
<1>7. Paying(t, {"held", "released"}) => Paying(t, {"balance", "held", "released", "act"})
  BY DEF Paying
<1>8. Paying(t, {"act"}) => Paying(t, {"balance", "held", "released", "act"})
  BY DEF Paying
<1>9. ASSUME Paying(t, {"held", "released"}) PROVE seen'[t].balance <= ledger'[k] + delta'[t][k]
  <2>1. seen[t].balance <= ledger[k] + delta[t][k]
    BY <1>9 DEF Covered
  <2> QED
    BY <1>0, <1>1, <1>5, <1>7, <1>9, <2>1 DEF Spared
<1>10. ASSUME Paying(t, {"act"}) PROVE seen'[t].balance <= Purse(t, k)'
  <2>1. seen[t].balance <= Purse(t, k)
    BY <1>10 DEF Covered
  <2>2. /\ k' = k /\ seen'[t] = seen[t] /\ delta'[t] = delta[t] /\ freed'[t] = freed[t]
    BY DEF Spared
  <2> HIDE DEF k
  <2> QED
    BY <1>0, <1>1, <1>5, <1>8, <1>10, <2>1, <2>2 DEF Purse
<1>11. k' = k
  BY DEF Spared
<1> QED
  BY <1>2, <1>3, <1>4, <1>5, <1>6, <1>7, <1>8, <1>9, <1>10, <1>11 DEF Covered

(* The labels at which DebtInv says something of a thread's purse. *)
PurseLabels == {"idle", "balance", "held", "released", "act"}

(* The steps that leave the journal alone: release rows only add up. *)
LEMMA QuietDebt ==
  ASSUME RowInv, EngineTypeOK', DebtInv, UNCHANGED ledgerVars,
         \A k \in Keys : released'[k] >= released[k],
         \A t \in Threads :
           \/ pc'[t] = pc[t] /\ at'[t] = at[t] /\ freed'[t] = freed[t]
           \/ pc'[t] \notin PurseLabels /\ \A k \in Keys : freed'[t][k] >= freed[t][k]
  PROVE  DebtInv'
<1>0. /\ \A n \in Keys : ledger[n] \in Int /\ released[n] \in Nat
      /\ \A t \in Threads, n \in Keys : delta[t][n] \in Int /\ freed[t][n] \in Nat
      /\ Liabilities \subseteq Keys
  BY PurseTypes DEF RowInv
<1>1. /\ \A n \in Keys : ledger'[n] \in Int /\ released'[n] \in Nat
      /\ \A t \in Threads, n \in Keys : delta'[t][n] \in Int /\ freed'[t][n] \in Nat
  BY NextPurseTypes
<1>2. ledger' = ledger /\ delta' = delta /\ holder' = holder /\ seen' = seen
  BY DEF ledgerVars
<1>3. OverdraftBounded'
  BY <1>0, <1>1, <1>2 DEF DebtInv, OverdraftBounded
<1>4. ASSUME NEW t \in Threads PROVE Covered(t)'
  <2>1. CASE pc'[t] = pc[t] /\ at'[t] = at[t] /\ freed'[t] = freed[t]
    <3>1. Spared(t)
      BY <1>0, <1>2, <2>1 DEF Spared
    <3> QED
      BY <1>3, <3>1, SparedCovered DEF DebtInv
  <2>2. CASE pc'[t] \notin PurseLabels /\ \A k \in Keys : freed'[t][k] >= freed[t][k]
    <3>1. \A k \in Keys : delta'[t][k] < 0 => holder'[k] = t
      BY <1>2 DEF DebtInv, Covered
    <3>2. ASSUME NEW k \in Liabilities PROVE Purse(t, k)' >= 0
      <4>1. Purse(t, k) >= 0 /\ k \in Keys
        BY <1>0 DEF DebtInv, Covered
      <4> QED
        BY <1>0, <1>1, <1>2, <2>2, <4>1 DEF Purse
    <3>3. ~(pc[t] = "idle" \/ Creating(t))'
      BY <2>2 DEF Creating, PurseLabels
    <3>4. /\ ~Paying(t, {"balance", "held", "released", "act"})'
          /\ ~Paying(t, {"held", "released"})' /\ ~Paying(t, {"act"})'
      BY <2>2 DEF Paying, PurseLabels
    <3> QED
      BY <3>1, <3>2, <3>3, <3>4 DEF Covered
  <2> QED
    BY <2>1, <2>2
<1> QED
  BY <1>3, <1>4 DEF DebtInv

(* The steps of one thread that may touch the journal. *)
LEMMA OwnDebt ==
  ASSUME RowInv, EngineTypeOK', DebtInv, NEW s \in Threads, Covered(s)',
         OverdraftBounded', \A t \in Threads \ {s} : Spared(t)
  PROVE  DebtInv'
<1>1. ASSUME NEW t \in Threads \ {s} PROVE Covered(t)'
  BY SparedCovered DEF DebtInv
<1> QED
  BY <1>1 DEF DebtInv

(* While only thread s reads or locks. *)
LEMMA ReadingDebt ==
  ASSUME RowInv, EngineTypeOK', DebtInv, NEW s \in Threads, Covered(s)',
         ledger' = ledger, delta' = delta, released' = released, freed' = freed,
         \A t \in Threads \ {s} : seen'[t] = seen[t] /\ pc'[t] = pc[t] /\ at'[t] = at[t],
         \A k \in Keys : holder'[k] # holder[k] => holder[k] = NoOne
  PROVE  DebtInv'
<1>0. /\ \A n \in Keys : ledger[n] \in Int /\ released[n] \in Nat
  BY PurseTypes DEF RowInv
<1>1. OverdraftBounded'
  BY DEF DebtInv, OverdraftBounded
<1>2. ASSUME NEW t \in Threads \ {s} PROVE Spared(t)
  <2>1. \A k \in Keys : holder[k] = t =>
          holder'[k] = t /\ ledger'[k] >= ledger[k] /\ released'[k] >= released[k]
    BY <1>0, TermsTyped
  <2> QED
    BY <2>1 DEF Spared
<1> QED
  BY <1>1, <1>2, OwnDebt

(* The advisory lock of the debited key. *)
LEMMA LockDebitedDebt ==
  ASSUME RowInv, EngineTypeOK', DebtInv, NEW s \in Threads, LockDebited(s)
  PROVE  DebtInv'
<1> DEFINE k == Terms[at[s]].debit
<1>0. /\ LedgerTypeOK /\ RowTypeOK /\ pc[s] = "lock" /\ at[s] \in Payments /\ k \in Keys
      /\ Payments \cap Escrows = {}
  BY ThreadFacts, TermsTyped DEF AtItsRow, LockDebited
<1>1. /\ holder[k] \in {NoOne, s} /\ holder' = [holder EXCEPT ![k] = s]
      /\ ledger' = ledger /\ delta' = delta /\ seen' = seen
      /\ at' = at /\ released' = released /\ freed' = freed
  BY DEF LockDebited, AcquireBalanceLock, tableVars, writeVars
<1>2. pc'[s] = "balance" /\ \A t \in Threads \ {s} : pc'[t] = pc[t]
  BY <1>0, GotoEffect DEF LockDebited, Labels
<1>3. holder'[k] = s /\ \A n \in Keys : n # k => holder'[n] = holder[n]
  BY <1>0, <1>1 DEF LedgerTypeOK
<1>4. Covered(s)'
  <2>1. Covered(s)
    BY DEF DebtInv
  <2>2. \A n \in Keys : delta'[s][n] < 0 => holder'[n] = s
    BY <1>1, <1>3, <2>1 DEF Covered
  <2>3. \A n \in Liabilities : Purse(s, n)' >= 0
    BY <1>1, <2>1 DEF Covered, Purse
  <2>4. ~(pc[s] = "idle" \/ Creating(s))' /\ ~Paying(s, {"held", "released"})' /\ ~Paying(s, {"act"})'
    BY <1>2 DEF Creating, Paying
  <2> QED
    BY <1>1, <1>3, <2>2, <2>3, <2>4 DEF Covered
<1>5. \A n \in Keys : holder'[n] # holder[n] => holder[n] = NoOne
  BY <1>1, <1>3
<1> QED
  BY <1>1, <1>2, <1>4, <1>5, ReadingDebt

(* What Covered says of a thread that has just read. *)
LEMMA ReaderCovered ==
  ASSUME RowInv, EngineTypeOK', DebtInv, NEW s \in Threads,
         ledger' = ledger, delta' = delta, holder' = holder, released' = released,
         freed' = freed, at' = at, pc[s] # "idle", pc'[s] # "idle",
         Creating(s)' => Creating(s),
         Paying(s, {"balance", "held", "released", "act"})' => holder[Terms[at[s]].debit] = s,
         Paying(s, {"held", "released"})' =>
           seen'[s].balance <= ledger[Terms[at[s]].debit] + delta[s][Terms[at[s]].debit],
         Paying(s, {"act"})' => seen'[s].balance <= Purse(s, Terms[at[s]].debit)
  PROVE  Covered(s)'
<1>1. Covered(s)
  BY DEF DebtInv
<1>2. \A n : Purse(s, n)' = Purse(s, n)
  BY DEF Purse
<1>3. Purse(s, Terms[at[s]].debit)' = Purse(s, Terms[at[s]].debit)
  BY DEF Purse
<1>4. \A k \in Keys : delta'[s][k] < 0 => holder'[k] = s
  BY <1>1 DEF Covered
<1>5. \A k \in Liabilities : Purse(s, k)' >= 0
  BY <1>1, <1>2 DEF Covered
<1>6. (pc[s] = "idle" \/ Creating(s))' => \A k \in Keys : delta'[s][k] = 0 /\ freed'[s][k] = 0
  BY <1>1 DEF Covered
<1> QED
  BY <1>3, <1>4, <1>5, <1>6 DEF Covered

(* The three statements of get_available_balance under the lock: at most   *)
(* what the purse holds, for what is reserved only lowers it.  A handler   *)
(* that is creating a contract reads too, and spends nothing.              *)
LEMMA ReadsDebt ==
  ASSUME RowInv, EngineTypeOK', DebtInv, NEW s \in Threads,
         ReadBalance(s) \/ ReadHeld(s) \/ ReadReleased(s)
  PROVE  DebtInv'
<1> DEFINE k == Terms[at[s]].debit
<1>0. /\ LedgerTypeOK /\ RowTypeOK /\ Payments \cap Escrows = {} /\ s \in Sessions
      /\ pc[s] \in {"balance", "held", "released"} /\ k \in Keys
      /\ pc[s] = "balance" => at[s] \in Payments
      /\ k \in Liabilities /\ k \notin Assets
  <2>1. pc[s] \in {"balance", "held", "released"}
    BY DEF ReadBalance, ReadHeld, ReadReleased
  <2>2. at[s] \in Rows /\ (pc[s] = "balance" => at[s] \in Payments)
    BY <2>1, ThreadFacts, TermsTyped DEF AtItsRow
  <2>3. k \in Liabilities /\ k \in Keys /\ k \notin Assets
    BY <2>2, EngineAssumption, KeysAssumption, TermsTyped
  <2> QED
    BY <2>1, <2>2, <2>3, ThreadFacts
<1>1. /\ ledger[k] \in Int /\ delta[s][k] \in Int /\ reserved[k] \in Nat
      /\ released[k] \in Nat /\ freed[s][k] \in Nat /\ seen[s].balance \in Int
  BY <1>0, PurseTypes DEF RowInv
<1>2. /\ ledger' = ledger /\ delta' = delta /\ holder' = holder /\ released' = released
      /\ freed' = freed /\ at' = at
  BY DEF ReadBalance, ReadHeld, ReadReleased, GetBalance, tableVars, writeVars
<1>3. \E label \in {"held", "released", "act"} : Goto(s, label)
  BY DEF ReadBalance, ReadHeld, ReadReleased
<1>4. /\ pc'[s] \in {"held", "released", "act"}
      /\ \A t \in Threads \ {s} : pc'[t] = pc[t]
  BY <1>0, <1>3, GotoEffect DEF Labels
<1>5. \E r : seen' = [seen EXCEPT ![s] = r]
  <2>1. CASE ReadBalance(s)
    BY <2>1 DEF ReadBalance, GetBalance
  <2>2. CASE ReadHeld(s)
    BY <2>2 DEF ReadHeld
  <2>3. CASE ReadReleased(s)
    BY <2>3 DEF ReadReleased
  <2> QED
    BY <2>1, <2>2, <2>3
<1>6. \A t \in Threads \ {s} : seen'[t] = seen[t]
  BY <1>0, <1>5, TermsTyped DEF LedgerTypeOK
<1>7. Creating(s)' => Creating(s)
  BY <1>0, <1>2 DEF Creating
<1>8. Covered(s)
  BY DEF DebtInv
<1>9. at[s] \in Payments => holder[k] = s
  BY <1>0, <1>8 DEF Covered, Paying
<1>10. ASSUME Paying(s, {"held", "released"})'
       PROVE  seen'[s].balance <= ledger[k] + delta[s][k]
  <2>0. at[s] \in Payments /\ pc'[s] \in {"held", "released"}
    BY <1>2, <1>10 DEF Paying
  <2>1. CASE ReadBalance(s)
    <3>1. seen' = [seen EXCEPT ![s] = [key |-> k, balance |-> Balance(s, k)]]
      BY <2>1 DEF ReadBalance, GetBalance
    <3>2. seen'[s].balance = Balance(s, k)
      BY <1>0, <3>1 DEF LedgerTypeOK
    <3>3. Balance(s, k) = ledger[k] + delta[s][k]
      BY <1>0 DEF Balance
    <3> QED
      BY <1>1, <3>2, <3>3
  <2>2. CASE ReadHeld(s)
    <3>1. seen[s].balance <= ledger[k] + delta[s][k]
      BY <1>8, <2>0, <2>2 DEF Covered, Paying, ReadHeld
    <3>2. seen'[s].balance = seen[s].balance - reserved[k]
      BY <1>0, <2>2 DEF ReadHeld, LedgerTypeOK
    <3> QED
      BY <1>1, <3>1, <3>2
  <2>3. CASE ReadReleased(s)
    <3>1. pc'[s] = "act"
      BY <1>0, <2>3, GotoEffect DEF ReadReleased, Labels
    <3> QED
      BY <2>0, <3>1
  <2> QED
    BY <2>1, <2>2, <2>3
<1>11. ASSUME Paying(s, {"act"})' PROVE seen'[s].balance <= Purse(s, k)
  <2>0. at[s] \in Payments /\ pc'[s] = "act"
    BY <1>2, <1>11 DEF Paying
  <2>1. ReadReleased(s)
    <3>1. ~ReadBalance(s)
      BY <1>0, <2>0, GotoEffect DEF ReadBalance, Labels
    <3>2. ~ReadHeld(s)
      BY <1>0, <2>0, GotoEffect DEF ReadHeld, Labels
    <3> QED
      BY <3>1, <3>2
  <2>2. seen[s].balance <= ledger[k] + delta[s][k]
    BY <1>8, <2>0, <2>1 DEF Covered, Paying, ReadReleased
  <2>3. seen'[s].balance = seen[s].balance + released[k] + freed[s][k]
    BY <1>0, <2>1 DEF ReadReleased, LedgerTypeOK
  <2> QED
    BY <1>1, <2>2, <2>3 DEF Purse
<1>12. Paying(s, {"balance", "held", "released", "act"})' => holder[k] = s
  BY <1>2, <1>9 DEF Paying
<1>13. Covered(s)'
  BY <1>0, <1>2, <1>4, <1>7, <1>10, <1>11, <1>12, ReaderCovered
<1> QED
  BY <1>2, <1>4, <1>6, <1>13, ReadingDebt

(* create_escrow reads the balance without the lock. *)
LEMMA BeginReserveDebt ==
  ASSUME RowInv, EngineTypeOK', DebtInv, NEW s \in Handlers, NEW e \in Escrows,
         BeginReserve(s, e)
  PROVE  DebtInv'
<1>0. /\ LedgerTypeOK /\ RowTypeOK /\ s \in Threads /\ s \in Sessions
      /\ Payments \cap Escrows = {} /\ pc[s] = "idle"
  BY ThreadFacts, TermsTyped DEF BeginReserve
<1>1. /\ ledger' = ledger /\ delta' = delta /\ holder' = holder /\ released' = released
      /\ freed' = freed /\ at' = [at EXCEPT ![s] = e]
  BY DEF BeginReserve, tableVars, writeVars
<1>2. pc'[s] = "held" /\ \A t \in Threads \ {s} : pc'[t] = pc[t]
  BY <1>0, GotoEffect DEF BeginReserve, Labels
<1>3. at'[s] = e /\ \A t \in Threads \ {s} : at'[t] = at[t]
  BY <1>0, <1>1 DEF RowTypeOK
<1>4. \A t \in Threads \ {s} : seen'[t] = seen[t]
  BY <1>0, TermsTyped DEF BeginReserve, LedgerTypeOK
<1>5. Covered(s)'
  <2>1. Covered(s)
    BY <1>0 DEF DebtInv
  <2>2. \A k \in Keys : delta'[s][k] < 0 => holder'[k] = s
    BY <1>1, <2>1 DEF Covered
  <2>3. \A k \in Liabilities : Purse(s, k)' >= 0
    BY <1>1, <2>1 DEF Covered, Purse
  <2>4. \A k \in Keys : delta'[s][k] = 0 /\ freed'[s][k] = 0
    BY <1>0, <1>1, <2>1 DEF Covered
  <2>5. \A labels : ~Paying(s, labels)'
    BY <1>0, <1>3 DEF Paying
  <2> QED
    BY <2>2, <2>3, <2>4, <2>5 DEF Covered
<1> QED
  BY <1>0, <1>1, <1>2, <1>3, <1>4, <1>5, ReadingDebt

(* A thread whose transaction has ended has nothing pending. *)
LEMMA EndedCovered ==
  ASSUME RowInv, EngineTypeOK', NEW s \in Threads, EndTransaction(s), EndSession(s),
         OverdraftBounded'
  PROVE  /\ Covered(s)'
         /\ \A t \in Threads \ {s} :
              /\ delta'[t] = delta[t] /\ freed'[t] = freed[t] /\ seen'[t] = seen[t]
              /\ pc'[t] = pc[t] /\ at'[t] = at[t]
              /\ \A k \in Keys : holder[k] = t => holder'[k] = t
<1>0. /\ LedgerTypeOK /\ RowTypeOK /\ s \in Sessions /\ Threads \subseteq Sessions
      /\ NoRow \notin Rows /\ Payments \subseteq Rows
  BY ThreadFacts, TermsTyped
<1>1. \A k \in Keys : delta'[s][k] = 0 /\ freed'[s][k] = 0
  BY <1>0 DEF EndTransaction, EndSession, LedgerTypeOK, RowTypeOK, NoEntries
<1>2. pc'[s] = "idle" /\ at'[s] = NoRow
  BY <1>0 DEF EndSession, RowTypeOK
<1>3. \A labels : ~Paying(s, labels)'
  BY <1>0, <1>2 DEF Paying
<1>4. \A k \in Liabilities : Purse(s, k)' >= 0
  <2>1. \A k \in Keys : ledger'[k] \in Int /\ released'[k] \in Nat
    BY NextPurseTypes
  <2>2. Liabilities \subseteq Keys
    BY DEF Keys
  <2> QED
    BY <1>1, <2>1, <2>2 DEF Purse, OverdraftBounded
<1>5. Covered(s)'
  BY <1>1, <1>3, <1>4 DEF Covered
<1>6. ASSUME NEW t \in Threads \ {s}
      PROVE  /\ delta'[t] = delta[t] /\ freed'[t] = freed[t] /\ seen'[t] = seen[t]
             /\ pc'[t] = pc[t] /\ at'[t] = at[t]
  BY <1>0 DEF EndTransaction, EndSession, LedgerTypeOK, RowTypeOK
<1>7. \A t \in Threads \ {s} : \A k \in Keys : holder[k] = t => holder'[k] = t
  BY <1>0 DEF EndTransaction, LedgerTypeOK
<1> QED
  BY <1>5, <1>6, <1>7

(* A rollback leaves the tables alone. *)
LEMMA RollbackDebt ==
  ASSUME RowInv, EngineTypeOK', DebtInv, NEW s \in Threads, RollbackSession(s)
  PROVE  DebtInv'
<1>1. ledger' = ledger /\ released' = released /\ EndTransaction(s) /\ EndSession(s)
  BY DEF RollbackSession, Rollback, tableVars
<1>2. OverdraftBounded'
  BY <1>1 DEF DebtInv, OverdraftBounded
<1>3. \A k \in Keys : ledger[k] \in Int /\ released[k] \in Nat
  BY PurseTypes DEF RowInv
<1>4. \A t \in Threads \ {s} : Spared(t)
  BY <1>1, <1>2, <1>3, EndedCovered DEF Spared
<1> QED
  BY <1>1, <1>2, <1>4, EndedCovered, OwnDebt

(* A commit turns the session's purse into the balance and the releases on *)
(* record, and lowers no key that another session has locked.              *)
LEMMA CommitDebt ==
  ASSUME RowInv, EngineTypeOK', DebtInv, NEW s \in Threads, Commit(s), EndSession(s),
         \A k \in Keys : released'[k] = released[k] + freed[s][k]
  PROVE  DebtInv'
<1>0. /\ \A k \in Keys : ledger[k] \in Int /\ released[k] \in Nat
      /\ \A k \in Keys : delta[s][k] \in Int /\ freed[s][k] \in Nat
      /\ Liabilities \subseteq Keys
  BY PurseTypes DEF RowInv
<1>1. EndTransaction(s) /\ \A k \in Keys : ledger'[k] = ledger[k] + delta[s][k]
  BY DEF Commit
<1>2. Covered(s)
  BY DEF DebtInv
<1>3. OverdraftBounded'
  <2> SUFFICES ASSUME NEW k \in Liabilities PROVE ledger'[k] + released'[k] >= 0
    BY DEF OverdraftBounded
  <2>1. Purse(s, k) >= 0 /\ k \in Keys
    BY <1>0, <1>2 DEF Covered
  <2> QED
    BY <1>0, <1>1, <2>1 DEF Purse
<1>4. ASSUME NEW t \in Threads \ {s}, NEW k \in Keys, holder[k] = t
      PROVE  ledger'[k] >= ledger[k] /\ released'[k] >= released[k]
  <2>1. ~(delta[s][k] < 0)
    BY <1>2, <1>4 DEF Covered
  <2> QED
    BY <1>0, <1>1, <2>1
<1>5. \A t \in Threads \ {s} : Spared(t)
  BY <1>1, <1>3, <1>4, EndedCovered DEF Spared
<1> QED
  BY <1>1, <1>3, <1>5, EndedCovered, OwnDebt

(* create_escrow commits a reserve and nothing else. *)
LEMMA CreateEscrowDebt ==
  ASSUME RowInv, EngineTypeOK', DebtInv, NEW s \in Handlers, CreateEscrow(s)
  PROVE  DebtInv'
<1>0. s \in Threads
  BY TermsTyped
<1>1. Creating(s) /\ Commit(s) /\ EndSession(s) /\ released' = released
  BY DEF CreateEscrow, Creating
<1>2. \A k \in Keys : freed[s][k] = 0 /\ released[k] \in Nat
  BY <1>0, <1>1, PurseTypes DEF DebtInv, Covered, RowInv
<1>3. \A k \in Keys : released'[k] = released[k] + freed[s][k]
  BY <1>1, <1>2
<1> QED
  BY <1>0, <1>1, <1>3, CommitDebt

(* A debit and its credit move the purse of the two keys only. *)
LEMMA PairPurse ==
  ASSUME EngineTypeOK, NEW s \in Threads, NEW debit \in Keys, NEW credit \in Keys,
         NEW amount \in Nat, debit # credit, delta' = PairEntries(s, debit, credit, amount)
  PROVE  /\ delta'[s][debit] = delta[s][debit] - amount
         /\ \A k \in Keys \ {debit} : delta'[s][k] >= delta[s][k]
         /\ \A t \in Threads \ {s} : delta'[t] = delta[t]
<1>0. LedgerTypeOK /\ s \in Sessions /\ Threads \subseteq Sessions /\ amount \in Int
  BY TermsTyped DEF EngineTypeOK
<1>1. \A k \in Keys : delta[s][k] \in Int
  BY PurseTypes
<1>2. /\ \A t \in Sessions \ {s} : delta'[t] = delta[t]
      /\ \A k \in Keys : delta'[s][k] = delta[s][k] - (IF k = debit THEN amount ELSE 0)
                                        + (IF k = credit THEN amount ELSE 0)
  BY <1>0 DEF PairEntries, LedgerTypeOK
<1>3. delta'[s][debit] = delta[s][debit] - amount
  BY <1>1, <1>2
<1>4. ASSUME NEW k \in Keys \ {debit} PROVE delta'[s][k] >= delta[s][k]
  BY <1>1, <1>2
<1> QED
  BY <1>0, <1>2, <1>3, <1>4

(* A payment spends what its thread has read under the lock. *)
LEMMA CompletePaymentDebt ==
  ASSUME RowInv, EngineTypeOK', DebtInv, NEW s \in Threads, CompletePayment(s)
  PROVE  DebtInv'
<1> DEFINE d == Terms[at[s]].debit
           c == Terms[at[s]].credit
           amount == Terms[at[s]].amount
<1>0. /\ EngineTypeOK /\ LedgerTypeOK /\ RowTypeOK /\ s \in Sessions
      /\ pc[s] = "act" /\ at[s] \in Payments /\ d # c
      /\ d \in Keys /\ c \in Keys /\ amount \in Nat /\ d \in Liabilities
  <2>1. pc[s] = "act" /\ at[s] \in Payments /\ d # c
    BY DEF CompletePayment
  <2>2. at[s] \in Rows
    BY <2>1, TermsTyped
  <2> QED
    BY <2>1, <2>2, ThreadFacts, TermsTyped, EngineAssumption DEF RowInv
<1>1. /\ seen[s].balance >= amount /\ delta' = PairEntries(s, d, c, amount)
      /\ seen' = [seen EXCEPT ![s] = NoRead] /\ ledger' = ledger /\ holder' = holder
      /\ released' = released /\ freed' = freed /\ at' = at
  BY DEF CompletePayment, RecordJournalPair, tableVars
<1>2. /\ pc'[s] \in {"payments", "commit"} /\ \A t \in Threads \ {s} : pc'[t] = pc[t]
  <2>1. \E label \in {"payments", "commit"} : Goto(s, label)
    BY DEF CompletePayment
  <2> QED
    BY <1>0, <2>1, GotoEffect DEF Labels
<1>3. /\ delta'[s][d] = delta[s][d] - amount
      /\ \A k \in Keys \ {d} : delta'[s][k] >= delta[s][k]
      /\ \A t \in Threads \ {s} : delta'[t] = delta[t]
  BY <1>0, <1>1, PairPurse
<1>4. /\ \A k \in Keys : ledger[k] \in Int /\ released[k] \in Nat
      /\ \A k \in Keys : delta[s][k] \in Int /\ freed[s][k] \in Nat /\ delta'[s][k] \in Int
      /\ seen[s].balance \in Int /\ Liabilities \subseteq Keys
  BY <1>0, PurseTypes, NextPurseTypes
<1>5. Covered(s)
  BY DEF DebtInv
<1>6. holder[d] = s /\ seen[s].balance <= Purse(s, d)
  BY <1>0, <1>5 DEF Covered, Paying
<1> HIDE DEF d, c, amount
<1>7. Covered(s)'
  <2>1. ASSUME NEW k \in Keys, delta'[s][k] < 0 PROVE holder'[k] = s
    <3>1. CASE k = d
      BY <1>1, <1>6, <3>1
    <3>2. CASE k # d
      <4>1. delta[s][k] < 0
        BY <1>3, <1>4, <2>1, <3>2
      <4> QED
        BY <1>1, <1>5, <4>1 DEF Covered
    <3> QED
      BY <3>1, <3>2
  <2>2. ASSUME NEW k \in Liabilities PROVE Purse(s, k)' >= 0
    <3>0. k \in Keys /\ Purse(s, k) >= 0
      BY <1>4, <1>5 DEF Covered
    <3>1. CASE k = d
      <4>1. amount <= ledger[d] + delta[s][d] + released[d] + freed[s][d]
        BY <1>0, <1>1, <1>4, <1>6 DEF Purse
      <4> QED
        BY <1>0, <1>1, <1>3, <1>4, <3>1, <4>1 DEF Purse
    <3>2. CASE k # d
      BY <1>1, <1>3, <1>4, <3>0, <3>2 DEF Purse
    <3> QED
      BY <3>1, <3>2
  <2>3. ~(pc[s] = "idle" \/ Creating(s))'
    BY <1>2 DEF Creating
  <2>4. /\ ~Paying(s, {"balance", "held", "released", "act"})'
        /\ ~Paying(s, {"held", "released"})' /\ ~Paying(s, {"act"})'
    BY <1>2 DEF Paying
  <2> QED
    BY <2>1, <2>2, <2>3, <2>4 DEF Covered
<1>8. OverdraftBounded'
  BY <1>1 DEF DebtInv, OverdraftBounded
<1>9. ASSUME NEW t \in Threads \ {s} PROVE Spared(t)
  <2>1. seen'[t] = seen[t]
    BY <1>0, <1>1, TermsTyped DEF LedgerTypeOK
  <2> QED
    BY <1>1, <1>2, <1>3, <1>4, <2>1 DEF Spared
<1> QED
  BY <1>7, <1>8, <1>9, OwnDebt

(* A release debits without a check, and writes the release row for it. *)
LEMMA PayBeneficiaryDebt ==
  ASSUME RowInv, EngineTypeOK', DebtInv, NEW s \in Handlers, PayBeneficiary(s)
  PROVE  DebtInv'
<1> DEFINE d == Terms[at[s]].debit
           c == Terms[at[s]].credit
           amount == Terms[at[s]].amount
<1>0. /\ EngineTypeOK /\ LedgerTypeOK /\ RowTypeOK /\ s \in Sessions /\ s \in Threads
      /\ d # c /\ d \in Keys /\ c \in Keys /\ amount \in Nat
  <2>1. s \in Threads /\ pc[s] = "pay" /\ d # c
    BY TermsTyped DEF PayBeneficiary
  <2>2. at[s] \in Rows
    BY <2>1, ThreadFacts, TermsTyped DEF AtItsRow
  <2> QED
    BY <2>1, <2>2, ThreadFacts, TermsTyped DEF RowInv
<1>1. /\ delta' = PairEntries(s, d, c, amount) /\ seen' = seen /\ ledger' = ledger
      /\ holder[d] \in {NoOne, s} /\ holder' = [holder EXCEPT ![d] = s]
      /\ freed' = [freed EXCEPT ![s][d] = @ + amount] /\ released' = released /\ at' = at
  BY DEF PayBeneficiary, tableVars
<1>2. pc'[s] = "commit" /\ \A t \in Threads \ {s} : pc'[t] = pc[t]
  BY <1>0, GotoEffect DEF PayBeneficiary, Labels
<1>3. /\ delta'[s][d] = delta[s][d] - amount
      /\ \A k \in Keys \ {d} : delta'[s][k] >= delta[s][k]
      /\ \A t \in Threads \ {s} : delta'[t] = delta[t]
  BY <1>0, <1>1, PairPurse
<1>4. /\ \A k \in Keys : ledger[k] \in Int /\ released[k] \in Nat
      /\ \A k \in Keys : delta[s][k] \in Int /\ freed[s][k] \in Nat /\ delta'[s][k] \in Int
      /\ Liabilities \subseteq Keys
  BY <1>0, PurseTypes, NextPurseTypes
<1> HIDE DEF d, c, amount
<1>5. /\ freed'[s][d] = freed[s][d] + amount
      /\ \A k \in Keys \ {d} : freed'[s][k] = freed[s][k]
      /\ \A t \in Threads \ {s} : freed'[t] = freed[t]
  BY <1>0, <1>1 DEF RowTypeOK
<1>6. holder'[d] = s /\ \A k \in Keys \ {d} : holder'[k] = holder[k]
  BY <1>0, <1>1 DEF LedgerTypeOK
<1>7. Covered(s)
  BY <1>0 DEF DebtInv
<1>8. Covered(s)'
  <2>1. ASSUME NEW k \in Keys, delta'[s][k] < 0 PROVE holder'[k] = s
    <3>1. CASE k # d
      <4>1. delta[s][k] < 0
        BY <1>3, <1>4, <2>1, <3>1
      <4> QED
        BY <1>6, <1>7, <3>1, <4>1 DEF Covered
    <3> QED
      BY <1>6, <3>1
  <2>2. ASSUME NEW k \in Liabilities PROVE Purse(s, k)' >= 0
    <3>0. k \in Keys /\ Purse(s, k) >= 0
      BY <1>4, <1>7 DEF Covered
    <3>1. CASE k = d
      <4>1. delta'[s][k] + freed'[s][k] = delta[s][k] + freed[s][k]
        BY <1>0, <1>3, <1>4, <1>5, <3>1
      <4>2. freed'[s][k] \in Nat /\ delta'[s][k] \in Int
        BY <1>0, <1>4, <1>5, <3>0, <3>1
      <4> QED
        BY <1>1, <1>4, <3>0, <4>1, <4>2 DEF Purse
    <3>2. CASE k # d
      BY <1>1, <1>3, <1>4, <1>5, <3>0, <3>2 DEF Purse
    <3> QED
      BY <3>1, <3>2
  <2>3. ~(pc[s] = "idle" \/ Creating(s))'
    BY <1>2 DEF Creating
  <2>4. /\ ~Paying(s, {"balance", "held", "released", "act"})'
        /\ ~Paying(s, {"held", "released"})' /\ ~Paying(s, {"act"})'
    BY <1>2 DEF Paying
  <2> QED
    BY <2>1, <2>2, <2>3, <2>4 DEF Covered
<1>9. OverdraftBounded'
  BY <1>1 DEF DebtInv, OverdraftBounded
<1>10. ASSUME NEW t \in Threads \ {s} PROVE Spared(t)
  <2>1. \A k \in Keys : holder[k] = t => holder'[k] = t
    BY <1>1, <1>6, TermsTyped
  <2> QED
    BY <1>1, <1>2, <1>3, <1>4, <1>5, <2>1 DEF Spared
<1> QED
  BY <1>0, <1>8, <1>9, <1>10, OwnDebt

(* The steps of a thread on its rows. *)
LEMMA ThreadRowDebt ==
  ASSUME RowInv, EngineTypeOK', DebtInv, NEW s \in Threads, UNCHANGED <<ledgerVars, released>>,
         NEW label \in Labels \ PurseLabels, Goto(s, label),
         freed' = freed \/ \E k \in Keys, n \in Nat : freed' = [freed EXCEPT ![s][k] = @ + n],
         \A t \in Threads \ {s} : at'[t] = at[t]
  PROVE  DebtInv'
<1>0. RowTypeOK
  BY ThreadFacts
<1>1. pc'[s] = label /\ \A t \in Threads \ {s} : pc'[t] = pc[t]
  BY <1>0, GotoEffect
<1>2. /\ \A k \in Keys : released[k] \in Nat
      /\ \A t \in Threads, k \in Keys : freed[t][k] \in Nat
  BY PurseTypes DEF RowInv
<1>3. /\ \A t \in Threads \ {s} : freed'[t] = freed[t]
      /\ \A k \in Keys : freed'[s][k] >= freed[s][k]
  <2>1. CASE freed' = freed
    BY <1>2, <2>1
  <2>2. CASE \E k \in Keys, n \in Nat : freed' = [freed EXCEPT ![s][k] = @ + n]
    <3>1. PICK k \in Keys, n \in Nat : freed' = [freed EXCEPT ![s][k] = @ + n]
      BY <2>2
    <3> QED
      BY <1>0, <1>2, <3>1 DEF RowTypeOK
  <2> QED
    BY <2>1, <2>2
<1>4. \A k \in Keys : released'[k] >= released[k]
  BY <1>2
<1> QED
  BY <1>1, <1>3, <1>4, QuietDebt

(* What the threads do on their rows before and after the money. *)
LEMMA RowsDebt ==
  ASSUME RowInv, EngineTypeOK', DebtInv, NEW s \in Threads,
         \/ BeginExecution(s) \/ BeginPass(s) \/ FailExpired(s) \/ SelectExpiredEscrows(s)
         \/ ExpireEscrow(s)
         \/ \E p \in Payments, data \in Evidence : Trigger(s, p, data)
         \/ \E p \in Payments : TakePayment(s, p)
         \/ \E e \in Escrows : TakeEscrow(s, e) \/ BeginRelease(s, e)
  PROVE  DebtInv'
<1>0. RowTypeOK
  BY ThreadFacts
<1>1. UNCHANGED <<ledgerVars, released>>
  BY DEF BeginExecution, BeginPass, FailExpired, SelectExpiredEscrows, ExpireEscrow, Trigger,
     TakePayment, TakeEscrow, BeginRelease, tableVars
<1>2. \E label \in {"execute", "lock", "payments", "fail", "escrows", "expire", "pay"} :
        Goto(s, label)
  BY DEF BeginExecution, BeginPass, FailExpired, SelectExpiredEscrows, ExpireEscrow, Trigger,
     TakePayment, TakeEscrow, BeginRelease
<1>3. \E label \in Labels \ PurseLabels : Goto(s, label)
  BY <1>2 DEF Labels, PurseLabels
<1>4. at' = at \/ \E r : at' = [at EXCEPT ![s] = r]
  BY DEF BeginExecution, BeginPass, FailExpired, SelectExpiredEscrows, ExpireEscrow, Trigger,
     TakePayment, TakeEscrow, BeginRelease
<1>5. \A t \in Threads \ {s} : at'[t] = at[t]
  BY <1>0, <1>4 DEF RowTypeOK
<1>6. freed' = freed \/ \E k \in Keys, n \in Nat : freed' = [freed EXCEPT ![s][k] = @ + n]
  <2>1. CASE ExpireEscrow(s)
    <3>1. /\ freed' = [freed EXCEPT ![s][Terms[at[s]].debit] = @ + Terms[at[s]].amount]
          /\ pc[s] = "expire"
      BY <2>1 DEF ExpireEscrow
    <3>2. Terms[at[s]].debit \in Keys /\ Terms[at[s]].amount \in Nat
      BY <3>1, ThreadFacts, TermsTyped DEF AtItsRow
    <3> QED
      BY <3>1, <3>2
  <2>2. CASE ~ExpireEscrow(s)
    BY <2>2 DEF BeginExecution, BeginPass, FailExpired, SelectExpiredEscrows, Trigger,
       TakePayment, TakeEscrow, BeginRelease, writeVars
  <2> QED
    BY <2>1, <2>2
<1> QED
  BY <1>1, <1>3, <1>5, <1>6, ThreadRowDebt

(* What no thread of the model does: the requests without a wait, and time. *)
LEMMA WorldDebt ==
  ASSUME RowInv, EngineTypeOK', DebtInv,
         \/ Tick \/ UNCHANGED vars
         \/ \E p \in Payments : CreateConditionalPayment(p)
         \/ \E p \in Payments, data \in Evidence : TriggerUnsatisfied(p, data)
         \/ \E e \in Escrows : ReleaseTooLate(e) \/ RefundDepositor(e)
  PROVE  DebtInv'
<1>1. UNCHANGED ledgerVars /\ pc' = pc /\ at' = at /\ freed' = freed
  BY DEF Tick, vars, CreateConditionalPayment, TriggerUnsatisfied, ReleaseTooLate,
     RefundDepositor, writeVars, threadVars
<1>2. \A k \in Keys : released[k] \in Nat
  BY PurseTypes DEF RowInv
<1>3. \A k \in Keys : released'[k] >= released[k]
  <2>1. CASE \E e \in Escrows : RefundDepositor(e)
    <3>1. PICK e \in Escrows :
            released' = [released EXCEPT ![Terms[e].debit] = @ + Terms[e].amount]
      BY <2>1 DEF RefundDepositor
    <3>2. Terms[e].debit \in Keys /\ Terms[e].amount \in Nat
      BY TermsTyped
    <3>3. released \in [Keys -> Nat]
      BY DEF RowInv, EngineTypeOK, RowTypeOK
    <3> QED
      BY <3>1, <3>2, <3>3
  <2>2. CASE ~\E e \in Escrows : RefundDepositor(e)
    <3>1. released' = released
      BY <2>2 DEF Tick, vars, CreateConditionalPayment, TriggerUnsatisfied, ReleaseTooLate,
         tableVars
    <3> QED
      BY <1>2, <3>1
  <2> QED
    BY <2>1, <2>2
<1> QED
  BY <1>1, <1>3, QuietDebt

(* Every step of the engine keeps the debts covered. *)
LEMMA NextPreservesDebt == RowInv /\ DebtInv /\ [Next]_vars => DebtInv'
<1> SUFFICES ASSUME RowInv, DebtInv, [Next]_vars PROVE DebtInv'
  OBVIOUS
<1>0. Handlers \subseteq Threads /\ Checkers \subseteq Threads /\ EngineTypeOK'
  BY TermsTyped, NextPreservesRows DEF RowInv
<1>1. ASSUME NEW s \in Threads,
             Refuse(s) \/ RejectedByCheck(s) \/ DeadlockVictim(s) \/ Crash(s)
      PROVE  DebtInv'
  BY <1>0, <1>1, RollbackDebt DEF Refuse, RejectedByCheck, DeadlockVictim, Crash
<1>2. ASSUME NEW s \in Threads, TransferStep(s) PROVE DebtInv'
  BY <1>0, <1>1, <1>2, RowsDebt, LockDebitedDebt, ReadsDebt, CompletePaymentDebt DEF TransferStep
<1>3. ASSUME NEW s \in Threads, CommitSession(s) PROVE DebtInv'
  <2>1. Commit(s) /\ EndSession(s) /\ \A k \in Keys : released'[k] = released[k] + freed[s][k]
    BY <1>3 DEF CommitSession
  <2> QED
    BY <1>0, <2>1, CommitDebt
<1>4. CASE NewRequest
  BY <1>0, <1>4, WorldDebt, RowsDebt, BeginReserveDebt DEF NewRequest
<1>5. ASSUME NEW s \in Handlers, HandlerStep(s) PROVE DebtInv'
  BY <1>0, <1>1, <1>2, <1>3, <1>5, CreateEscrowDebt, PayBeneficiaryDebt
  DEF HandlerStep, CommitRequest
<1>6. ASSUME NEW s \in Checkers, CheckerStep(s) PROVE DebtInv'
  BY <1>0, <1>2, <1>3, <1>6, RowsDebt DEF CheckerStep, CommitPass
<1>7. CASE Tick \/ UNCHANGED vars
  BY <1>0, <1>7, WorldDebt
<1> QED
  BY <1>1, <1>4, <1>5, <1>6, <1>7 DEF Next

LEMMA InitDebt == Init => DebtInv
<1> SUFFICES ASSUME Init PROVE DebtInv
  OBVIOUS
<1>1. /\ \A k \in Keys : ledger[k] = Opening[k] /\ Opening[k] \in Int /\ released[k] = 0
      /\ \A s \in Threads, k \in Keys : delta[s][k] = 0 /\ freed[s][k] = 0
      /\ \A k \in Liabilities : k \in Keys /\ Opening[k] >= 0
  BY TermsTyped, OpeningAssumption DEF Init, LedgerInit, NoEntries, Keys
<1>2. OverdraftBounded
  BY <1>1 DEF OverdraftBounded
<1>3. ASSUME NEW s \in Threads PROVE Covered(s)
  <2>1. pc[s] = "idle"
    BY DEF Init
  <2>2. \A k \in Liabilities : Purse(s, k) >= 0
    BY <1>1 DEF Purse
  <2>3. \A k \in Keys : ~(delta[s][k] < 0) /\ delta[s][k] = 0 /\ freed[s][k] = 0
    BY <1>1
  <2> QED
    BY <2>1, <2>2, <2>3 DEF Covered, Paying
<1> QED
  BY <1>2, <1>3 DEF DebtInv

(* No account is ever overdrawn by more than the release rows written for  *)
(* its escrows, although a release debits without a check, the checker     *)
(* writes more release rows than there are contracts, and available        *)
(* balances are read in three statements.                                  *)
THEOREM EngineOverdraftBounded == Spec => []OverdraftBounded
<1>1. DebtInv => OverdraftBounded
  BY DEF DebtInv
<1> QED
  BY <1>1, InitDebt, EngineRowInvariant, NextPreservesDebt, PTL DEF Spec

(* The accounts that are the depositor of no contract are not overdrawn. *)
PayersSolvent ==
  \A k \in Liabilities : (\A e \in Escrows : Terms[e].debit # k) => ledger[k] >= 0

(* Conditional payments alone never overdraw: the double spend that        *)
(* MCEngineOverdraft.cfg finds needs an escrow of the account it debits.   *)
THEOREM EnginePayersSolvent == Spec => []PayersSolvent
<1>1. OverdraftBounded /\ BooksInv => PayersSolvent
  <2> SUFFICES ASSUME OverdraftBounded, BooksInv, NEW k \in Liabilities,
                      \A e \in Escrows : Terms[e].debit # k
               PROVE  ledger[k] >= 0
    BY DEF PayersSolvent
  <2> DEFINE f == FreesOf(k, history)
  <2>0. /\ k \in Keys /\ IsFiniteSet(Recorded) /\ Recorded \in SUBSET Rows
        /\ history \in Lists
    BY DEF BooksInv, RowInv, EngineTypeOK, RowTypeOK, Keys, Recorded, Lists
  <2>1. f \in [Rows -> Int]
    BY <2>0, BooksTyped
  <2>2. \A r \in Recorded : f[r] = 0
    BY <2>0 DEF FreesOf, FreedFor
  <2> HIDE DEF f
  <2>3. SumFunctionOnSet(f, Recorded) = 0
    BY <2>0, <2>1, <2>2, SumZero
  <2>4. released[k] = 0
    BY <2>0, <2>3 DEF BooksInv, HoldsReconcile, f
  <2>5. ledger[k] \in Int
    BY <2>0, PurseTypes DEF BooksInv, RowInv
  <2> QED
    BY <2>4, <2>5 DEF OverdraftBounded
<1> QED
  BY <1>1, EngineOverdraftBounded, EngineBooks, PTL

-----------------------------------------------------------------------------
(* How often a payment can be executed.  Triggers and the checker read the *)
(* status without locking the row, so a payment can be executed again      *)
(* (MCEngineReplay.cfg); but only by a thread that had read the row before *)
(* the first execution was committed, and once by each.                    *)

(* Thread s is executing payment p. *)
Executing(s, p) ==
  at[s] = p /\ pc[s] \in {"execute", "lock", "balance", "held", "released", "act"}

(* It has read p as pending and may yet commit an execution of it. *)
MayComplete(s, p) ==
  p \in todo[s] \/ Executing(s, p) \/ Listed("completed", draft[s][p])

InFlight(p) == {s \in Threads : MayComplete(s, p)}

(* At most one execution of it. *)
CompletesOnce(s, p) ==
  /\ Executing(s, p) => p \notin todo[s] /\ ~Listed("completed", draft[s][p])
  /\ p \in todo[s] => ~Listed("completed", draft[s][p])
  /\ Count(draft[s][p], "completed") <= 1
  /\ ~Listed("pending", draft[s][p])
  /\ pc[s] = "idle" => p \notin todo[s]

(* A payment is pending only until its next status row. *)
PendingFirst(p) == Status(p) = "pending" => history[p] = <<"pending">>

(* Once p has been executed, no thread joins those that may execute it.    *)
Racing(p) ==
  \/ Times(p, "completed") = 0
  \/ Times(p, "completed") + Cardinality(InFlight(p)) <= Cardinality(Threads)

ReplayInv ==
  \A p \in Payments : PendingFirst(p) /\ Racing(p) /\ \A s \in Threads : CompletesOnce(s, p)

(* What a pending payment's history says. *)
LEMMA PendingNotExecuted ==
  ASSUME NEW p, PendingFirst(p), Status(p) = "pending"
  PROVE  Times(p, "completed") = 0
BY CountOne DEF PendingFirst, Times

(* The numbers of a payment. *)
LEMMA ReplayTypes ==
  ASSUME RowInv, IsFiniteSet(Threads), NEW p \in Payments
  PROVE  /\ Times(p, "completed") \in Nat /\ Cardinality(Threads) \in Nat
         /\ IsFiniteSet(InFlight(p)) /\ Cardinality(InFlight(p)) \in Nat
         /\ Cardinality(InFlight(p)) <= Cardinality(Threads)
         /\ history[p] \in Seq(Statuses)
         /\ \A s \in Threads : draft[s][p] \in Seq(Statuses)
                               /\ Count(draft[s][p], "completed") \in Nat
<1>1. history[p] \in Seq(Statuses) /\ \A s \in Threads : draft[s][p] \in Seq(Statuses)
  BY TermsTyped DEF RowInv, EngineTypeOK, RowTypeOK
<1>2. Times(p, "completed") \in Nat /\ \A s \in Threads : Count(draft[s][p], "completed") \in Nat
  BY <1>1, CountType DEF Times
<1>3. InFlight(p) \in SUBSET Threads
  BY DEF InFlight
<1> QED
  BY <1>1, <1>2, <1>3, FS_Subset, FS_CardinalityType

(* A step leaves what thread t does alone. *)
Unmoved(t) == pc'[t] = pc[t] /\ at'[t] = at[t] /\ todo'[t] = todo[t] /\ draft'[t] = draft[t]

LEMMA UnmovedOnce ==
  ASSUME NEW t \in Threads, NEW p \in Payments, Unmoved(t)
  PROVE  /\ CompletesOnce(t, p) => CompletesOnce(t, p)'
         /\ MayComplete(t, p)' <=> MayComplete(t, p)
BY DEF Unmoved, CompletesOnce, MayComplete, Executing

(* A step of s that commits nothing: s takes up only what is pending. *)
LEMMA StepReplay ==
  ASSUME RowInv, IsFiniteSet(Threads), ReplayInv, NEW s \in Threads,
         \A t \in Threads \ {s} : Unmoved(t),
         \A p \in Payments : history'[p] = history[p],
         \A p \in Payments : CompletesOnce(s, p)',
         \A p \in Payments : MayComplete(s, p)' => MayComplete(s, p) \/ Status(p) = "pending"
  PROVE  ReplayInv'
<1> SUFFICES ASSUME NEW p \in Payments
             PROVE  (PendingFirst(p) /\ Racing(p) /\ \A t \in Threads : CompletesOnce(t, p))'
  BY DEF ReplayInv
<1>0. PendingFirst(p) /\ Racing(p) /\ \A t \in Threads : CompletesOnce(t, p)
  BY DEF ReplayInv
<1>1. \A t \in Threads : CompletesOnce(t, p)'
  BY <1>0, UnmovedOnce
<1>2. Times(p, "completed")' = Times(p, "completed") /\ PendingFirst(p)'
  BY <1>0 DEF Times, PendingFirst, Status
<1>3. CASE Times(p, "completed") = 0
  BY <1>1, <1>2, <1>3 DEF Racing
<1>4. CASE Times(p, "completed") # 0
  <2>1. Status(p) # "pending"
    BY <1>0, <1>4, PendingNotExecuted
  <2>2. \A t \in Threads : MayComplete(t, p)' => MayComplete(t, p)
    BY <2>1, UnmovedOnce
  <2>3. InFlight(p)' \in SUBSET InFlight(p)
    BY <2>2 DEF InFlight
  <2>4. /\ Times(p, "completed") \in Nat /\ Cardinality(Threads) \in Nat
        /\ IsFiniteSet(InFlight(p)) /\ Cardinality(InFlight(p)) \in Nat
    BY ReplayTypes
  <2>5. Cardinality(InFlight(p)') <= Cardinality(InFlight(p)) /\ Cardinality(InFlight(p)') \in Nat
    BY <2>3, <2>4, FS_Subset, FS_CardinalityType
  <2>6. Times(p, "completed") + Cardinality(InFlight(p)) <= Cardinality(Threads)
    BY <1>0, <1>4 DEF Racing
  <2>7. Times(p, "completed") + Cardinality(InFlight(p)') <= Cardinality(Threads)
    BY <2>4, <2>5, <2>6
  <2> QED
    BY <1>1, <1>2, <2>7 DEF Racing
<1> QED
  BY <1>3, <1>4

(* A thread that has ended its transaction has nothing in flight. *)
LEMMA EndedOnce ==
  ASSUME RowInv, NEW s \in Threads, EndSession(s)
  PROVE  /\ \A p \in Payments : CompletesOnce(s, p)' /\ ~MayComplete(s, p)'
         /\ \A t \in Threads \ {s} : Unmoved(t)
<1>0. RowTypeOK /\ NoRow \notin Rows /\ Payments \subseteq Rows
  BY ThreadFacts, TermsTyped
<1>1. pc'[s] = "idle" /\ at'[s] = NoRow /\ todo'[s] = {} /\ draft'[s] = [r \in Rows |-> <<>>]
  BY <1>0 DEF EndSession, RowTypeOK
<1>2. ASSUME NEW p \in Payments PROVE CompletesOnce(s, p)' /\ ~MayComplete(s, p)'
  <2>1. draft'[s][p] = <<>> /\ at'[s] # p
    BY <1>0, <1>1
  <2>2. \A x : ~Listed(x, <<>>)
    BY DEF Listed
  <2>3. ~Executing(s, p)' /\ p \notin todo'[s]
    BY <1>1, <2>1 DEF Executing
  <2>4. Count(draft'[s][p], "completed") <= 1
    BY <2>1, CountEmpty
  <2> QED
    BY <2>1, <2>2, <2>3, <2>4 DEF CompletesOnce, MayComplete
<1>3. ASSUME NEW t \in Threads \ {s} PROVE Unmoved(t)
  BY <1>0 DEF EndSession, RowTypeOK, Unmoved
<1> QED
  BY <1>2, <1>3

(* A commit: the first execution closes the race, every other one was in   *)
(* flight.                                                                 *)
LEMMA CommitReplay ==
  ASSUME RowInv, IsFiniteSet(Threads), ReplayInv, NEW s \in Threads, CommitSession(s)
  PROVE  ReplayInv'
<1>0. EndSession(s) /\ history' = [r \in Rows |-> history[r] \o draft[s][r]]
  BY DEF CommitSession
<1>1. /\ \A p \in Payments : CompletesOnce(s, p)' /\ ~MayComplete(s, p)'
      /\ \A t \in Threads \ {s} : Unmoved(t)
  BY <1>0, EndedOnce
<1> SUFFICES ASSUME NEW p \in Payments
             PROVE  (PendingFirst(p) /\ Racing(p) /\ \A t \in Threads : CompletesOnce(t, p))'
  BY DEF ReplayInv
<1> DEFINE n == Times(p, "completed")
           m == Count(draft[s][p], "completed")
           F == InFlight(p)
           N == Cardinality(Threads)
<1>2. PendingFirst(p) /\ Racing(p) /\ \A t \in Threads : CompletesOnce(t, p)
  BY DEF ReplayInv
<1>3. \A t \in Threads : CompletesOnce(t, p)'
  BY <1>1, <1>2, UnmovedOnce
<1>4. /\ n \in Nat /\ N \in Nat /\ IsFiniteSet(F) /\ Cardinality(F) \in Nat
      /\ history[p] \in Seq(Statuses) /\ draft[s][p] \in Seq(Statuses) /\ m \in Nat
  BY ReplayTypes
<1>5. history'[p] = history[p] \o draft[s][p] /\ p \in Rows
  BY <1>0, TermsTyped
<1>6. Times(p, "completed")' = n + m
  BY <1>4, <1>5, CountConcat DEF Times
<1>7. m <= 1 /\ ~Listed("pending", draft[s][p])
  BY <1>2 DEF CompletesOnce
<1>8. PendingFirst(p)'
  <2>1. CASE draft[s][p] = <<>>
    <3>1. history'[p] = history[p]
      BY <1>4, <1>5, <2>1, LastOfConcat
    <3> QED
      BY <1>2, <3>1 DEF PendingFirst, Status
  <2>2. CASE draft[s][p] # <<>>
    <3>1. history'[p] # <<>> /\ Last(history'[p]) = Last(draft[s][p])
      BY <1>4, <1>5, <2>2, LastOfConcat
    <3>2. Listed(Last(draft[s][p]), draft[s][p])
      <4>1. Len(draft[s][p]) \in DOMAIN draft[s][p]
        BY <1>4, <2>2, EmptySeq
      <4> QED
        BY <4>1 DEF Listed, Last
    <3>3. Status(p)' # "pending"
      BY <1>7, <3>1, <3>2 DEF Status
    <3> QED
      BY <3>3 DEF PendingFirst
  <2> QED
    BY <2>1, <2>2
<1>9. InFlight(p)' \in SUBSET (F \ {s}) /\ F \ {s} \in SUBSET (Threads \ {s})
  BY <1>1, UnmovedOnce DEF InFlight
<1>10. m # 0 => s \in F
  BY CountedIsListed DEF InFlight, MayComplete
<1> HIDE DEF F, n, m
<1>11. /\ Cardinality(Threads \ {s}) = N - 1
       /\ Cardinality(F \ {s}) = IF s \in F THEN Cardinality(F) - 1 ELSE Cardinality(F)
       /\ IsFiniteSet(F \ {s}) /\ IsFiniteSet(Threads \ {s})
  BY <1>4, FS_RemoveElement
<1>12. /\ Cardinality(InFlight(p)') <= Cardinality(F \ {s})
       /\ Cardinality(F \ {s}) <= Cardinality(Threads \ {s})
       /\ Cardinality(InFlight(p)') \in Nat /\ Cardinality(F \ {s}) \in Nat
  <2>1. Cardinality(InFlight(p)') <= Cardinality(F \ {s}) /\ IsFiniteSet(InFlight(p)')
    BY <1>9, <1>11, FS_Subset
  <2>2. Cardinality(F \ {s}) <= Cardinality(Threads \ {s})
    BY <1>9, <1>11, FS_Subset
  <2> QED
    BY <1>11, <2>1, <2>2, FS_CardinalityType
<1>13. n = 0 \/ n + Cardinality(F) <= N
  BY <1>2 DEF Racing, n, F
<1>14. n + m = 0 \/ n + m + Cardinality(InFlight(p)') <= N
  <2> HIDE DEF N
  <2> QED
    BY <1>4, <1>7, <1>10, <1>11, <1>12, <1>13
<1> QED
  BY <1>3, <1>6, <1>8, <1>14 DEF Racing

(* The moves of a thread that write nothing. *)
LEMMA MoveReplay ==
  ASSUME RowInv, IsFiniteSet(Threads), ReplayInv, NEW s \in Threads,
         \/ LockDebited(s) \/ ReadBalance(s) \/ ReadHeld(s) \/ ReadReleased(s)
         \/ BeginPass(s) \/ SelectExpiredEscrows(s)
         \/ \E p \in Payments, data \in Evidence : Trigger(s, p, data)
         \/ \E p \in Payments : TakePayment(s, p)
         \/ \E e \in Escrows : TakeEscrow(s, e) \/ BeginReserve(s, e) \/ BeginRelease(s, e)
  PROVE  ReplayInv'
<1>0. /\ RowTypeOK /\ Payments \cap Escrows = {} /\ AtItsRow(s) /\ DraftsLocked(s)
      /\ Payments \subseteq Rows
  BY ThreadFacts, TermsTyped
<1>1. history' = history /\ draft' = draft
  BY DEF LockDebited, ReadBalance, ReadHeld, ReadReleased, BeginPass, SelectExpiredEscrows,
     Trigger, TakePayment, TakeEscrow, BeginReserve, BeginRelease, tableVars, writeVars
<1>2. /\ \E label : Goto(s, label)
      /\ at' = at \/ \E r : at' = [at EXCEPT ![s] = r]
      /\ todo' = todo \/ \E T : todo' = [todo EXCEPT ![s] = T]
  BY DEF LockDebited, ReadBalance, ReadHeld, ReadReleased, BeginPass, SelectExpiredEscrows,
     Trigger, TakePayment, TakeEscrow, BeginReserve, BeginRelease
<1>3. ASSUME NEW t \in Threads \ {s} PROVE Unmoved(t)
  BY <1>0, <1>1, <1>2 DEF Unmoved, Goto, RowTypeOK
<1>4. ASSUME NEW p \in Payments
      PROVE  /\ CompletesOnce(s, p)'
             /\ MayComplete(s, p)' => MayComplete(s, p) \/ Status(p) = "pending"
  <2>0. CompletesOnce(s, p) /\ draft'[s][p] = draft[s][p]
    BY <1>1 DEF ReplayInv
  <2>1. CASE LockDebited(s) \/ ReadBalance(s) \/ ReadHeld(s) \/ ReadReleased(s)
    <3>1. /\ pc[s] \in {"lock", "balance", "held", "released"}
          /\ pc'[s] \in {"balance", "held", "released", "act"}
          /\ at'[s] = at[s] /\ todo'[s] = todo[s]
      BY <1>0, <2>1 DEF LockDebited, ReadBalance, ReadHeld, ReadReleased, Goto, RowTypeOK
    <3> QED
      BY <2>0, <3>1 DEF CompletesOnce, MayComplete, Executing
  <2>2. CASE BeginPass(s)
    <3>1. /\ pc[s] = "idle" /\ pc'[s] = "payments" /\ p \in todo'[s] => Status(p) = "pending"
      BY <1>0, <2>2 DEF BeginPass, Goto, RowTypeOK
    <3>2. ~Listed("completed", draft[s][p]) /\ pc'[s] = "payments"
      <4>1. draft[s][p] = <<>>
        BY <1>0, <2>2 DEF DraftsLocked, BeginPass
      <4> QED
        BY <1>0, <2>2, <4>1 DEF Listed, BeginPass, Goto, RowTypeOK
    <3>3. ~Executing(s, p)'
      BY <3>2 DEF Executing
    <3>4. p \in todo'[s] => Status(p) = "pending"
      BY <1>0, <2>2 DEF BeginPass, RowTypeOK
    <3> QED
      BY <2>0, <3>2, <3>3, <3>4 DEF CompletesOnce, MayComplete
  <2>3. CASE SelectExpiredEscrows(s)
    <3>1. pc'[s] = "escrows" /\ p \notin todo'[s]
      BY <1>0, <2>3 DEF SelectExpiredEscrows, Goto, RowTypeOK
    <3> QED
      BY <2>0, <3>1 DEF CompletesOnce, MayComplete, Executing
  <2>4. CASE \E q \in Payments, data \in Evidence : Trigger(s, q, data)
    <3>1. PICK q \in Payments : \E data \in Evidence : Trigger(s, q, data)
      BY <2>4
    <3>2. /\ pc[s] = "idle" /\ pc'[s] = "execute" /\ at'[s] = q /\ todo'[s] = todo[s]
          /\ Status(q) = "pending"
      BY <1>0, <3>1 DEF Trigger, Goto, RowTypeOK
    <3>3. p \notin todo[s] /\ ~Listed("completed", draft[s][p])
      <4>1. draft[s][p] = <<>>
        BY <1>0, <3>2 DEF DraftsLocked
      <4> QED
        BY <2>0, <3>2, <4>1 DEF CompletesOnce, Listed
    <3> QED
      BY <2>0, <3>2, <3>3 DEF CompletesOnce, MayComplete, Executing
  <2>5. CASE \E q \in Payments : TakePayment(s, q)
    <3>1. PICK q \in Payments : TakePayment(s, q)
      BY <2>5
    <3>2. /\ q \in todo[s] /\ todo'[s] = todo[s] \ {q} /\ at'[s] = q
          /\ pc'[s] \in {"fail", "execute", "payments"}
      BY <1>0, <3>1 DEF TakePayment, Goto, RowTypeOK
    <3> QED
      BY <2>0, <3>2 DEF CompletesOnce, MayComplete, Executing
  <2>6. CASE \E e \in Escrows : TakeEscrow(s, e) \/ BeginReserve(s, e) \/ BeginRelease(s, e)
    <3>1. PICK e \in Escrows : TakeEscrow(s, e) \/ BeginReserve(s, e) \/ BeginRelease(s, e)
      BY <2>6
    <3>2. at'[s] = e /\ todo'[s] \subseteq todo[s] /\ pc'[s] \in {"expire", "held", "pay"}
      BY <1>0, <3>1 DEF TakeEscrow, BeginReserve, BeginRelease, Goto, RowTypeOK
    <3>3. at'[s] # p
      BY <1>0, <3>2
    <3> QED
      BY <2>0, <3>2, <3>3 DEF CompletesOnce, MayComplete, Executing
  <2> QED
    BY <2>1, <2>2, <2>3, <2>4, <2>5, <2>6
<1> QED
  BY <1>1, <1>3, <1>4, StepReplay

(* A thread notes a status row, which is "completed" only if it was        *)
(* executing the payment.                                                  *)
LEMMA WriteReplay ==
  ASSUME RowInv, IsFiniteSet(Threads), ReplayInv, NEW s \in Threads,
         \/ BeginExecution(s) \/ FailExpired(s) \/ CompletePayment(s)
         \/ ExpireEscrow(s) \/ PayBeneficiary(s)
  PROVE  ReplayInv'
<1>0. /\ RowTypeOK /\ Payments \cap Escrows = {} /\ AtItsRow(s) /\ Payments \subseteq Rows
  BY ThreadFacts, TermsTyped
<1>1. history' = history /\ at' = at /\ todo' = todo
  BY DEF BeginExecution, FailExpired, CompletePayment, ExpireEscrow, PayBeneficiary, tableVars
<1>2. PICK y \in {"processing", "failed", "completed", "expired", "released"} :
        /\ WriteStatus(s, at[s], y)
        /\ y = "completed" => CompletePayment(s)
        /\ y \in {"expired", "released"} => pc[s] \in {"expire", "pay"}
  BY DEF BeginExecution, FailExpired, CompletePayment, ExpireEscrow, PayBeneficiary
<1>3. /\ pc[s] \in {"execute", "fail", "act", "expire", "pay"}
      /\ pc[s] = "act" => at[s] \in Payments
  BY DEF BeginExecution, FailExpired, CompletePayment, ExpireEscrow, PayBeneficiary
<1>4. at[s] \in Rows
  BY <1>0, <1>3 DEF AtItsRow, Rows
<1>5. /\ \A t \in Threads \ {s} : draft'[t] = draft[t]
      /\ \A r \in Rows : draft'[s][r] = IF r = at[s] THEN Append(draft[s][r], y) ELSE draft[s][r]
  BY <1>0, <1>2, <1>4 DEF WriteStatus, RowTypeOK
<1>6. \E label \in {"lock", "payments", "commit", "escrows"} :
        Goto(s, label) /\ (label = "lock" => pc[s] = "execute")
  BY DEF BeginExecution, FailExpired, CompletePayment, ExpireEscrow, PayBeneficiary
<1>7. /\ pc'[s] \in {"lock", "payments", "commit", "escrows"}
      /\ pc'[s] = "lock" => pc[s] = "execute"
      /\ \A t \in Threads \ {s} : pc'[t] = pc[t]
  BY <1>0, <1>6 DEF Goto, RowTypeOK
<1>8. \A t \in Threads \ {s} : Unmoved(t)
  BY <1>1, <1>5, <1>7 DEF Unmoved
<1>9. y = "completed" => pc[s] = "act" /\ pc'[s] \in {"payments", "commit"}
  BY <1>0, <1>2 DEF CompletePayment, Goto, RowTypeOK
<1>10. ASSUME NEW p \in Payments
       PROVE  CompletesOnce(s, p)' /\ (MayComplete(s, p)' => MayComplete(s, p))
  <2>0. /\ CompletesOnce(s, p) /\ draft[s][p] \in Seq(Statuses) /\ p \in Rows
        /\ y \in Statuses /\ Count(draft[s][p], "completed") \in Nat
    BY <1>0, ReplayTypes DEF ReplayInv, Statuses
  <2>1. CASE p # at[s]
    <3>1. draft'[s][p] = draft[s][p]
      BY <1>5, <2>0, <2>1
    <3> QED
      BY <1>1, <1>7, <2>0, <2>1, <3>1 DEF CompletesOnce, MayComplete, Executing
  <2>2. CASE p = at[s] /\ y # "completed"
    <3>1. draft'[s][p] = Append(draft[s][p], y)
      BY <1>5, <2>0, <2>2
    <3>2. \A x \in {"completed", "pending"} : Listed(x, draft'[s][p]) => Listed(x, draft[s][p])
      BY <2>0, <2>2, <3>1, ListedAppend
    <3>3. Count(draft'[s][p], "completed") = Count(draft[s][p], "completed")
      BY <2>0, <2>2, <3>1, CountAppend
    <3>4. Executing(s, p)' => Executing(s, p)
      BY <1>1, <1>7 DEF Executing
    <3> QED
      BY <1>1, <1>7, <2>0, <3>2, <3>3, <3>4 DEF CompletesOnce, MayComplete
  <2>3. CASE p = at[s] /\ y = "completed"
    <3>1. draft'[s][p] = Append(draft[s][p], y)
      BY <1>5, <2>0, <2>3
    <3>2. Executing(s, p) /\ ~Executing(s, p)'
      BY <1>9, <2>3 DEF Executing
    <3>3. p \notin todo[s] /\ ~Listed("completed", draft[s][p])
      BY <2>0, <3>2 DEF CompletesOnce
    <3>4. Count(draft[s][p], "completed") = 0
      BY <3>3, CountedIsListed
    <3>5. Count(draft'[s][p], "completed") <= 1
      BY <2>0, <2>3, <3>1, <3>4, CountAppend
    <3>6. ~Listed("pending", draft'[s][p])
      BY <2>0, <2>3, <3>1, ListedAppend DEF CompletesOnce
    <3> QED
      BY <1>1, <3>2, <3>3, <3>5, <3>6 DEF CompletesOnce, MayComplete
  <2> QED
    BY <2>1, <2>2, <2>3
<1> QED
  BY <1>1, <1>8, <1>10, StepReplay

(* The transactions that end without an execution. *)
LEMMA AbortReplay ==
  ASSUME RowInv, IsFiniteSet(Threads), ReplayInv, NEW s \in Threads,
         RollbackSession(s) \/ CreateEscrow(s)
  PROVE  ReplayInv'
<1>1. EndSession(s)
  BY DEF RollbackSession, CreateEscrow
<1>2. \A p \in Payments : history'[p] = history[p]
  <2>1. CASE RollbackSession(s)
    BY <2>1 DEF RollbackSession, tableVars
  <2>2. CASE CreateEscrow(s)
    <3>1. /\ at[s] \in Escrows /\ history' = [history EXCEPT ![at[s]] = <<"active">>]
      BY <2>2 DEF CreateEscrow
    <3>2. history \in [Rows -> Seq(Statuses)]
      BY DEF RowInv, EngineTypeOK, RowTypeOK
    <3> QED
      BY <3>1, <3>2, EngineAssumption, TermsTyped
  <2> QED
    BY <2>1, <2>2
<1> QED
  BY <1>1, <1>2, EndedOnce, StepReplay

(* The steps in which no thread moves. *)
LEMMA WorldReplay ==
  ASSUME RowInv, IsFiniteSet(Threads), ReplayInv,
         \/ Tick \/ UNCHANGED vars
         \/ \E p \in Payments : CreateConditionalPayment(p)
         \/ \E p \in Payments, data \in Evidence : TriggerUnsatisfied(p, data)
         \/ \E e \in Escrows : ReleaseTooLate(e) \/ RefundDepositor(e)
  PROVE  ReplayInv'
<1>0. history \in [Rows -> Seq(Statuses)] /\ Payments \subseteq Rows /\ Payments \cap Escrows = {}
  BY TermsTyped, EngineAssumption DEF RowInv, EngineTypeOK, RowTypeOK
<1>1. pc' = pc /\ at' = at /\ todo' = todo /\ draft' = draft
  BY DEF Tick, vars, CreateConditionalPayment, TriggerUnsatisfied, ReleaseTooLate,
     RefundDepositor, writeVars, threadVars
<1>2. \A t \in Threads : Unmoved(t)
  BY <1>1 DEF Unmoved
<1>3. \A q \in Payments : history'[q] = history[q] \/ history'[q] = <<"pending">>
  <2>1. CASE \E p \in Payments : CreateConditionalPayment(p)
    <3>1. PICK p \in Payments : history' = [history EXCEPT ![p] = <<"pending">>]
      BY <2>1 DEF CreateConditionalPayment
    <3> QED
      BY <1>0, <3>1
  <2>2. CASE \E e \in Escrows : RefundDepositor(e)
    <3>1. PICK e \in Escrows : history' = [history EXCEPT ![e] = Append(@, "refunded")]
      BY <2>2 DEF RefundDepositor
    <3> QED
      BY <1>0, <3>1
  <2>3. CASE /\ ~\E p \in Payments : CreateConditionalPayment(p)
             /\ ~\E e \in Escrows : RefundDepositor(e)
    BY <2>3 DEF Tick, vars, TriggerUnsatisfied, ReleaseTooLate, tableVars
  <2> QED
    BY <2>1, <2>2, <2>3
<1> SUFFICES ASSUME NEW q \in Payments
             PROVE  (PendingFirst(q) /\ Racing(q) /\ \A t \in Threads : CompletesOnce(t, q))'
  BY DEF ReplayInv
<1>4. PendingFirst(q) /\ Racing(q) /\ \A t \in Threads : CompletesOnce(t, q)
  BY DEF ReplayInv
<1>5. /\ \A t \in Threads : CompletesOnce(t, q)'
      /\ InFlight(q)' = InFlight(q)
  BY <1>2, <1>4, UnmovedOnce DEF InFlight
<1>6. CASE history'[q] = history[q]
  BY <1>4, <1>5, <1>6 DEF PendingFirst, Racing, Status, Times
<1>7. CASE history'[q] = <<"pending">>
  <2>1. Times(q, "completed")' = 0
    BY <1>7, CountOne DEF Times
  <2> QED
    BY <1>5, <1>7, <2>1 DEF PendingFirst, Racing
<1> QED
  BY <1>3, <1>6, <1>7

(* Every step keeps the race closed. *)
LEMMA NextPreservesReplay ==
  ASSUME IsFiniteSet(Threads), RowInv, ReplayInv, [Next]_vars
  PROVE  ReplayInv'
<1>0. Handlers \subseteq Threads /\ Checkers \subseteq Threads
  BY TermsTyped
<1>1. ASSUME NEW s \in Threads,
             Refuse(s) \/ RejectedByCheck(s) \/ DeadlockVictim(s) \/ Crash(s)
      PROVE  ReplayInv'
  BY <1>1, AbortReplay DEF Refuse, RejectedByCheck, DeadlockVictim, Crash
<1>2. ASSUME NEW s \in Threads, TransferStep(s) PROVE ReplayInv'
  BY <1>1, <1>2, MoveReplay, WriteReplay DEF TransferStep
<1>4. CASE NewRequest
  BY <1>0, <1>4, WorldReplay, MoveReplay DEF NewRequest
<1>5. ASSUME NEW s \in Handlers, HandlerStep(s) PROVE ReplayInv'
  BY <1>0, <1>1, <1>2, <1>5, AbortReplay, WriteReplay, CommitReplay DEF HandlerStep, CommitRequest
<1>6. ASSUME NEW s \in Checkers, CheckerStep(s) PROVE ReplayInv'
  BY <1>0, <1>2, <1>6, MoveReplay, WriteReplay, CommitReplay DEF CheckerStep, CommitPass
<1>7. CASE Tick \/ UNCHANGED vars
  BY <1>7, WorldReplay
<1> QED
  BY <1>1, <1>4, <1>5, <1>6, <1>7 DEF Next

LEMMA InitReplay == Init => ReplayInv
<1> SUFFICES ASSUME Init, NEW p \in Payments
             PROVE  PendingFirst(p) /\ Racing(p) /\ \A s \in Threads : CompletesOnce(s, p)
  BY DEF ReplayInv
<1>1. history[p] = <<>> /\ \A s \in Threads : draft[s][p] = <<>> /\ at[s] = NoRow /\ todo[s] = {}
  BY TermsTyped DEF Init
<1>2. Times(p, "completed") = 0 /\ \A s \in Threads : Count(draft[s][p], "completed") = 0
  BY <1>1, CountEmpty DEF Times
<1>3. \A x : ~Listed(x, <<>>)
  BY DEF Listed
<1>4. NoRow # p
  BY EngineAssumption DEF NoRow, Rows
<1>5. PendingFirst(p) /\ Racing(p)
  BY <1>1, <1>2 DEF PendingFirst, Racing, Status
<1>6. ASSUME NEW s \in Threads PROVE CompletesOnce(s, p)
  BY <1>1, <1>2, <1>3, <1>4 DEF CompletesOnce, Executing
<1> QED
  BY <1>5, <1>6

(* With finitely many threads, a payment is executed at most once by each  *)
(* of them, however often it is triggered and whatever the checker does:   *)
(* what ExecutedOnce becomes when the status is read without a lock.       *)
THEOREM EngineReplaysBounded ==
  ASSUME IsFiniteSet(Threads)
  PROVE  Spec => []ReplaysBounded
<1>1. RowInv /\ ReplayInv => ReplaysBounded
  <2> SUFFICES ASSUME RowInv, ReplayInv, NEW p \in Payments
               PROVE  Times(p, "completed") <= Cardinality(Threads)
    BY DEF ReplaysBounded
  <2> QED
    BY ReplayTypes DEF ReplayInv, Racing
<1>2. RowInv /\ ReplayInv /\ [Next]_vars => ReplayInv'
  BY NextPreservesReplay
<1> QED
  BY <1>1, <1>2, InitReplay, EngineRowInvariant, PTL DEF Spec

(* So a single thread never executes a payment twice: the replay that      *)
(* MCEngineReplay.cfg finds takes two threads.                             *)
THEOREM EngineSingleThreadExecutesOnce ==
  ASSUME NEW s, Threads = {s}
  PROVE  Spec => []ExecutedOnce
<1>1. IsFiniteSet(Threads) /\ Cardinality(Threads) = 1
  BY FS_Singleton
<1>2. ReplaysBounded => ExecutedOnce
  BY <1>1 DEF ReplaysBounded, ExecutedOnce
<1>3. Spec => []ReplaysBounded
  BY <1>1, EngineReplaysBounded
<1> QED
  BY <1>2, <1>3, PTL

=============================================================================

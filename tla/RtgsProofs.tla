----------------------------- MODULE RtgsProofs -----------------------------
(***************************************************************************)
(* The settlement workers implement the journal discipline of Ledger.tla,  *)
(* for every number of workers, settlements, crashes and batch sizes; the  *)
(* solvency proved there therefore holds of the RTGS service.  On top of   *)
(* it: what is on record of each settlement at each status (RowInv), the   *)
(* reconciliation of the journal with the settlements (JournalInv), and    *)
(* the promise of SettlementPromise.tla.                                   *)
(***************************************************************************)
EXTENDS Rtgs, LedgerProofs

(* The worker variables keep their shape; a worker between FetchBatch and  *)
(* its commit or rollback points into its batch.                           *)
WorkerInv ==
  /\ pc \in [Workers -> {"idle", "lock", "wait", "read", "act", "commit"}]
  /\ batch \in [Workers -> Seq(Refs)]
  /\ pos \in [Workers -> Nat]
  /\ WorkerAtRow

(* What is on record of a settlement is a function of its status: each     *)
(* status leaves exactly its own history and its own events.               *)
RowsOnRecord ==
  \A r \in Refs :
    \/ status[r] = "none" /\ history[r] = <<>> /\ outbox[r] = <<>>
    \/ /\ status[r] = "pending"
       /\ history[r] = <<>> /\ outbox[r] = <<"submitted">>
    \/ /\ status[r] = "approved"
       /\ history[r] = <<"approved">> /\ outbox[r] = <<"submitted">>
    \/ /\ status[r] = "signed"
       /\ history[r] = <<"approved", "signed">> /\ outbox[r] = <<"submitted">>
    \/ /\ status[r] = "settled"
       /\ history[r] = <<"approved", "signed", "processing", "settled">>
       /\ outbox[r] = <<"submitted", "processing", "completed">>
    \/ /\ status[r] = "failed"
       /\ history[r] = <<"approved", "signed", "processing", "failed">>
       /\ outbox[r] = <<"submitted", "processing", "failed">>

(* Whoever signed a settlement had not approved it. *)
SignedByAnother ==
  \A r \in Refs :
    status[r] \in {"signed", "settled", "failed"} => approvedBy[r] # signedBy[r]

(* The rows a worker holds are signed, no other worker holds them, and it  *)
(* holds each once.                                                        *)
RowsHeldOnce ==
  /\ \A w \in Workers, r \in Refs : InBatch(w, r) => status[r] = "signed"
  /\ \A v, w \in Workers, r \in Refs : InBatch(v, r) /\ InBatch(w, r) => v = w
  /\ \A w \in Workers : \A i, j \in DOMAIN batch[w] :
       batch[w][i] = batch[w][j] => i = j

(* A worker has an outcome for exactly the rows it has passed. *)
OutcomesUpToPos ==
  \A w \in Workers :
    /\ \A r \in Refs : ~InBatch(w, r) => outcome[w][r] = "none"
    /\ \A i \in DOMAIN batch[w] : outcome[w][batch[w][i]] # "none" <=> i < pos[w]
    /\ pc[w] = "idle" => batch[w] = <<>>
    /\ pc[w] = "commit" => pos[w] = Len(batch[w]) + 1

(* Only finitely many settlements have been submitted. *)
FinitelyMany == IsFiniteSet({r \in Refs : status[r] # "none"})

(* The inductive invariant of the settlements table and the workers. *)
RowInv ==
  /\ RtgsTypeOK
  /\ FinitelyMany
  /\ WorkerInv
  /\ RowsOnRecord
  /\ SignedByAnother
  /\ RowsHeldOnce
  /\ OutcomesUpToPos

(* The rows a worker has settled in its open transaction. *)
SettledBy(w) == {r \in Refs : outcome[w][r] = "settled"}

(* The entries a worker has pending are those of the rows it has settled.  *)
PendingReconciled ==
  \A w \in Workers, k \in Keys :
    delta[w][k] = Promise!NetInflow(k, SettledBy(w))

(* The inductive invariant behind Reconciled. *)
JournalInv == PendingReconciled /\ Reconciled

(* A sequence of signed rows, as the worker's query returns it, is a       *)
(* sequence of settlement references.                                      *)
LEMMA BatchIsSequence ==
  ASSUME NEW n \in Nat, NEW q \in [1..n -> Fetchable]
  PROVE  q \in Seq(Refs) /\ Len(q) = n
<1>1. q \in [1..n -> Refs]
  BY DEF Fetchable
<1> QED
  BY <1>1

(* Init establishes the worker invariant: every worker is idle. *)
LEMMA InitWorkerInv == Init => WorkerInv
BY DEF Init, WorkerInv, WorkerAtRow

(* A worker that abandons its batch is idle again. *)
LEMMA AbandonWorkerInv ==
  ASSUME WorkerInv, NEW w \in Workers, AbandonBatch(w)
  PROVE  WorkerInv'
BY DEF WorkerInv, WorkerAtRow, AbandonBatch

(* Every step keeps each busy worker at a row of its batch. *)
LEMMA NextWorkerInv == WorkerInv /\ [Next]_vars => WorkerInv'
<1> SUFFICES ASSUME WorkerInv, [Next]_vars PROVE WorkerInv'
  OBVIOUS
<1> USE DEF WorkerInv, WorkerAtRow
<1>1. ASSUME NEW w \in Workers, FetchBatch(w) PROVE WorkerInv'
  <2>1. PICK n \in 1..BatchLimit : \E q \in [1..n -> Fetchable] :
          batch' = [batch EXCEPT ![w] = q]
    BY <1>1 DEF FetchBatch
  <2>2. PICK q \in [1..n -> Fetchable] : batch' = [batch EXCEPT ![w] = q]
    BY <2>1
  <2>3. n \in Nat /\ n >= 1
    BY RtgsAssumption
  <2>4. q \in Seq(Refs) /\ Len(q) = n
    BY <2>3, BatchIsSequence
  <2>5. /\ pc' = [pc EXCEPT ![w] = "lock"]
        /\ pos' = [pos EXCEPT ![w] = 1]
    BY <1>1 DEF FetchBatch
  <2> QED
    BY <2>2, <2>3, <2>4, <2>5
<1>2. ASSUME NEW w \in Workers, LockSender(w) PROVE WorkerInv'
  BY <1>2 DEF LockSender
<1>3. ASSUME NEW w \in Workers, WaitForSender(w) PROVE WorkerInv'
  BY <1>3 DEF WaitForSender
<1>4. ASSUME NEW w \in Workers, ReadSender(w) PROVE WorkerInv'
  BY <1>4 DEF ReadSender
<1>5. ASSUME NEW w \in Workers, NEW result, pc[w] = "act", Resolve(w, result),
             UNCHANGED batch
      PROVE  WorkerInv'
  <2>1. pos[w] \in 1..Len(batch[w]) /\ Len(batch[w]) \in Nat
    BY <1>5
  <2>2. pos'[w] = pos[w] + 1
    BY <1>5 DEF Resolve
  <2>3. pc'[w] = "lock" => pos'[w] \in 1..Len(batch[w])
    BY <1>5, <2>1, <2>2 DEF Resolve
  <2>4. pc'[w] \in {"lock", "commit"}
    BY <1>5 DEF Resolve
  <2>5. \A v \in Workers \ {w} : pc'[v] = pc[v] /\ pos'[v] = pos[v]
    BY <1>5 DEF Resolve
  <2>6. /\ pc' \in [Workers -> {"idle", "lock", "wait", "read", "act", "commit"}]
        /\ pos' \in [Workers -> Nat]
    BY <1>5 DEF Resolve
  <2> QED
    BY <1>5, <2>3, <2>4, <2>5, <2>6
<1>6. ASSUME NEW w \in Workers, Settle(w) PROVE WorkerInv'
  BY <1>5, <1>6 DEF Settle
<1>7. ASSUME NEW w \in Workers, FailInsufficient(w) PROVE WorkerInv'
  BY <1>5, <1>7 DEF FailInsufficient
<1>8. ASSUME NEW w \in Workers, CommitBatch(w) PROVE WorkerInv'
  BY <1>8 DEF CommitBatch
<1>9. CASE UNCHANGED workerVars
  BY <1>9 DEF workerVars
<1> QED
  BY <1>1, <1>2, <1>3, <1>4, <1>6, <1>7, <1>8, <1>9, AbandonWorkerInv
  DEF Next, WorkerStep, vars, Submit, Approve, Sign, PollEmpty, Crash,
      RejectedByCheck, DeadlockVictim

(* The sender and the receiver of the row a worker handles are keys of the *)
(* journal and its amount is a transferable amount.                        *)
LEMMA CurrentIsInstruction ==
  ASSUME WorkerInv, NEW w \in Workers,
         pc[w] \in {"lock", "wait", "read", "act"}
  PROVE  /\ Current(w) \in Refs
         /\ Sender(w) \in Keys
         /\ Instruction[Current(w)].to \in Keys
         /\ Instruction[Current(w)].amount \in Amounts
<1>1. batch[w] \in Seq(Refs) /\ pos[w] \in 1..Len(batch[w])
  BY DEF WorkerInv, WorkerAtRow
<1>2. Current(w) \in Refs
  BY <1>1 DEF Current
<1>3. Instruction[Current(w)] \in [from : Liabilities, to : Liabilities,
                                   amount : Amounts, priority : Priorities]
  BY <1>2, RtgsAssumption
<1> QED
  BY <1>2, <1>3 DEF Sender, Keys

(* Every step of the service is a step of the journal or leaves it alone. *)
LEMMA StepSimulation ==
  WorkerInv /\ [Next]_vars => [LedgerNext]_ledgerVars
<1> SUFFICES ASSUME WorkerInv, [Next]_vars
             PROVE  LedgerNext \/ UNCHANGED ledgerVars
  OBVIOUS
<1>1. ASSUME NEW w \in Workers, Rollback(w) PROVE LedgerNext
  BY <1>1, RtgsAssumption DEF LedgerNext
<1>2. ASSUME NEW w \in Workers, LockSender(w) PROVE LedgerNext
  <2>1. Sender(w) \in Keys
    BY <1>2, CurrentIsInstruction DEF LockSender
  <2> QED
    BY <1>2, <2>1, RtgsAssumption DEF LockSender, LedgerNext
<1>3. ASSUME NEW w \in Workers, ReadSender(w) PROVE LedgerNext
  <2>1. Sender(w) \in Keys
    BY <1>3, CurrentIsInstruction DEF ReadSender
  <2> QED
    BY <1>3, <2>1, RtgsAssumption DEF ReadSender, LedgerNext
<1>4. ASSUME NEW w \in Workers, Settle(w) PROVE LedgerNext
  <2> DEFINE in == Instruction[Current(w)]
  <2>1. in.from \in Keys /\ in.to \in Keys /\ in.amount \in Amounts
    BY <1>4, CurrentIsInstruction DEF Settle, Sender
  <2>2. RecordJournalPair(w, in.from, in.to, in.amount)
    BY <1>4 DEF Settle
  <2> QED
    BY <2>1, <2>2, RtgsAssumption DEF LedgerNext
<1>5. ASSUME NEW w \in Workers, FailInsufficient(w) PROVE LedgerNext
  <2> DEFINE in == Instruction[Current(w)]
  <2>1. in.from \in Keys /\ in.amount \in Amounts
    BY <1>5, CurrentIsInstruction DEF FailInsufficient, Sender
  <2>2. RefuseInsufficient(w, in.from, in.amount)
    BY <1>5 DEF FailInsufficient
  <2> QED
    BY <2>1, <2>2, RtgsAssumption DEF LedgerNext
<1>6. ASSUME NEW w \in Workers, CommitBatch(w) PROVE LedgerNext
  BY <1>6, RtgsAssumption DEF CommitBatch, LedgerNext
<1>7. ASSUME NEW w \in Workers, RejectedByCheck(w) \/ Crash(w) \/ DeadlockVictim(w)
      PROVE  LedgerNext
  BY <1>1, <1>7 DEF RejectedByCheck, Crash, DeadlockVictim, AbandonBatch
<1> QED
  BY <1>2, <1>3, <1>4, <1>5, <1>6, <1>7
  DEF Next, WorkerStep, vars, Submit, Approve, Sign, PollEmpty, FetchBatch,
      WaitForSender

(* A busy worker is always at a row of its batch. *)
THEOREM WorkersAtRows == Spec => []WorkerInv
<1> QED
  BY InitWorkerInv, NextWorkerInv, PTL DEF Spec

(* The RTGS service implements the lock-check-record discipline of the     *)
(* journal.                                                                *)
THEOREM RtgsImplementsLedger == Spec => LedgerSpec
<1>1. Init => LedgerInit
  BY DEF Init
<1> QED
  BY <1>1, WorkersAtRows, StepSimulation, PTL DEF Spec, LedgerSpec

(* No settlement worker, alone or racing others, ever overdraws an         *)
(* institution, through any crash, rollback or lock cycle.                 *)
THEOREM RtgsSolvency == Spec => []NoOverdraft
<1> QED
  BY RtgsImplementsLedger, Solvency, PTL

-----------------------------------------------------------------------------

(* The statuses the state machine of the code names. *)
LEMMA StatusesNamed ==
  Statuses = {"none", "pending", "approved", "signed", "processing",
              "broadcasted", "confirmed", "settled", "failed", "cancelled"}
BY DEF Statuses, RTGS_VALID_TRANSITIONS

(* Only a pending settlement may be approved and only an approved one      *)
(* signed (validate_transition).                                           *)
LEMMA TransitionSource ==
  ASSUME NEW r \in Refs, status[r] \in Statuses
  PROVE  /\ MayBecome(r, "approved") => status[r] = "pending"
         /\ MayBecome(r, "signed") => status[r] = "approved"
BY StatusesNamed DEF MayBecome, RTGS_VALID_TRANSITIONS

(* Init establishes the invariant: no settlement has been submitted. *)
LEMMA InitRowInv == Init /\ LedgerInv => RowInv
<1> SUFFICES ASSUME Init, LedgerInv PROVE RowInv
  OBVIOUS
<1>1. RtgsTypeOK
  <2>1. Init!1 /\ "none" \in Statuses
    BY StatusesNamed DEF Init
  <2> QED
    BY <2>1 DEF Init, RtgsTypeOK, LedgerInv
<1>2. FinitelyMany
  <2>1. {r \in Refs : status[r] # "none"} = {}
    BY DEF Init
  <2> QED
    BY <2>1, FS_EmptySet DEF FinitelyMany
<1>3. WorkerInv
  BY InitWorkerInv
<1>4. RowsOnRecord /\ SignedByAnother
  BY DEF Init, RowsOnRecord, SignedByAnother
<1>5. RowsHeldOnce /\ OutcomesUpToPos
  BY DEF Init, RowsHeldOnce, OutcomesUpToPos, InBatch
<1> QED
  BY <1>1, <1>2, <1>3, <1>4, <1>5 DEF RowInv

(* An endpoint works on a row no worker holds, so it leaves what is known  *)
(* of the batches alone.                                                   *)
LEMMA EndpointKeepsBatches ==
  ASSUME RowInv, NEW r \in Refs, ~RowLocked(r), UNCHANGED workerVars,
         \A q \in Refs \ {r} : status'[q] = status[q]
  PROVE  WorkerInv' /\ RowsHeldOnce' /\ OutcomesUpToPos'
<1> USE DEF RowInv, workerVars
<1>1. WorkerInv'
  BY DEF WorkerInv, WorkerAtRow
<1>2. RowsHeldOnce'
  BY DEF RowsHeldOnce, RowLocked, InBatch
<1>3. OutcomesUpToPos'
  BY DEF OutcomesUpToPos, InBatch
<1> QED
  BY <1>1, <1>2, <1>3

(* submit_settlement adds one row to the table. *)
LEMMA SubmitRowInv ==
  ASSUME RowInv, LedgerInv', NEW r \in Refs, Submit(r)
  PROVE  RowInv'
<1> DEFINE known == {q \in Refs : status[q] # "none"}
<1>1. IsFiniteSet(known) /\ Cardinality(known) \in Nat
  BY FS_CardinalityType DEF RowInv, FinitelyMany
<1>2. FinitelyMany'
  <2>1. {q \in Refs : status'[q] # "none"} = known \cup {r}
    BY DEF Submit, RowInv, RtgsTypeOK
  <2> QED
    BY <1>1, <2>1, FS_AddElement DEF FinitelyMany
<1>3. RtgsTypeOK'
  <2>1. queuedAt' \in [Refs -> Nat]
    BY <1>1 DEF Submit, RowInv, RtgsTypeOK
  <2>2. status' \in [Refs -> Statuses]
    BY StatusesNamed DEF Submit, RowInv, RtgsTypeOK
  <2>3. outbox' \in [Refs -> Seq({"submitted", "processing", "completed", "failed"})]
    BY DEF Submit, RowInv, RtgsTypeOK
  <2> QED
    BY <2>1, <2>2, <2>3 DEF Submit, RowInv, RtgsTypeOK, LedgerInv, workerVars
<1>4. ~RowLocked(r)
  BY DEF Submit, RowInv, RowsHeldOnce, RowLocked
<1>5. RowsOnRecord'
  <2>1. history[r] = <<>> /\ outbox[r] = <<>>
    BY DEF Submit, RowInv, RowsOnRecord
  <2>2. /\ status'[r] = "pending" /\ history'[r] = <<>>
        /\ outbox'[r] = <<"submitted">>
    BY <2>1 DEF Submit, RowInv, RtgsTypeOK
  <2>3. \A q \in Refs \ {r} : /\ status'[q] = status[q]
                              /\ history'[q] = history[q] /\ outbox'[q] = outbox[q]
    BY DEF Submit, RowInv, RtgsTypeOK
  <2> QED
    BY <2>2, <2>3 DEF RowInv, RowsOnRecord
<1>6. SignedByAnother'
  BY DEF Submit, RowInv, SignedByAnother, RtgsTypeOK
<1>7. WorkerInv' /\ RowsHeldOnce' /\ OutcomesUpToPos'
  BY <1>4, EndpointKeepsBatches DEF Submit, RowInv, RtgsTypeOK
<1> QED
  BY <1>2, <1>3, <1>5, <1>6, <1>7 DEF RowInv

(* approve_settlement moves one pending row and records its approver. *)
LEMMA ApproveRowInv ==
  ASSUME RowInv, LedgerInv', NEW r \in Refs, NEW key \in ApiKeys, Approve(r, key)
  PROVE  RowInv'
<1>1. status[r] = "pending"
  BY TransitionSource DEF Approve, RowInv, RtgsTypeOK
<1>2. FinitelyMany'
  <2>1. {q \in Refs : status'[q] # "none"} = {q \in Refs : status[q] # "none"}
    BY <1>1 DEF Approve, RowInv, RtgsTypeOK
  <2> QED
    BY <2>1 DEF RowInv, FinitelyMany
<1>3. RtgsTypeOK'
  <2>1. status' \in [Refs -> Statuses] /\ "approved" \in Statuses
    BY StatusesNamed DEF Approve, RowInv, RtgsTypeOK
  <2>2. history' \in [Refs -> Seq(Statuses)]
    BY <2>1 DEF Approve, RowInv, RtgsTypeOK
  <2>3. approvedBy' \in [Refs -> {k.actor : k \in ApiKeys} \cup {NoActor}]
    BY DEF Approve, RowInv, RtgsTypeOK
  <2> QED
    BY <2>1, <2>2, <2>3 DEF Approve, RowInv, RtgsTypeOK, LedgerInv, workerVars
<1>5. RowsOnRecord'
  <2>1. history[r] = <<>> /\ outbox[r] = <<"submitted">>
    BY <1>1 DEF RowInv, RowsOnRecord
  <2>2. /\ status'[r] = "approved" /\ history'[r] = <<"approved">>
        /\ outbox'[r] = <<"submitted">>
    BY <2>1 DEF Approve, RowInv, RtgsTypeOK
  <2>3. \A q \in Refs \ {r} : /\ status'[q] = status[q]
                              /\ history'[q] = history[q] /\ outbox'[q] = outbox[q]
    BY DEF Approve, RowInv, RtgsTypeOK
  <2> QED
    BY <2>2, <2>3 DEF RowInv, RowsOnRecord
<1>6. SignedByAnother'
  BY DEF Approve, RowInv, SignedByAnother, RtgsTypeOK
<1>7. WorkerInv' /\ RowsHeldOnce' /\ OutcomesUpToPos'
  BY EndpointKeepsBatches DEF Approve, RowInv, RtgsTypeOK
<1> QED
  BY <1>2, <1>3, <1>5, <1>6, <1>7 DEF RowInv

(* sign_settlement moves one approved row, and only for another actor than *)
(* the approver.                                                           *)
LEMMA SignRowInv ==
  ASSUME RowInv, LedgerInv', NEW r \in Refs, NEW key \in ApiKeys, Sign(r, key)
  PROVE  RowInv'
<1>1. status[r] = "approved"
  BY TransitionSource DEF Sign, RowInv, RtgsTypeOK
<1>2. FinitelyMany'
  <2>1. {q \in Refs : status'[q] # "none"} = {q \in Refs : status[q] # "none"}
    BY <1>1 DEF Sign, RowInv, RtgsTypeOK
  <2> QED
    BY <2>1 DEF RowInv, FinitelyMany
<1>3. RtgsTypeOK'
  <2>1. status' \in [Refs -> Statuses] /\ "signed" \in Statuses
    BY StatusesNamed DEF Sign, RowInv, RtgsTypeOK
  <2>2. history' \in [Refs -> Seq(Statuses)]
    BY <2>1 DEF Sign, RowInv, RtgsTypeOK
  <2>3. signedBy' \in [Refs -> {k.actor : k \in ApiKeys} \cup {NoActor}]
    BY DEF Sign, RowInv, RtgsTypeOK
  <2> QED
    BY <2>1, <2>2, <2>3 DEF Sign, RowInv, RtgsTypeOK, LedgerInv, workerVars
<1>5. RowsOnRecord'
  <2>1. history[r] = <<"approved">> /\ outbox[r] = <<"submitted">>
    BY <1>1 DEF RowInv, RowsOnRecord
  <2>2. /\ status'[r] = "signed" /\ history'[r] = <<"approved", "signed">>
        /\ outbox'[r] = <<"submitted">>
    <3>1. Append(<<"approved">>, "signed") = <<"approved", "signed">>
      BY AppendToOne
    <3>2. history'[r] = Append(history[r], "signed")
      BY DEF Sign, RowInv, RtgsTypeOK
    <3>3. status'[r] = "signed" /\ outbox'[r] = outbox[r]
      BY DEF Sign, RowInv, RtgsTypeOK
    <3> QED
      BY <2>1, <3>1, <3>2, <3>3
  <2>3. \A q \in Refs \ {r} : /\ status'[q] = status[q]
                              /\ history'[q] = history[q] /\ outbox'[q] = outbox[q]
    BY DEF Sign, RowInv, RtgsTypeOK
  <2> QED
    BY <2>2, <2>3 DEF RowInv, RowsOnRecord
<1>6. SignedByAnother'
  BY DEF Sign, RowInv, SignedByAnother, RtgsTypeOK, DutiesSeparated
<1>7. WorkerInv' /\ RowsHeldOnce' /\ OutcomesUpToPos'
  BY EndpointKeepsBatches DEF Sign, RowInv, RtgsTypeOK
<1> QED
  BY <1>2, <1>3, <1>5, <1>6, <1>7 DEF RowInv

(* A step of a worker that leaves the rows, the batches and the outcomes   *)
(* alone: taking, awaiting or using a lock.                                *)
LEMMA LockStepRowInv ==
  ASSUME RowInv, LedgerInv', WorkerInv', NEW w \in Workers,
         NEW next \in {"read", "wait", "act"}, pc' = [pc EXCEPT ![w] = next],
         UNCHANGED <<rowVars, batch, pos, outcome, crashes>>
  PROVE  RowInv'
<1> USE DEF RowInv, rowVars
<1>1. RtgsTypeOK'
  BY DEF RtgsTypeOK, LedgerInv
<1>2. FinitelyMany'
  BY DEF FinitelyMany
<1>3. RowsOnRecord' /\ SignedByAnother'
  BY DEF RowsOnRecord, SignedByAnother
<1>4. RowsHeldOnce'
  BY DEF RowsHeldOnce, InBatch
<1>5. OutcomesUpToPos'
  BY DEF OutcomesUpToPos, InBatch, RtgsTypeOK
<1> QED
  BY <1>1, <1>2, <1>3, <1>4, <1>5

(* The query's order is strict, so it returns no row twice. *)
LEMMA OrderIsStrict ==
  ASSUME RowInv, NEW r \in Refs
  PROVE  ~Precedes(r, r)
<1>1. queuedAt[r] \in Nat /\ Instruction[r].priority \in Priorities
  BY RtgsAssumption DEF RowInv, RtgsTypeOK
<1>2. ColumnOrder[Instruction[r].priority] \in Nat
  BY <1>1 DEF ColumnOrder, Priorities
<1> QED
  BY <1>1, <1>2 DEF Precedes

(* FOR UPDATE SKIP LOCKED hands a worker signed rows nobody else holds. *)
LEMMA FetchRowInv ==
  ASSUME RowInv, LedgerInv', WorkerInv', NEW w \in Workers, FetchBatch(w)
  PROVE  RowInv'
<1>1. PICK n \in 1..BatchLimit : \E q \in [1..n -> Fetchable] :
         IsBatch(q) /\ batch' = [batch EXCEPT ![w] = q]
  BY DEF FetchBatch
<1>2. PICK q \in [1..n -> Fetchable] :
         IsBatch(q) /\ batch' = [batch EXCEPT ![w] = q]
  BY <1>1
<1>3. n \in Nat /\ q \in Seq(Refs) /\ Len(q) = n /\ DOMAIN q = 1..n
  BY RtgsAssumption, BatchIsSequence
<1>4. /\ pc[w] = "idle" /\ pc' = [pc EXCEPT ![w] = "lock"]
      /\ pos' = [pos EXCEPT ![w] = 1]
      /\ UNCHANGED <<ledgerVars, rowVars, outcome, crashes>>
  BY DEF FetchBatch
<1>5. /\ batch'[w] = q /\ pos'[w] = 1 /\ pc'[w] = "lock"
      /\ \A v \in Workers \ {w} :
           batch'[v] = batch[v] /\ pos'[v] = pos[v] /\ pc'[v] = pc[v]
  BY <1>2, <1>4 DEF RowInv, WorkerInv
<1>6. RtgsTypeOK'
  BY <1>2, <1>3, <1>4 DEF RowInv, RtgsTypeOK, rowVars, LedgerInv
<1>7. FinitelyMany' /\ RowsOnRecord' /\ SignedByAnother'
  BY <1>4 DEF RowInv, rowVars, FinitelyMany, RowsOnRecord, SignedByAnother
<1>8. \A r \in Refs : InBatch(w, r)' => r \in Fetchable
  BY <1>3, <1>5 DEF InBatch
<1>9. \A v \in Workers \ {w}, r \in Refs : InBatch(v, r)' <=> InBatch(v, r)
  BY <1>5 DEF InBatch
<1>10. RowsHeldOnce'
  <2>1. \A v \in Workers, r \in Refs : InBatch(v, r)' => status'[r] = "signed"
    BY <1>4, <1>8, <1>9 DEF RowInv, RowsHeldOnce, Fetchable, rowVars
  <2>2. \A u, v \in Workers, r \in Refs : InBatch(u, r)' /\ InBatch(v, r)' => u = v
    BY <1>8, <1>9 DEF RowInv, RowsHeldOnce, Fetchable, RowLocked
  <2>3. ASSUME NEW i \in 1..n, NEW j \in 1..n, q[i] = q[j] PROVE i = j
    <3>1. q[i] \in Refs /\ i \in Int /\ j \in Int
      BY <1>2 DEF Fetchable
    <3>2. ~(i < j) /\ ~(j < i)
      BY <1>2, <1>3, <2>3, <3>1, OrderIsStrict DEF IsBatch
    <3> QED
      BY <3>1, <3>2
  <2>4. \A v \in Workers : \A i, j \in DOMAIN batch'[v] :
          batch'[v][i] = batch'[v][j] => i = j
    BY <1>3, <1>5, <2>3 DEF RowInv, RowsHeldOnce
  <2> QED
    BY <2>1, <2>2, <2>4 DEF RowsHeldOnce
<1>11. OutcomesUpToPos'
  <2>1. batch[w] = <<>> /\ \A r \in Refs : outcome[w][r] = "none"
    BY <1>4 DEF RowInv, OutcomesUpToPos, InBatch
  <2>2. \A i \in 1..n : q[i] \in Refs /\ ~(i < 1)
    BY <1>2, <1>3 DEF Fetchable
  <2> QED
    BY <1>3, <1>4, <1>5, <1>9, <2>1, <2>2 DEF RowInv, OutcomesUpToPos
<1> QED
  BY <1>6, <1>7, <1>10, <1>11 DEF RowInv

(* Settling or failing the current row gives it its outcome and moves on. *)
LEMMA ResolveRowInv ==
  ASSUME RowInv, LedgerInv', WorkerInv', NEW w \in Workers,
         NEW result \in {"settled", "failed"},
         pc[w] = "act", Resolve(w, result), UNCHANGED <<rowVars, batch, crashes>>
  PROVE  RowInv'
<1> DEFINE c == Current(w)
<1>1. c \in Refs /\ pos[w] \in 1..Len(batch[w]) /\ batch[w] \in Seq(Refs)
  BY CurrentIsInstruction DEF RowInv, WorkerInv, WorkerAtRow
<1>2. c = batch[w][pos[w]] /\ Len(batch[w]) \in Nat /\ DOMAIN batch[w] = 1..Len(batch[w])
  BY <1>1 DEF Current
<1>3. /\ outcome' = [outcome EXCEPT ![w][c] = result]
      /\ pos' = [pos EXCEPT ![w] = @ + 1]
      /\ pc' = [pc EXCEPT ![w] = IF pos[w] = Len(batch[w]) THEN "commit" ELSE "lock"]
  BY DEF Resolve
<1> HIDE DEF c
<1>4. /\ outcome'[w][c] = result /\ pos'[w] = pos[w] + 1
      /\ \A r \in Refs \ {c} : outcome'[w][r] = outcome[w][r]
      /\ pc'[w] = IF pos[w] = Len(batch[w]) THEN "commit" ELSE "lock"
      /\ \A v \in Workers \ {w} :
           pc'[v] = pc[v] /\ pos'[v] = pos[v] /\ outcome'[v] = outcome[v]
  BY <1>1, <1>3 DEF RowInv, RtgsTypeOK
<1>5. RtgsTypeOK'
  <2>1. outcome' \in [Workers -> [Refs -> {"none", "settled", "failed"}]]
    BY <1>1, <1>3 DEF RowInv, RtgsTypeOK
  <2> QED
    BY <1>3, <2>1 DEF RowInv, RtgsTypeOK, LedgerInv, rowVars
<1>6. FinitelyMany' /\ RowsOnRecord' /\ SignedByAnother'
  BY DEF RowInv, rowVars, FinitelyMany, RowsOnRecord, SignedByAnother
<1>7. RowsHeldOnce'
  BY DEF RowInv, rowVars, RowsHeldOnce, InBatch
<1>8. OutcomesUpToPos'
  <2>1. \A v \in Workers \ {w} :
          /\ \A r \in Refs : ~InBatch(v, r)' => outcome'[v][r] = "none"
          /\ \A i \in DOMAIN batch'[v] : outcome'[v][batch'[v][i]] # "none" <=> i < pos'[v]
          /\ pc'[v] = "idle" => batch'[v] = <<>>
          /\ pc'[v] = "commit" => pos'[v] = Len(batch'[v]) + 1
    BY <1>4 DEF RowInv, OutcomesUpToPos, InBatch
  <2>2. \A r \in Refs : ~InBatch(w, r)' => outcome'[w][r] = "none"
    <3>1. InBatch(w, c) /\ \A r \in Refs : InBatch(w, r)' <=> InBatch(w, r)
      BY <1>1, <1>2 DEF InBatch
    <3>2. \A r \in Refs : ~InBatch(w, r) => outcome[w][r] = "none"
      BY DEF RowInv, OutcomesUpToPos
    <3> QED
      BY <1>4, <3>1, <3>2
  <2>3. ASSUME NEW i \in DOMAIN batch[w]
        PROVE  outcome'[w][batch[w][i]] # "none" <=> i < pos'[w]
    <3>1. batch[w][i] \in Refs /\ i \in Int /\ pos[w] \in Int
      BY <1>1, <1>2
    <3>2. outcome[w][batch[w][i]] # "none" <=> i < pos[w]
      BY DEF RowInv, OutcomesUpToPos
    <3>3. CASE i = pos[w]
      BY <1>2, <1>4, <3>1, <3>3
    <3>4. CASE i # pos[w]
      <4>1. batch[w][i] # c
        BY <1>1, <1>2, <3>4 DEF RowInv, RowsHeldOnce
      <4> QED
        BY <1>4, <3>1, <3>2, <3>4, <4>1
    <3> QED
      BY <3>3, <3>4
  <2>4. /\ pc'[w] # "idle"
        /\ pc'[w] = "commit" => pos'[w] = Len(batch[w]) + 1
    BY <1>4
  <2> QED
    BY <2>1, <2>2, <2>3, <2>4 DEF OutcomesUpToPos
<1> QED
  BY <1>5, <1>6, <1>7, <1>8 DEF RowInv

(* A batch that is given up leaves its rows signed and unlocked. *)
LEMMA AbandonRowInv ==
  ASSUME RowInv, LedgerInv', WorkerInv', NEW w \in Workers, AbandonBatch(w),
         crashes' \in Nat
  PROVE  RowInv'
<1>1. /\ batch'[w] = <<>> /\ pos'[w] = 0 /\ pc'[w] = "idle"
      /\ \A r \in Refs : outcome'[w][r] = "none"
      /\ \A v \in Workers \ {w} :
           /\ batch'[v] = batch[v] /\ pos'[v] = pos[v]
           /\ pc'[v] = pc[v] /\ outcome'[v] = outcome[v]
  BY DEF AbandonBatch, RowInv, RtgsTypeOK
<1>2. UNCHANGED rowVars
  BY DEF AbandonBatch
<1>3. RtgsTypeOK'
  BY <1>2 DEF AbandonBatch, RowInv, RtgsTypeOK, LedgerInv, rowVars
<1>4. FinitelyMany' /\ RowsOnRecord' /\ SignedByAnother'
  BY <1>2 DEF RowInv, rowVars, FinitelyMany, RowsOnRecord, SignedByAnother
<1>5. RowsHeldOnce'
  BY <1>1, <1>2 DEF RowInv, rowVars, RowsHeldOnce, InBatch
<1>6. OutcomesUpToPos'
  BY <1>1 DEF RowInv, OutcomesUpToPos, InBatch
<1> QED
  BY <1>3, <1>4, <1>5, <1>6 DEF RowInv

(* Every row of a batch that is about to be committed has its outcome. *)
LEMMA CommitOutcomes ==
  ASSUME RowInv, NEW w \in Workers, pc[w] = "commit", NEW r \in Refs
  PROVE  InBatch(w, r) <=> outcome[w][r] \in {"settled", "failed"}
<1>1. outcome[w][r] \in {"none", "settled", "failed"}
  BY DEF RowInv, RtgsTypeOK
<1>2. ASSUME InBatch(w, r) PROVE outcome[w][r] # "none"
  <2>1. PICK i \in DOMAIN batch[w] : batch[w][i] = r
    BY <1>2 DEF InBatch
  <2>2. batch[w] \in Seq(Refs) /\ pos[w] = Len(batch[w]) + 1
    BY DEF RowInv, RtgsTypeOK, OutcomesUpToPos
  <2>3. i < pos[w]
    BY <2>1, <2>2
  <2> QED
    BY <2>1, <2>3 DEF RowInv, OutcomesUpToPos
<1>3. ~InBatch(w, r) => outcome[w][r] = "none"
  BY DEF RowInv, OutcomesUpToPos
<1> QED
  BY <1>1, <1>2, <1>3

(* The commit publishes the outcomes of the batch, its history rows and    *)
(* its events, and unlocks its rows.                                       *)
LEMMA CommitRowInv ==
  ASSUME RowInv, LedgerInv', WorkerInv', NEW w \in Workers, CommitBatch(w)
  PROVE  RowInv'
<1>1. /\ batch'[w] = <<>> /\ pos'[w] = 0 /\ pc'[w] = "idle"
      /\ \A r \in Refs : outcome'[w][r] = "none"
      /\ \A v \in Workers \ {w} :
           /\ batch'[v] = batch[v] /\ pos'[v] = pos[v]
           /\ pc'[v] = pc[v] /\ outcome'[v] = outcome[v]
  BY DEF CommitBatch, RowInv, RtgsTypeOK
<1>2. ASSUME NEW r \in Refs, ~InBatch(w, r)
      PROVE  /\ status'[r] = status[r] /\ history'[r] = history[r]
             /\ outbox'[r] = outbox[r]
  BY <1>2 DEF CommitBatch
<1>3. ASSUME NEW r \in Refs, InBatch(w, r)
      PROVE  /\ status[r] = "signed"
             /\ outcome[w][r] \in {"settled", "failed"}
             /\ status'[r] = outcome[w][r]
             /\ history'[r] = <<"approved", "signed", "processing", status'[r]>>
             /\ outbox'[r] = <<"submitted", "processing",
                              IF status'[r] = "settled" THEN "completed" ELSE "failed">>
  <2>1. status[r] = "signed"
    BY <1>3 DEF RowInv, RowsHeldOnce
  <2>2. history[r] = <<"approved", "signed">> /\ outbox[r] = <<"submitted">>
    BY <2>1 DEF RowInv, RowsOnRecord
  <2>3. outcome[w][r] \in {"settled", "failed"}
    BY <1>3, CommitOutcomes DEF CommitBatch
  <2>4. /\ status'[r] = outcome[w][r]
        /\ history'[r] = history[r] \o <<"processing", outcome[w][r]>>
        /\ outbox'[r] = outbox[r] \o <<"processing", Announcement[outcome[w][r]]>>
    BY <1>3 DEF CommitBatch
  <2>5. Announcement[outcome[w][r]]
          = IF outcome[w][r] = "settled" THEN "completed" ELSE "failed"
    BY <2>3 DEF Announcement
  <2> QED
    BY <2>1, <2>2, <2>3, <2>4, <2>5, OneAndTwo, TwoAndTwo
<1>4. RowsOnRecord'
  BY <1>2, <1>3 DEF RowInv, RowsOnRecord
<1>5. RtgsTypeOK'
  <2>1. status' \in [Refs -> Statuses]
    <3>1. DOMAIN status' = Refs /\ status' = [r \in Refs |-> status'[r]]
      BY DEF CommitBatch
    <3>2. \A r \in Refs : status'[r] \in Statuses
      BY <1>2, <1>3, StatusesNamed DEF RowInv, RtgsTypeOK
    <3> QED
      BY <3>1, <3>2
  <2>2. history' \in [Refs -> Seq(Statuses)]
    <3>1. history' = [r \in Refs |-> history'[r]]
      BY DEF CommitBatch
    <3>2. ASSUME NEW r \in Refs PROVE history'[r] \in Seq(Statuses)
      <4>1. CASE InBatch(w, r)
        <5>1. /\ history'[r] = <<"approved", "signed", "processing", status'[r]>>
              /\ status'[r] \in {"settled", "failed"}
          BY <1>3, <4>1
        <5> QED
          BY <5>1, StatusesNamed
      <4>2. CASE ~InBatch(w, r)
        BY <1>2, <4>2 DEF RowInv, RtgsTypeOK
      <4> QED
        BY <4>1, <4>2
    <3> QED
      BY <3>1, <3>2
  <2>3. outbox' \in [Refs -> Seq({"submitted", "processing", "completed", "failed"})]
    <3>1. outbox' = [r \in Refs |-> outbox'[r]]
      BY DEF CommitBatch
    <3>2. ASSUME NEW r \in Refs
          PROVE  outbox'[r] \in Seq({"submitted", "processing", "completed", "failed"})
      <4>1. CASE InBatch(w, r)
        <5>1. \/ outbox'[r] = <<"submitted", "processing", "completed">>
              \/ outbox'[r] = <<"submitted", "processing", "failed">>
          BY <1>3, <4>1
        <5>2. /\ <<"submitted", "processing", "completed">>
                   \in Seq({"submitted", "processing", "completed", "failed"})
              /\ <<"submitted", "processing", "failed">>
                   \in Seq({"submitted", "processing", "completed", "failed"})
          OBVIOUS
        <5> QED
          BY <5>1, <5>2
      <4>2. CASE ~InBatch(w, r)
        BY <1>2, <4>2 DEF RowInv, RtgsTypeOK
      <4> QED
        BY <4>1, <4>2
    <3> QED
      BY <3>1, <3>2
  <2>4. outcome' \in [Workers -> [Refs -> {"none", "settled", "failed"}]]
    BY DEF CommitBatch, RowInv, RtgsTypeOK
  <2> QED
    BY <2>1, <2>2, <2>3, <2>4 DEF CommitBatch, RowInv, RtgsTypeOK, LedgerInv, WorkerInv
<1>6. FinitelyMany'
  <2>1. {r \in Refs : status'[r] # "none"} = {r \in Refs : status[r] # "none"}
    BY <1>2, <1>3
  <2> QED
    BY <2>1 DEF RowInv, FinitelyMany
<1>7. SignedByAnother'
  BY <1>2, <1>3 DEF CommitBatch, RowInv, SignedByAnother
<1>8. RowsHeldOnce'
  <2>1. \A r \in Refs : ~InBatch(w, r)'
    BY <1>1 DEF InBatch
  <2>2. \A v \in Workers \ {w}, r \in Refs : InBatch(v, r)' => InBatch(v, r) /\ ~InBatch(w, r)
    BY <1>1 DEF InBatch, RowInv, RowsHeldOnce
  <2>3. \A v \in Workers, r \in Refs : InBatch(v, r)' => status'[r] = "signed"
    BY <1>2, <2>1, <2>2 DEF RowInv, RowsHeldOnce
  <2>4. \A u, v \in Workers, r \in Refs : InBatch(u, r)' /\ InBatch(v, r)' => u = v
    BY <2>1, <2>2 DEF RowInv, RowsHeldOnce
  <2>5. \A v \in Workers : \A i, j \in DOMAIN batch'[v] :
          batch'[v][i] = batch'[v][j] => i = j
    BY <1>1 DEF RowInv, RowsHeldOnce
  <2> QED
    BY <2>3, <2>4, <2>5 DEF RowsHeldOnce
<1>9. OutcomesUpToPos'
  BY <1>1 DEF RowInv, OutcomesUpToPos, InBatch
<1> QED
  BY <1>4, <1>5, <1>6, <1>7, <1>8, <1>9 DEF RowInv

(* Every step of the service preserves the invariant. *)
LEMMA NextRowInv == RowInv /\ LedgerInv' /\ [Next]_vars => RowInv'
<1> SUFFICES ASSUME RowInv, LedgerInv', [Next]_vars PROVE RowInv'
  OBVIOUS
<1>1. WorkerInv'
  BY NextWorkerInv DEF RowInv
<1>2. ASSUME NEW w \in Workers, LockSender(w) \/ WaitForSender(w) \/ ReadSender(w)
      PROVE  RowInv'
  BY <1>1, <1>2, LockStepRowInv DEF LockSender, WaitForSender, ReadSender
<1>3. ASSUME NEW w \in Workers, Settle(w) \/ FailInsufficient(w) PROVE RowInv'
  BY <1>1, <1>3, ResolveRowInv DEF Settle, FailInsufficient
<1>4. ASSUME NEW w \in Workers, RejectedByCheck(w) \/ DeadlockVictim(w) \/ Crash(w)
      PROVE  RowInv'
  <2>1. AbandonBatch(w) /\ (crashes' = crashes \/ crashes' = crashes + 1)
    BY <1>4 DEF RejectedByCheck, DeadlockVictim, Crash
  <2>2. crashes' \in Nat
    BY <2>1 DEF RowInv, RtgsTypeOK
  <2> QED
    BY <1>1, <2>1, <2>2, AbandonRowInv
<1>5. ASSUME UNCHANGED vars PROVE RowInv'
  BY <1>5
  DEF vars, ledgerVars, rowVars, workerVars, RowInv, RtgsTypeOK, LedgerTypeOK,
      FinitelyMany, WorkerInv, WorkerAtRow, RowsOnRecord, SignedByAnother,
      RowsHeldOnce, OutcomesUpToPos, InBatch
<1> QED
  BY <1>1, <1>2, <1>3, <1>4, <1>5, SubmitRowInv, ApproveRowInv, SignRowInv,
     FetchRowInv, CommitRowInv DEF Next, WorkerStep, PollEmpty

(* What is on record of every settlement, which worker holds it and which  *)
(* outcome it has, at every step of every run.                             *)
THEOREM RowInvariant == Spec => []RowInv
<1>1. Spec => []LedgerInv
  BY RtgsImplementsLedger, LedgerInvariant, PTL
<1> QED
  BY <1>1, InitRowInv, NextRowInv, PTL DEF Spec

(* Every variable of the service keeps its type. *)
THEOREM RtgsTypeCorrectness == Spec => []RtgsTypeOK
<1>1. RowInv => RtgsTypeOK
  BY DEF RowInv
<1> QED
  BY <1>1, RowInvariant, PTL

(* How often an event is in a list, when it is at no place ... *)
LEMMA CountNone ==
  ASSUME NEW rows, NEW x, \A i \in DOMAIN rows : rows[i] # x
  PROVE  Count(rows, x) = 0
BY NotListed DEF Count

(* ... or at one place only. *)
LEMMA CountOnce ==
  ASSUME NEW rows, NEW x, NEW n \in DOMAIN rows,
         \A i \in DOMAIN rows : rows[i] = x <=> i = n
  PROVE  Count(rows, x) = 1
BY ListedOnce DEF Count

(* The transactional outbox: the final event of a settlement is written    *)
(* once, in the transaction that gives it its final status, through every  *)
(* crash, rollback and lock cycle of any number of workers.                *)
THEOREM RtgsOutboxAgrees == Spec => []OutboxAgrees
<1>1. RowInv => OutboxAgrees
  <2> SUFFICES ASSUME RowInv, NEW r \in Refs
               PROVE  /\ Count(outbox[r], "completed") = IF status[r] = "settled" THEN 1 ELSE 0
                      /\ Count(outbox[r], "failed") = IF status[r] = "failed" THEN 1 ELSE 0
                      /\ Count(outbox[r], "processing") =
                           IF status[r] \in {"settled", "failed"} THEN 1 ELSE 0
    BY DEF OutboxAgrees
  <2>1. CASE status[r] = "none"
    BY <2>1, CountNone DEF RowInv, RowsOnRecord
  <2>2. CASE status[r] \in {"pending", "approved", "signed"}
    <3>1. outbox[r] = <<"submitted">>
      BY <2>2 DEF RowInv, RowsOnRecord
    <3>2. \A i \in DOMAIN outbox[r] : outbox[r][i] = "submitted"
      BY <3>1
    <3> QED
      BY <2>2, <3>2, CountNone
  <2>3. CASE status[r] = "settled"
    <3>1. outbox[r] = <<"submitted", "processing", "completed">>
      BY <2>3 DEF RowInv, RowsOnRecord
    <3>2. /\ DOMAIN outbox[r] = {1, 2, 3} /\ outbox[r][1] = "submitted"
          /\ outbox[r][2] = "processing" /\ outbox[r][3] = "completed"
      BY <3>1
    <3>3. Count(outbox[r], "completed") = 1
      BY <3>2, CountOnce
    <3>4. Count(outbox[r], "processing") = 1
      BY <3>2, CountOnce
    <3>5. Count(outbox[r], "failed") = 0
      BY <3>2, CountNone
    <3> QED
      BY <2>3, <3>3, <3>4, <3>5
  <2>4. CASE status[r] = "failed"
    <3>1. outbox[r] = <<"submitted", "processing", "failed">>
      BY <2>4 DEF RowInv, RowsOnRecord
    <3>2. /\ DOMAIN outbox[r] = {1, 2, 3} /\ outbox[r][1] = "submitted"
          /\ outbox[r][2] = "processing" /\ outbox[r][3] = "failed"
      BY <3>1
    <3>3. Count(outbox[r], "failed") = 1
      BY <3>2, CountOnce
    <3>4. Count(outbox[r], "processing") = 1
      BY <3>2, CountOnce
    <3>5. Count(outbox[r], "completed") = 0
      BY <3>2, CountNone
    <3> QED
      BY <2>4, <3>3, <3>4, <3>5
  <2> QED
    BY <2>1, <2>2, <2>3, <2>4 DEF RowInv, RowsOnRecord
<1> QED
  BY <1>1, RowInvariant, PTL

(* Funds move only on the word of two actor ids: every settlement a worker *)
(* holds or has resolved was approved once and signed once, by different   *)
(* ones (a missing id differs from every other).                           *)
THEOREM RtgsTwoPersonRule == Spec => []TwoPersonRule
<1>1. RowInv => TwoPersonRule
  <2> SUFFICES ASSUME RowInv, NEW r \in Refs,
                      RowLocked(r) \/ status[r] \in {"settled", "failed"}
               PROVE  /\ approvedBy[r] # signedBy[r]
                      /\ Count(history[r], "approved") = 1
                      /\ Count(history[r], "signed") = 1
    BY DEF TwoPersonRule
  <2>1. status[r] \in {"signed", "settled", "failed"}
    BY DEF RowInv, RowsHeldOnce, RowLocked
  <2>2. approvedBy[r] # signedBy[r]
    BY <2>1 DEF RowInv, SignedByAnother
  <2>3. \/ history[r] = <<"approved", "signed">>
        \/ history[r] = <<"approved", "signed", "processing", "settled">>
        \/ history[r] = <<"approved", "signed", "processing", "failed">>
    BY <2>1 DEF RowInv, RowsOnRecord
  <2>4. /\ 1 \in DOMAIN history[r] /\ 2 \in DOMAIN history[r]
        /\ history[r][1] = "approved" /\ history[r][2] = "signed"
        /\ \A i \in DOMAIN history[r] \ {1, 2} :
             history[r][i] \in {"processing", "settled", "failed"}
    BY <2>3
  <2>5. Count(history[r], "approved") = 1
    BY <2>4, CountOnce
  <2>6. Count(history[r], "signed") = 1
    BY <2>4, CountOnce
  <2> QED
    BY <2>2, <2>5, <2>6
<1> QED
  BY <1>1, RowInvariant, PTL

-----------------------------------------------------------------------------
(* Reconciliation and the promise.                                         *)

(* The settlements the table says are settled. *)
Settled == {r \in Refs : status[r] = "settled"}

(* What a settled instruction adds to a key is a number. *)
LEMMA InflowType ==
  ASSUME NEW k
  PROVE  Promise!Inflow(k) \in [Refs -> Int]
<1>1. ASSUME NEW r \in Refs PROVE Instruction[r].amount \in Int
  <2>1. Instruction[r].amount \in Amounts
    BY RtgsAssumption
  <2>2. \A n \in Amounts : n \in Int
    BY AmountsAssumption
  <2> QED
    BY <2>1, <2>2
<1> QED
  BY <1>1 DEF Promise!Inflow

(* The net inflow of a set of instructions, taken apart. *)
LEMMA NetInflowParts ==
  ASSUME NEW k, NEW S \in SUBSET Refs, IsFiniteSet(S)
  PROVE  /\ Promise!NetInflow(k, {}) = 0
         /\ Promise!NetInflow(k, S) \in Int
         /\ \A c \in Refs \ S :
              Promise!NetInflow(k, S \cup {c})
                = Promise!NetInflow(k, S) + Promise!Inflow(k)[c]
         /\ \A T \in SUBSET Refs :
              IsFiniteSet(T) /\ S \cap T = {} =>
                Promise!NetInflow(k, S \cup T)
                  = Promise!NetInflow(k, S) + Promise!NetInflow(k, T)
<1> DEFINE f == Promise!Inflow(k)
<1>1. f \in [Refs -> Int]
  BY InflowType
<1>2. \A T : Promise!NetInflow(k, T) = SumFunctionOnSet(f, T)
  BY DEF Promise!NetInflow, Promise!SumFunctionOnSet, Promise!FoldFunctionOnSet,
         Promise!MapThenFoldSet, SumFunctionOnSet, FoldFunctionOnSet, MapThenFoldSet
<1> HIDE DEF f
<1>3. SumFunctionOnSet(f, {}) = 0
  BY SumUnfold
<1>4. SumFunctionOnSet(f, S) \in Int
  BY <1>1, SumType
<1>5. \A c \in Refs \ S : SumFunctionOnSet(f, S \cup {c}) = SumFunctionOnSet(f, S) + f[c]
  BY <1>1, SumAdd
<1>6. ASSUME NEW T \in SUBSET Refs, IsFiniteSet(T), S \cap T = {}
      PROVE  SumFunctionOnSet(f, S \cup T)
               = SumFunctionOnSet(f, S) + SumFunctionOnSet(f, T)
  BY <1>1, <1>6, SumUnion
<1> QED
  BY <1>2, <1>3, <1>4, <1>5, <1>6 DEF f

(* The rows a worker has settled are signed rows of its batch, and both    *)
(* they and the settled settlements are finitely many.                     *)
LEMMA SettledByFinite ==
  ASSUME RowInv, NEW w \in Workers
  PROVE  /\ SettledBy(w) \in SUBSET Refs /\ IsFiniteSet(SettledBy(w))
         /\ Settled \in SUBSET Refs /\ IsFiniteSet(Settled)
         /\ \A r \in SettledBy(w) : status[r] = "signed"
<1> DEFINE known == {r \in Refs : status[r] # "none"}
<1>1. \A r \in SettledBy(w) : status[r] = "signed"
  BY DEF SettledBy, RowInv, OutcomesUpToPos, RowsHeldOnce
<1>2. SettledBy(w) \in SUBSET known /\ Settled \in SUBSET known
  BY <1>1 DEF SettledBy, Settled
<1>3. IsFiniteSet(known)
  BY DEF RowInv, FinitelyMany
<1>4. IsFiniteSet(SettledBy(w)) /\ IsFiniteSet(Settled)
  <2> HIDE DEF known
  <2> QED
    BY <1>2, <1>3, FS_Subset
<1> QED
  BY <1>1, <1>4 DEF SettledBy, Settled

(* A step that leaves the entries and outcomes of the workers, the journal *)
(* and the set of settled settlements alone.                               *)
LEMMA QuietJournalInv ==
  ASSUME JournalInv, UNCHANGED <<ledger, delta, outcome>>, Settled' = Settled
  PROVE  JournalInv'
<1>1. PendingReconciled'
  BY DEF JournalInv, PendingReconciled, SettledBy
<1>2. Reconciled'
  BY DEF JournalInv, Reconciled, Settled
<1> QED
  BY <1>1, <1>2 DEF JournalInv

(* Recording the pair of a row adds its inflow to what is pending. *)
LEMMA SettleJournalInv ==
  ASSUME JournalInv, RowInv, LedgerInv, NEW w \in Workers, Settle(w)
  PROVE  JournalInv'
<1> DEFINE c == Current(w)
           in == Instruction[c]
<1>1. /\ c \in Refs /\ in.from \in Keys /\ in.to \in Keys /\ in.amount \in Int
      /\ pos[w] \in DOMAIN batch[w] /\ c = batch[w][pos[w]] /\ pos[w] \in Int
  <2>1. pc[w] = "act" /\ WorkerInv
    BY DEF Settle, RowInv
  <2>2. pos[w] \in 1..Len(batch[w]) /\ batch[w] \in Seq(Refs)
    BY <2>1 DEF WorkerInv, WorkerAtRow
  <2>3. c \in Refs /\ in.from \in Keys /\ in.to \in Keys /\ in.amount \in Amounts
    BY <2>1, CurrentIsInstruction DEF Sender
  <2>4. \A n \in Amounts : n \in Int
    BY AmountsAssumption
  <2>5. pos[w] \in DOMAIN batch[w] /\ c = batch[w][pos[w]] /\ pos[w] \in Int
    BY <2>2 DEF Current
  <2> QED
    BY <2>3, <2>4, <2>5
<1>2. /\ delta' = PairEntries(w, in.from, in.to, in.amount)
      /\ outcome' = [outcome EXCEPT ![w][c] = "settled"]
      /\ UNCHANGED <<ledger, status>>
  BY DEF Settle, RecordJournalPair, Resolve, rowVars
<1>3. c \notin SettledBy(w)
  BY <1>1 DEF SettledBy, RowInv, OutcomesUpToPos
<1> HIDE DEF c
<1>4. /\ SettledBy(w)' = SettledBy(w) \cup {c}
      /\ \A v \in Workers \ {w} : SettledBy(v)' = SettledBy(v)
  BY <1>1, <1>2 DEF SettledBy, RowInv, RtgsTypeOK
<1>5. w \in Sessions /\ delta \in [Sessions -> [Keys -> Int]] /\ Workers \subseteq Sessions
  BY RtgsAssumption DEF LedgerInv, LedgerTypeOK
<1>6. \A v \in Workers \ {w} : delta'[v] = delta[v]
  BY <1>2, <1>5 DEF PairEntries
<1>7. ASSUME NEW k \in Keys
      PROVE  delta'[w][k] = Promise!NetInflow(k, SettledBy(w)')
  <2>1. delta'[w][k] = delta[w][k] - (IF k = in.from THEN in.amount ELSE 0)
                                   + (IF k = in.to THEN in.amount ELSE 0)
    BY <1>2, <1>5 DEF PairEntries
  <2>2. Promise!Inflow(k)[c] = (IF in.to = k THEN in.amount ELSE 0)
                                 - (IF in.from = k THEN in.amount ELSE 0)
    BY <1>1 DEF Promise!Inflow
  <2>3. Promise!NetInflow(k, SettledBy(w) \cup {c})
          = Promise!NetInflow(k, SettledBy(w)) + Promise!Inflow(k)[c]
    BY <1>1, <1>3, SettledByFinite, NetInflowParts
  <2>4. delta[w][k] = Promise!NetInflow(k, SettledBy(w)) /\ delta[w][k] \in Int
    BY <1>5 DEF JournalInv, PendingReconciled
  <2>5. delta'[w][k] = delta[w][k] + Promise!Inflow(k)[c]
    BY <1>1, <2>1, <2>2, <2>4
  <2> QED
    BY <1>4, <2>3, <2>4, <2>5
<1>8. PendingReconciled'
  BY <1>4, <1>6, <1>7 DEF JournalInv, PendingReconciled
<1>9. Reconciled'
  BY <1>2 DEF JournalInv, Reconciled
<1> QED
  BY <1>8, <1>9 DEF JournalInv

(* Refusing a row leaves its worker's entries as they were. *)
LEMMA FailJournalInv ==
  ASSUME JournalInv, RowInv, NEW w \in Workers, FailInsufficient(w)
  PROVE  JournalInv'
<1> DEFINE c == Current(w)
<1>1. /\ c \in Refs /\ pos[w] \in DOMAIN batch[w] /\ c = batch[w][pos[w]]
      /\ pos[w] \in Int
  BY CurrentIsInstruction
  DEF FailInsufficient, RowInv, WorkerInv, WorkerAtRow, Current
<1>2. /\ outcome' = [outcome EXCEPT ![w][c] = "failed"]
      /\ UNCHANGED <<ledger, delta, status>>
  BY DEF FailInsufficient, RefuseInsufficient, Resolve, rowVars
<1>3. c \notin SettledBy(w)
  BY <1>1 DEF SettledBy, RowInv, OutcomesUpToPos
<1> HIDE DEF c
<1>4. \A v \in Workers : SettledBy(v)' = SettledBy(v)
  BY <1>1, <1>2, <1>3 DEF SettledBy, RowInv, RtgsTypeOK
<1>5. PendingReconciled'
  BY <1>2, <1>4 DEF JournalInv, PendingReconciled
<1>6. Reconciled'
  BY <1>2 DEF JournalInv, Reconciled
<1> QED
  BY <1>5, <1>6 DEF JournalInv

(* The end of a worker's transaction leaves it with nothing pending. *)
LEMMA EndJournalInv ==
  ASSUME JournalInv, LedgerInv, RowInv, NEW w \in Workers, EndTransaction(w),
         outcome' = [outcome EXCEPT ![w] = [r \in Refs |-> "none"]]
  PROVE  PendingReconciled'
<1>1. /\ SettledBy(w)' = {}
      /\ \A v \in Workers \ {w} : SettledBy(v)' = SettledBy(v)
  BY DEF SettledBy, RowInv, RtgsTypeOK
<1>2. w \in Sessions /\ Workers \subseteq Sessions
  BY RtgsAssumption
<1>3. /\ \A k \in Keys : delta'[w][k] = 0
      /\ \A v \in Workers \ {w} : delta'[v] = delta[v]
  BY <1>2, EndTransactionEffect
<1>4. \A k \in Keys : Promise!NetInflow(k, {}) = 0
  BY FS_EmptySet, NetInflowParts
<1> QED
  BY <1>1, <1>3, <1>4 DEF JournalInv, PendingReconciled

(* Giving a batch up leaves the journal and the settlements alone. *)
LEMMA AbandonJournalInv ==
  ASSUME JournalInv, LedgerInv, RowInv, NEW w \in Workers, AbandonBatch(w)
  PROVE  JournalInv'
<1>1. PendingReconciled'
  BY EndJournalInv DEF AbandonBatch, Rollback
<1>2. Reconciled'
  BY DEF AbandonBatch, Rollback, rowVars, JournalInv, Reconciled
<1> QED
  BY <1>1, <1>2 DEF JournalInv

(* What a commit does to the table and to the journal. *)
LEMMA CommitMovesFunds ==
  ASSUME JournalInv, LedgerInv, RowInv, NEW w \in Workers, CommitBatch(w)
  PROVE  /\ Settled' = Settled \cup SettledBy(w)
         /\ Settled \cap SettledBy(w) = {}
         /\ \A k \in Keys : ledger'[k] = ledger[k] + Promise!NetInflow(k, SettledBy(w))
<1>1. \A r \in Refs : status'[r] = IF InBatch(w, r) THEN outcome[w][r] ELSE status[r]
  BY DEF CommitBatch
<1>2. \A r \in Refs : InBatch(w, r) <=> outcome[w][r] \in {"settled", "failed"}
  BY CommitOutcomes DEF CommitBatch
<1>3. \A r \in Refs : InBatch(w, r) => status[r] = "signed"
  BY DEF RowInv, RowsHeldOnce
<1>4. \A k \in Keys : ledger'[k] = ledger[k] + delta[w][k]
  BY DEF CommitBatch, Commit
<1> QED
  BY <1>1, <1>2, <1>3, <1>4 DEF Settled, SettledBy, JournalInv, PendingReconciled

(* The funds a commit moves are those of the settlements it settles. *)
LEMMA CommitJournalInv ==
  ASSUME JournalInv, LedgerInv, RowInv, NEW w \in Workers, CommitBatch(w)
  PROVE  JournalInv'
<1>1. PendingReconciled'
  BY EndJournalInv DEF CommitBatch, Commit
<1>2. ASSUME NEW k \in Keys
      PROVE  ledger'[k] = Opening[k] + Promise!NetInflow(k, Settled')
  <2>1. Promise!NetInflow(k, Settled')
          = Promise!NetInflow(k, Settled) + Promise!NetInflow(k, SettledBy(w))
    BY CommitMovesFunds, SettledByFinite, NetInflowParts
  <2>2. /\ Promise!NetInflow(k, Settled) \in Int
        /\ Promise!NetInflow(k, SettledBy(w)) \in Int
    BY SettledByFinite, NetInflowParts
  <2>3. ledger[k] = Opening[k] + Promise!NetInflow(k, Settled) /\ Opening[k] \in Int
    BY OpeningAssumption DEF JournalInv, Reconciled, Settled
  <2> QED
    BY <2>1, <2>2, <2>3, CommitMovesFunds
<1>3. Reconciled'
  BY <1>2 DEF Reconciled, Settled
<1> QED
  BY <1>1, <1>3 DEF JournalInv

(* An endpoint neither settles a settlement nor reopens a settled one. *)
LEMMA EndpointSettlesNothing ==
  ASSUME RowInv, NEW r \in Refs, NEW key,
         Submit(r) \/ Approve(r, key) \/ Sign(r, key)
  PROVE  Settled' = Settled
<1>1. status[r] # "settled" /\ status'[r] # "settled"
  BY TransitionSource DEF RowInv, RtgsTypeOK, Submit, Approve, Sign
<1>2. \A q \in Refs \ {r} : status'[q] = status[q]
  BY DEF RowInv, RtgsTypeOK, Submit, Approve, Sign
<1> QED
  BY <1>1, <1>2 DEF Settled

(* Initially nothing is settled and the balances are the opening ones. *)
LEMMA InitJournalInv == Init => JournalInv
<1> SUFFICES ASSUME Init PROVE JournalInv
  OBVIOUS
<1>1. \A k : Promise!NetInflow(k, {}) = 0
  BY FS_EmptySet, NetInflowParts
<1>2. Settled = {} /\ \A w \in Workers : SettledBy(w) = {}
  BY DEF Init, Settled, SettledBy
<1>3. PendingReconciled
  BY <1>1, <1>2, RtgsAssumption DEF PendingReconciled, Init, LedgerInit, NoEntries
<1>4. \A k \in Keys : ledger[k] = Opening[k] + 0
  BY OpeningAssumption DEF Init, LedgerInit
<1>5. Reconciled
  BY <1>1, <1>2, <1>4 DEF Reconciled, Settled
<1> QED
  BY <1>3, <1>5 DEF JournalInv

(* Every step of the service preserves the reconciliation. *)
LEMMA NextJournalInv == JournalInv /\ RowInv /\ LedgerInv /\ [Next]_vars => JournalInv'
<1> SUFFICES ASSUME JournalInv, RowInv, LedgerInv, [Next]_vars PROVE JournalInv'
  OBVIOUS
<1>1. ASSUME NEW r \in Refs, NEW key, Submit(r) \/ Approve(r, key) \/ Sign(r, key)
      PROVE  JournalInv'
  <2>1. UNCHANGED <<ledger, delta, outcome>>
    BY <1>1 DEF Submit, Approve, Sign, ledgerVars, workerVars
  <2> QED
    BY <1>1, <2>1, EndpointSettlesNothing, QuietJournalInv
<1>2. ASSUME NEW w \in Workers,
             FetchBatch(w) \/ LockSender(w) \/ WaitForSender(w) \/ ReadSender(w)
      PROVE  JournalInv'
  <2>1. UNCHANGED <<ledger, delta, outcome, status>>
    BY <1>2 DEF FetchBatch, LockSender, WaitForSender, ReadSender, rowVars, ledgerVars,
                AcquireBalanceLock, GetBalance
  <2> QED
    BY <2>1, QuietJournalInv DEF Settled
<1>3. ASSUME NEW w \in Workers, RejectedByCheck(w) \/ DeadlockVictim(w) \/ Crash(w)
      PROVE  JournalInv'
  BY <1>3, AbandonJournalInv DEF RejectedByCheck, DeadlockVictim, Crash
<1>4. ASSUME UNCHANGED vars PROVE JournalInv'
  BY <1>4, QuietJournalInv DEF vars, ledgerVars, rowVars, workerVars, Settled
<1> QED
  BY <1>1, <1>2, <1>3, <1>4, SettleJournalInv, FailJournalInv, CommitJournalInv
  DEF Next, WorkerStep, PollEmpty

(* The journal and the settlements table agree at every commit of every    *)
(* worker: the balances are the opening balances plus exactly the settled  *)
(* instructions, whatever is rolled back, crashes or deadlocks.            *)
THEOREM RtgsReconciled == Spec => []Reconciled
<1>1. Spec => []LedgerInv
  BY RtgsImplementsLedger, LedgerInvariant, PTL
<1>2. Spec => []JournalInv
  BY <1>1, RowInvariant, InitJournalInv, NextJournalInv, PTL DEF Spec
<1>3. JournalInv => Reconciled
  BY DEF JournalInv
<1> QED
  BY <1>2, <1>3, PTL

(* A commit resolves its batch as the promise says: the rows resolve       *)
(* together, the funds of the settled ones move with them, and nobody is   *)
(* overdrawn.                                                              *)
LEMMA CommitIsPromised ==
  ASSUME JournalInv, LedgerInv, LedgerInv', RowInv, NEW w \in Workers, CommitBatch(w)
  PROVE  Promise!Next
<1> DEFINE failed == {r \in Refs : outcome[w][r] = "failed"}
           settled == SettledBy(w)
<1>1. settled \cap failed = {} /\ settled \in SUBSET Refs /\ failed \in SUBSET Refs
  BY DEF SettledBy
<1>2. \A r \in Refs : InBatch(w, r) <=> r \in settled \cup failed
  BY CommitOutcomes DEF CommitBatch, SettledBy
<1>3. \A r \in settled \cup failed : status[r] = "signed"
  BY <1>1, <1>2 DEF RowInv, RowsHeldOnce
<1>4. status' = [r \in Refs |-> IF r \in settled THEN "settled"
                               ELSE IF r \in failed THEN "failed" ELSE status[r]]
  BY <1>2 DEF CommitBatch, SettledBy
<1>5. ledger' = [k \in Keys |-> ledger[k] + Promise!NetInflow(k, settled)]
  <2>1. ledger' = [k \in Keys |-> ledger'[k]]
    BY DEF CommitBatch, Commit
  <2> QED
    BY <2>1, CommitMovesFunds
<1>6. \A k \in Liabilities : ledger'[k] >= 0
  BY DEF LedgerInv, NoOverdraft
<1>7. Promise!ResolveTogether(settled, failed)
  BY <1>1, <1>3, <1>4, <1>5, <1>6 DEF Promise!ResolveTogether
<1> QED
  BY <1>1, <1>7 DEF Promise!Next

(* Every step of the service is a step of the promise or invisible to it. *)
LEMMA PromiseSimulation ==
  JournalInv /\ LedgerInv /\ LedgerInv' /\ RowInv /\ [Next]_vars
    => [Promise!Next]_(Promise!promiseVars)
<1> SUFFICES ASSUME JournalInv, LedgerInv, LedgerInv', RowInv, [Next]_vars
             PROVE  Promise!Next \/ UNCHANGED Promise!promiseVars
  OBVIOUS
<1>1. ASSUME NEW r \in Refs, Submit(r) PROVE Promise!Next
  <2>1. Promise!Advance(r, "none", "pending")
    BY <1>1 DEF Submit, ledgerVars, Promise!Advance
  <2> QED
    BY <2>1 DEF Promise!Next
<1>2. ASSUME NEW r \in Refs, NEW key \in ApiKeys, Approve(r, key) PROVE Promise!Next
  <2>1. status[r] = "pending"
    BY <1>2, TransitionSource DEF Approve, RowInv, RtgsTypeOK
  <2>2. Promise!Advance(r, "pending", "approved")
    BY <1>2, <2>1 DEF Approve, ledgerVars, Promise!Advance
  <2> QED
    BY <2>2 DEF Promise!Next
<1>3. ASSUME NEW r \in Refs, NEW key \in ApiKeys, Sign(r, key) PROVE Promise!Next
  <2>1. status[r] = "approved"
    BY <1>3, TransitionSource DEF Sign, RowInv, RtgsTypeOK
  <2>2. Promise!Advance(r, "approved", "signed")
    BY <1>3, <2>1 DEF Sign, ledgerVars, Promise!Advance
  <2> QED
    BY <2>2 DEF Promise!Next
<1>4. ASSUME NEW w \in Workers, WorkerStep(w) \/ Crash(w) \/ PollEmpty(w), ~CommitBatch(w)
      PROVE  UNCHANGED <<status, ledger>>
  BY <1>4
  DEF WorkerStep, FetchBatch, LockSender, WaitForSender, ReadSender, Settle,
      FailInsufficient, RejectedByCheck, DeadlockVictim, Crash, PollEmpty,
      AbandonBatch, Rollback, vars, rowVars, ledgerVars, AcquireBalanceLock,
      GetBalance, RecordJournalPair, RefuseInsufficient
<1>5. UNCHANGED <<status, ledger>> => UNCHANGED Promise!promiseVars
  BY DEF Promise!promiseVars
<1>6. CASE UNCHANGED vars
  BY <1>5, <1>6 DEF vars, rowVars, ledgerVars
<1> QED
  BY <1>1, <1>2, <1>3, <1>4, <1>5, <1>6, CommitIsPromised DEF Next

(* The service keeps the promise of a gross settlement system, for any     *)
(* number of workers, settlements, accounts and crashes: each signed       *)
(* settlement resolves once and for good, its funds move in the step in    *)
(* which it becomes settled, and no account is overdrawn.                  *)
THEOREM RtgsKeepsPromise == Spec => KeepsPromise
<1>1. Spec => []LedgerInv
  BY RtgsImplementsLedger, LedgerInvariant, PTL
<1>2. Spec => []JournalInv
  BY <1>1, RowInvariant, InitJournalInv, NextJournalInv, PTL DEF Spec
<1>3. Init => Promise!Init
  BY DEF Init, LedgerInit, Promise!Init
<1> QED
  BY <1>1, <1>2, <1>3, RowInvariant, PromiseSimulation, PTL
  DEF Spec, KeepsPromise, Promise!Spec

=============================================================================

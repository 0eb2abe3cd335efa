-------------------------------- MODULE Rtgs --------------------------------
(***************************************************************************)
(* The real-time gross settlement service (services/rtgs/main.py): the     *)
(* submit / approve / sign endpoints and the worker threads that drain the *)
(* queue of signed settlements.                                            *)
(*                                                                         *)
(* An endpoint is one short transaction on one row (inserted under the     *)
(* unique settlement_ref, or read FOR UPDATE), so it is one action.  A     *)
(* worker's batch is one long transaction that takes advisory locks as it  *)
(* goes, so every step of it that another session can observe or block is  *)
(* an action of its own; what it writes becomes visible in CommitBatch.    *)
(* The journal is the one of Ledger.tla: a worker is one of its sessions.  *)
(***************************************************************************)
EXTENDS Ledger, Sequences

CONSTANTS
  Workers,      \* settlement worker threads, one per service instance
  Refs,         \* settlement references (idempotency keys)
  Instruction,  \* what each reference asks for: [from, to, amount, priority]
  ApiKeys,      \* callers of approve and sign: [role, actor]
  NoActor,      \* actor id of the legacy gateway key
  BatchLimit,   \* LIMIT of the worker's query
  MaxCrashes    \* bound on worker crashes

Priorities == {"urgent", "high", "normal", "low"}

ASSUME RtgsAssumption ==
  /\ Workers \subseteq Sessions
  /\ Instruction \in [Refs -> [from : Liabilities, to : Liabilities,
                               amount : Amounts, priority : Priorities]]
  /\ BatchLimit \in Nat \ {0}
  /\ MaxCrashes \in Nat

VARIABLES
  status,      \* committed status column of each settlement
  queuedAt,    \* its queued_at (0 before it is submitted)
  approvedBy,  \* its approved_by column
  signedBy,    \* its signed_by column
  history,     \* its rows of rtgs_settlement_status_history
  outbox,      \* its rows of outbox_events, as event types
  pc,          \* what each worker does next
  batch,       \* the rows its transaction holds FOR UPDATE, in query order
  pos,         \* the row it is at
  outcome,     \* the uncommitted final status of each of its rows
  crashes      \* worker crashes so far

rowVars == <<status, queuedAt, approvedBy, signedBy, history, outbox>>
workerVars == <<pc, batch, pos, outcome>>
vars == <<ledgerVars, rowVars, workerVars, crashes>>

-----------------------------------------------------------------------------

RTGS_VALID_TRANSITIONS ==
  [none        |-> {},
   pending     |-> {"approved", "cancelled"},
   approved    |-> {"signed", "cancelled"},
   signed      |-> {"processing", "cancelled"},
   processing  |-> {"broadcasted", "failed"},
   broadcasted |-> {"confirmed", "failed"},
   confirmed   |-> {"settled"},
   settled     |-> {},
   failed      |-> {"pending"},
   cancelled   |-> {}]

Statuses == DOMAIN RTGS_VALID_TRANSITIONS

(* The constant the code declares for "urgent first" and never uses. *)
PRIORITY_ORDER == [urgent |-> 0, high |-> 1, normal |-> 2, low |-> 3]

(* priority.asc(): the column is a VARCHAR and sorts alphabetically. *)
ColumnOrder == [high |-> 0, low |-> 1, normal |-> 2, urgent |-> 3]

(* ORDER BY priority ASC, queued_at ASC. *)
Precedes(q, r) ==
  LET i == ColumnOrder[Instruction[q].priority]
      j == ColumnOrder[Instruction[r].priority]
  IN  i < j \/ (i = j /\ queuedAt[q] < queuedAt[r])

InBatch(w, r) == \E i \in DOMAIN batch[w] : batch[w][i] = r

RowLocked(r) == \E w \in Workers : InBatch(w, r)

(* WHERE status = 'signed' ... FOR UPDATE SKIP LOCKED *)
SignedIgnoringLocks == {r \in Refs : status[r] = "signed"}

ApprovedAndUnlocked == {r \in Refs : status[r] = "approved" /\ ~RowLocked(r)}

Fetchable == {r \in Refs : status[r] = "signed" /\ ~RowLocked(r)}

Current(w) == batch[w][pos[w]]

-----------------------------------------------------------------------------
(* Endpoints.                                                              *)

(* submit_settlement.  The guard is its idempotency check, which the       *)
(* unique index on settlement_ref backs up: a repeated reference returns   *)
(* the existing row and changes nothing.                                   *)
Submit(r) ==
  /\ status[r] = "none"
  /\ status' = [status EXCEPT ![r] = "pending"]
  /\ queuedAt' = [queuedAt EXCEPT ![r] =
                    1 + Cardinality({q \in Refs : status[q] # "none"})]
  /\ outbox' = [outbox EXCEPT ![r] = Append(@, "submitted")]
  /\ UNCHANGED <<ledgerVars, approvedBy, signedBy, history, workerVars, crashes>>

(* validate_transition *)
MayBecome(r, next) == next \in RTGS_VALID_TRANSITIONS[status[r]]

(* approve_settlement: SELECT ... FOR UPDATE waits for the row's worker. *)
Approve(r, key) ==
  /\ key.role \in {"admin", "approver"}
  /\ ~RowLocked(r)
  /\ MayBecome(r, "approved")
  /\ status' = [status EXCEPT ![r] = "approved"]
  /\ approvedBy' = [approvedBy EXCEPT ![r] = key.actor]
  /\ history' = [history EXCEPT ![r] = Append(@, "approved")]
  /\ UNCHANGED <<ledgerVars, queuedAt, signedBy, outbox, workerVars, crashes>>

(* check_separation_of_duties.  An absent id is compared as "". *)
AnyTwoCalls(approver, signer) == TRUE

DutiesSeparated(approver, signer) == approver # signer

Sign(r, key) ==
  /\ key.role \in {"admin", "signer"}
  /\ ~RowLocked(r)
  /\ MayBecome(r, "signed")
  /\ DutiesSeparated(approvedBy[r], key.actor)
  /\ status' = [status EXCEPT ![r] = "signed"]
  /\ signedBy' = [signedBy EXCEPT ![r] = key.actor]
  /\ history' = [history EXCEPT ![r] = Append(@, "signed")]
  /\ UNCHANGED <<ledgerVars, queuedAt, approvedBy, outbox, workerVars, crashes>>

-----------------------------------------------------------------------------
(* The settlement worker.                                                  *)

(* The query: the first BatchLimit fetchable rows, locked. *)
IsBatch(q) ==
  /\ \A i, j \in DOMAIN q : i < j => Precedes(q[i], q[j])
  /\ \A r \in Fetchable :
       \/ \E i \in DOMAIN q : q[i] = r
       \/ Len(q) = BatchLimit /\ Precedes(q[Len(q)], r)

FetchBatch(w) ==
  /\ pc[w] = "idle"
  /\ \E n \in 1..BatchLimit : \E q \in [1..n -> Fetchable] :
       /\ IsBatch(q)
       /\ batch' = [batch EXCEPT ![w] = q]
  /\ pos' = [pos EXCEPT ![w] = 1]
  /\ pc' = [pc EXCEPT ![w] = "lock"]
  /\ UNCHANGED <<ledgerVars, rowVars, outcome, crashes>>

(* The query returns nothing: sleep and poll again. *)
PollEmpty(w) ==
  /\ pc[w] = "idle"
  /\ Fetchable = {}
  /\ UNCHANGED vars

(* _process_one_settlement marks the row processing (in this transaction   *)
(* only) and _transfer_balances asks for the sender's lock.  PostgreSQL    *)
(* queues the request while another session holds the lock, and a later    *)
(* request does not overtake a queued one.                                 *)
Sender(w) == Instruction[Current(w)].from

QueuedFor(v, k) == pc[v] = "wait" /\ Sender(v) = k

LockSender(w) ==
  /\ \/ pc[w] = "wait"
     \/ /\ pc[w] = "lock"
        /\ holder[Sender(w)] = w \/ ~\E v \in Workers : QueuedFor(v, Sender(w))
  /\ AcquireBalanceLock(w, Sender(w))
  /\ pc' = [pc EXCEPT ![w] = "read"]
  /\ UNCHANGED <<rowVars, batch, pos, outcome, crashes>>

WaitForSender(w) ==
  /\ pc[w] = "lock"
  /\ holder[Sender(w)] \notin {NoOne, w}
  /\ pc' = [pc EXCEPT ![w] = "wait"]
  /\ UNCHANGED <<ledgerVars, rowVars, batch, pos, outcome, crashes>>

ReadSender(w) ==
  /\ pc[w] = "read"
  /\ GetBalance(w, Sender(w))
  /\ pc' = [pc EXCEPT ![w] = "act"]
  /\ UNCHANGED <<rowVars, batch, pos, outcome, crashes>>

(* On to the next row of the batch, or to the commit. *)
Resolve(w, result) ==
  /\ outcome' = [outcome EXCEPT ![w][Current(w)] = result]
  /\ pos' = [pos EXCEPT ![w] = @ + 1]
  /\ pc' = [pc EXCEPT ![w] = IF pos[w] = Len(batch[w]) THEN "commit" ELSE "lock"]

SettleUnchecked(w) ==
  LET in == Instruction[Current(w)]
  IN  /\ pc[w] = "act"
      /\ in.from # in.to
      /\ delta' = PairEntries(w, in.from, in.to, in.amount)
      /\ seen' = [seen EXCEPT ![w] = NoRead]
      /\ Resolve(w, "settled")
      /\ UNCHANGED <<ledger, holder, rowVars, batch, crashes>>

SettleAnnouncedEarly(w) ==
  LET in == Instruction[Current(w)]
  IN  /\ pc[w] = "act"
      /\ in.from # in.to
      /\ RecordJournalPair(w, in.from, in.to, in.amount)
      /\ Resolve(w, "settled")
      /\ outbox' = [outbox EXCEPT ![Current(w)] = Append(@, "completed")]
      /\ UNCHANGED <<status, queuedAt, approvedBy, signedBy, history, batch, crashes>>

(* The balance covers the amount: record the pair, insert the transactions *)
(* row, mark the settlement settled.                                       *)
Settle(w) ==
  LET in == Instruction[Current(w)]
  IN  /\ pc[w] = "act"
      /\ in.from # in.to
      /\ RecordJournalPair(w, in.from, in.to, in.amount)
      /\ Resolve(w, "settled")
      /\ UNCHANGED <<rowVars, batch, crashes>>

(* ValueError("Insufficient balance ..."), the only one raised: the retry  *)
(* branch is for other messages, so the settlement fails at once.          *)
FailInsufficient(w) ==
  LET in == Instruction[Current(w)]
  IN  /\ pc[w] = "act"
      /\ RefuseInsufficient(w, in.from, in.amount)
      /\ Resolve(w, "failed")
      /\ UNCHANGED <<rowVars, batch, crashes>>

(* The worker's transaction ends without a commit; the rows stay signed.   *)
AbandonBatch(w) ==
  /\ Rollback(w)
  /\ pc' = [pc EXCEPT ![w] = "idle"]
  /\ batch' = [batch EXCEPT ![w] = <<>>]
  /\ pos' = [pos EXCEPT ![w] = 0]
  /\ outcome' = [outcome EXCEPT ![w] = [r \in Refs |-> "none"]]
  /\ UNCHANGED rowVars

(* A settlement of an account with itself violates the CHECK of the        *)
(* transactions table; the IntegrityError aborts the whole batch.          *)
RejectedByCheck(w) ==
  LET in == Instruction[Current(w)]
  IN  /\ pc[w] = "act"
      /\ in.from = in.to
      /\ seen[w].balance >= in.amount
      /\ AbandonBatch(w)
      /\ UNCHANGED crashes

Crash(w) ==
  /\ pc[w] # "idle"
  /\ crashes < MaxCrashes
  /\ AbandonBatch(w)
  /\ crashes' = crashes + 1

(* w waits for a lock that v holds. *)
WaitsFor(w, v) == pc[w] = "wait" /\ w # v /\ holder[Sender(w)] = v

(* PostgreSQL aborts a session that is part of a cycle of waiters. *)
DeadlockVictim(w) ==
  /\ \E cycle \in SUBSET Workers :
       /\ w \in cycle
       /\ \A v \in cycle : \E u \in cycle : WaitsFor(v, u)
       /\ \A v \in cycle : \E u \in cycle : WaitsFor(u, v)
  /\ AbandonBatch(w)
  /\ UNCHANGED crashes

AnnouncedByStatus == [settled |-> "settled", failed |-> "failed"]

Announcement == [settled |-> "completed", failed |-> "failed"]

CommitBatch(w) ==
  /\ pc[w] = "commit"
  /\ Commit(w)
  /\ status' = [r \in Refs |-> IF InBatch(w, r) THEN outcome[w][r] ELSE status[r]]
  /\ history' = [r \in Refs |->
       IF InBatch(w, r) THEN history[r] \o <<"processing", outcome[w][r]>>
                        ELSE history[r]]
  /\ outbox' = [r \in Refs |->
       IF InBatch(w, r)
         THEN outbox[r] \o <<"processing", Announcement[outcome[w][r]]>>
         ELSE outbox[r]]
  /\ pc' = [pc EXCEPT ![w] = "idle"]
  /\ batch' = [batch EXCEPT ![w] = <<>>]
  /\ pos' = [pos EXCEPT ![w] = 0]
  /\ outcome' = [outcome EXCEPT ![w] = [r \in Refs |-> "none"]]
  /\ UNCHANGED <<queuedAt, approvedBy, signedBy, crashes>>

-----------------------------------------------------------------------------

Init ==
  /\ LedgerInit
  /\ status = [r \in Refs |-> "none"]
  /\ queuedAt = [r \in Refs |-> 0]
  /\ approvedBy = [r \in Refs |-> NoActor]
  /\ signedBy = [r \in Refs |-> NoActor]
  /\ history = [r \in Refs |-> <<>>]
  /\ outbox = [r \in Refs |-> <<>>]
  /\ pc = [w \in Workers |-> "idle"]
  /\ batch = [w \in Workers |-> <<>>]
  /\ pos = [w \in Workers |-> 0]
  /\ outcome = [w \in Workers |-> [r \in Refs |-> "none"]]
  /\ crashes = 0

(* What a live worker thread does by itself. *)
WorkerStep(w) ==
  \/ FetchBatch(w)
  \/ LockSender(w)
  \/ WaitForSender(w)
  \/ ReadSender(w)
  \/ Settle(w)
  \/ FailInsufficient(w)
  \/ RejectedByCheck(w)
  \/ DeadlockVictim(w)
  \/ CommitBatch(w)

Next ==
  \/ \E r \in Refs : Submit(r)
  \/ \E r \in Refs, key \in ApiKeys : Approve(r, key) \/ Sign(r, key)
  \/ \E w \in Workers : WorkerStep(w) \/ Crash(w) \/ PollEmpty(w)

Spec == Init /\ [][Next]_vars

(* The worker threads loop forever; the callers promise nothing. *)
Fairness == \A w \in Workers : WF_vars(WorkerStep(w))

FairSpec == Spec /\ Fairness

-----------------------------------------------------------------------------
(* Properties.                                                             *)

(* Every variable keeps its shape; the events are those of the catalogue. *)
RtgsTypeOK ==
  /\ LedgerTypeOK
  /\ status \in [Refs -> Statuses]
  /\ queuedAt \in [Refs -> Nat]
  /\ approvedBy \in [Refs -> {key.actor : key \in ApiKeys} \cup {NoActor}]
  /\ signedBy \in [Refs -> {key.actor : key \in ApiKeys} \cup {NoActor}]
  /\ history \in [Refs -> Seq(Statuses)]
  /\ outbox \in [Refs -> Seq({"submitted", "processing", "completed", "failed"})]
  /\ pc \in [Workers -> {"idle", "lock", "wait", "read", "act", "commit"}]
  /\ batch \in [Workers -> Seq(Refs)]
  /\ pos \in [Workers -> Nat]
  /\ outcome \in [Workers -> [Refs -> {"none", "settled", "failed"}]]
  /\ crashes \in Nat

(* A worker that is handling a row is at a row of its batch. *)
WorkerAtRow ==
  \A w \in Workers :
    /\ batch[w] \in Seq(Refs)
    /\ pc[w] \in {"lock", "wait", "read", "act"} => pos[w] \in 1..Len(batch[w])

(* The service keeps the promise of a gross settlement system: whatever    *)
(* the workers, their crashes and lock cycles do, each signed settlement   *)
(* resolves once and its funds move exactly when it becomes settled.       *)
Promise == INSTANCE SettlementPromise
             WITH Refs <- Refs, Instruction <- Instruction, Keys <- Keys,
                  Liabilities <- Liabilities, Opening <- Opening,
                  status <- status, ledger <- ledger

KeepsPromise == Promise!Spec

(* Reconciliation of the journal with the settlements table: the balances  *)
(* are the opening balances plus exactly the settled instructions.         *)
Reconciled ==
  LET settled == {r \in Refs : status[r] = "settled"}
  IN  \A k \in Keys : ledger[k] = Opening[k] + Promise!NetInflow(k, settled)

Count(rows, x) == Cardinality({i \in DOMAIN rows : rows[i] = x})

(* The transactional outbox: the final event of a settlement is in the     *)
(* outbox once and only if its status says so; a rolled-back attempt       *)
(* leaves no event behind.                                                 *)
OutboxAgrees ==
  \A r \in Refs :
    /\ Count(outbox[r], "completed") = IF status[r] = "settled" THEN 1 ELSE 0
    /\ Count(outbox[r], "failed") = IF status[r] = "failed" THEN 1 ELSE 0
    /\ Count(outbox[r], "processing") =
         IF status[r] \in {"settled", "failed"} THEN 1 ELSE 0

(* Funds move only on the word of two actor ids: every settlement a worker *)
(* has taken or resolved was approved once and signed once, and not by one *)
(* actor.  The legacy key's missing id is an actor of its own here, as in  *)
(* the code: whether the person behind it is another one is not known.     *)
TwoPersonRule ==
  \A r \in Refs :
    RowLocked(r) \/ status[r] \in {"settled", "failed"} =>
      /\ approvedBy[r] # signedBy[r]
      /\ Count(history[r], "approved") = 1
      /\ Count(history[r], "signed") = 1

(* Every signed settlement is eventually settled or failed: the worker     *)
(* "continuously drains the settlement queue".                             *)
QueueDrains ==
  \A r \in Refs : status[r] = "signed" ~> status[r] \in {"settled", "failed"}

(* "urgent > high > normal > low": a batch holds no settlement before a    *)
(* more urgent one.                                                        *)
UrgentFirst ==
  \A w \in Workers : \A i, j \in DOMAIN batch[w] :
    i < j => PRIORITY_ORDER[Instruction[batch[w][i]].priority]
               <= PRIORITY_ORDER[Instruction[batch[w][j]].priority]

(* Every status change on record is a transition of the documented state   *)
(* machine.                                                                *)
FollowsStateMachine ==
  \A r \in Refs :
    LET trail == <<"pending">> \o history[r]
    IN  \A i \in 1..Len(history[r]) :
          trail[i + 1] \in RTGS_VALID_TRANSITIONS[trail[i]]

=============================================================================

--------------------------- MODULE TokenIssuance ----------------------------
(***************************************************************************)
(* Minting and burning of tokenized deposits                               *)
(* (services/token-issuance/main.py).                                      *)
(*                                                                         *)
(* A request handler is a session of Ledger.tla.  An issuance locks the    *)
(* omnibus reserve's key and debits it, which raises that asset's balance; *)
(* a redemption locks the redeemer's key and credits the reserve.  The     *)
(* same request may be sent again at any time, and is then handled by any  *)
(* free handler: the guard that looks the reference up and the unique      *)
(* index on issuance_ref are what keeps its effect single.                 *)
(*                                                                         *)
(* The payment engine inserts escrow holds without the advisory lock that  *)
(* a redemption takes, so holds come and go between any two of its steps.  *)
(* A redemption compares its amount with the available balance only, never *)
(* with the balance, and the first can exceed the second.                  *)
(***************************************************************************)
EXTENDS Ledger

CONSTANTS
  Handlers,    \* request handler threads
  Refs,        \* issuance references (idempotency keys)
  Request,     \* what each reference asks for: [kind, account, amount]
  Omnibus,     \* the key of the omnibus reserve
  Cleared,     \* keys of accounts that are KYC verified and AML cleared
  MaxHolds,    \* bound on the holds ever placed on each key
  MaxReleases  \* bound on the release rows ever written for each key

ASSUME IssuanceAssumption ==
  /\ Handlers \subseteq Sessions
  /\ Request \in [Refs -> [kind : {"issue", "redeem"}, account : Liabilities,
                           amount : Amounts]]
  /\ Omnibus \in Assets
  /\ Cleared \subseteq Liabilities
  /\ MaxHolds \in [Liabilities -> Nat]
  /\ MaxReleases \in [Liabilities -> Nat]

VARIABLES
  onboarded,  \* keys of the accounts that exist
  completed,  \* references with a committed token_issuances row
  outbox,     \* references with committed completed and balance.updated events
  reply,      \* per reference, the last answer a caller received
  reserved,   \* escrow_holds: SUM of the reserve rows of each key
  released,   \* escrow_holds: SUM of the release rows of each key
  pc,         \* what each handler does next
  at,         \* the reference it works on
  holdsSeen   \* the two sums it has read: [reserved, released]

issuanceVars == <<onboarded, completed, outbox, reply>>
holdVars == <<reserved, released>>
vars == <<ledgerVars, issuanceVars, holdVars, pc, at, holdsSeen>>

NoRef == NoKey

NoHolds == [reserved |-> 0, released |-> 0]

Goto(s, label) == pc' = [pc EXCEPT ![s] = label]

-----------------------------------------------------------------------------

(* create_account; KYC clearance is given outside the code. *)
CreateAccount(k) ==
  /\ k \notin onboarded
  /\ onboarded' = onboarded \cup {k}
  /\ UNCHANGED <<ledgerVars, completed, outbox, reply, holdVars, pc, at, holdsSeen>>

(* The guard finds the reference: the helper returns a pair, and the       *)
(* endpoint, which unpacks three values, answers 500.                      *)
ReplayCompleted(r) ==
  /\ r \in completed
  /\ reply' = [reply EXCEPT ![r] = "error"]
  /\ UNCHANGED <<ledgerVars, onboarded, completed, outbox, holdVars, pc, at, holdsSeen>>

(* An unknown account, or an issuance to one that is not cleared. *)
Entitled(r) ==
  /\ Request[r].account \in onboarded
  /\ Request[r].kind = "issue" => Request[r].account \in Cleared

RefuseAccount(r) ==
  /\ r \notin completed
  /\ ~Entitled(r)
  /\ reply' = [reply EXCEPT ![r] = "refused"]
  /\ UNCHANGED <<ledgerVars, onboarded, completed, outbox, holdVars, pc, at, holdsSeen>>

BeginRequest(s, r) ==
  /\ pc[s] = "idle"
  /\ r \notin completed
  /\ Entitled(r)
  /\ at' = [at EXCEPT ![s] = r]
  /\ Goto(s, "lock")
  /\ UNCHANGED <<ledgerVars, issuanceVars, holdVars, holdsSeen>>

(* The key a request spends from, and the one it pays. *)
Spent(r) == IF Request[r].kind = "issue" THEN Omnibus ELSE Request[r].account

Paid(r) == IF Request[r].kind = "issue" THEN Request[r].account ELSE Omnibus

LockSpent(s) ==
  /\ pc[s] = "lock"
  /\ AcquireBalanceLock(s, Spent(at[s]))
  /\ Goto(s, "read")
  /\ UNCHANGED <<issuanceVars, holdVars, at, holdsSeen>>

(* get_balance; a redemption goes on with the rest of                      *)
(* get_available_balance.                                                  *)
ReadSpent(s) ==
  /\ pc[s] = "read"
  /\ GetBalance(s, Spent(at[s]))
  /\ Goto(s, IF Request[at[s]].kind = "issue" THEN "act" ELSE "reserves")
  /\ UNCHANGED <<issuanceVars, holdVars, at, holdsSeen>>

ReadReserves(s) ==
  /\ pc[s] = "reserves"
  /\ holdsSeen' = [holdsSeen EXCEPT ![s].reserved = reserved[Spent(at[s])]]
  /\ Goto(s, "releases")
  /\ UNCHANGED <<ledgerVars, issuanceVars, holdVars, at>>

ReadReleases(s) ==
  /\ pc[s] = "releases"
  /\ holdsSeen' = [holdsSeen EXCEPT ![s].released = released[Spent(at[s])]]
  /\ Goto(s, "act")
  /\ UNCHANGED <<ledgerVars, issuanceVars, holdVars, at>>

(* get_balance of the reserve, or get_available_balance of the account.    *)
AvailableIgnoringHolds(s) == seen[s].balance

Available(s) == seen[s].balance - (holdsSeen[s].reserved - holdsSeen[s].released)

BecomeIdle(s) ==
  /\ pc' = [pc EXCEPT ![s] = "idle"]
  /\ at' = [at EXCEPT ![s] = NoRef]
  /\ holdsSeen' = [holdsSeen EXCEPT ![s] = NoHolds]

EndRequest(s, answer) ==
  /\ reply' = [reply EXCEPT ![at[s]] = answer]
  /\ BecomeIdle(s)
  /\ UNCHANGED holdVars

RefuseKeepingTheSession(s) ==
  /\ pc[s] = "act"
  /\ Available(s) < Request[at[s]].amount
  /\ EndRequest(s, "refused")
  /\ UNCHANGED <<ledgerVars, onboarded, completed, outbox>>

RefuseAmount(s) ==
  /\ pc[s] = "act"
  /\ Available(s) < Request[at[s]].amount
  /\ Rollback(s)
  /\ EndRequest(s, "refused")
  /\ UNCHANGED <<onboarded, completed, outbox>>

(* The journal pair of the reference; the reserve grows only up to the     *)
(* model's bound MaxReserve.                                               *)
WritePair(s) ==
  LET r == at[s]
  IN  /\ Request[r].kind = "issue" => seen[s].balance + Request[r].amount <= MaxReserve
      /\ delta' = PairEntries(s, Spent(r), Paid(r), Request[r].amount)
      /\ seen' = [seen EXCEPT ![s] = NoRead]
      /\ Goto(s, "commit")
      /\ UNCHANGED <<ledger, issuanceVars, holdVars, at, holdsSeen>>

RecordDuplicate(s) ==
  /\ pc[s] = "act"
  /\ Available(s) >= Request[at[s]].amount
  /\ WritePair(s)
  /\ UNCHANGED holder

RecordAndUnlockSpent(s) ==
  /\ pc[s] = "act"
  /\ Available(s) >= Request[at[s]].amount
  /\ at[s] \notin completed
  /\ WritePair(s)
  /\ holder' = [holder EXCEPT ![Spent(at[s])] = NoOne]

(* INSERT INTO token_issuances, journal pair, transactions row.  A rival   *)
(* with the same reference spends from the same key, so it has committed   *)
(* by now or has not begun to write.                                       *)
Record(s) ==
  /\ pc[s] = "act"
  /\ Available(s) >= Request[at[s]].amount
  /\ at[s] \notin completed
  /\ WritePair(s)
  /\ UNCHANGED holder

(* The unique index on issuance_ref. *)
RejectDuplicate(s) ==
  /\ pc[s] = "act"
  /\ Available(s) >= Request[at[s]].amount
  /\ at[s] \in completed
  /\ Rollback(s)
  /\ EndRequest(s, "error")
  /\ UNCHANGED <<onboarded, completed, outbox>>

CommitRequest(s) ==
  /\ pc[s] = "commit"
  /\ Commit(s)
  /\ completed' = completed \cup {at[s]}
  /\ outbox' = outbox \cup {at[s]}
  /\ EndRequest(s, "created")
  /\ UNCHANGED onboarded

(* The process dies; the caller gets no answer. *)
Crash(s) ==
  /\ pc[s] # "idle"
  /\ Rollback(s)
  /\ BecomeIdle(s)
  /\ UNCHANGED <<issuanceVars, holdVars>>

-----------------------------------------------------------------------------
(* The payment engine's escrow_holds rows, one token each, written without *)
(* the lock that a redemption takes.  Nothing is assumed of them: not that *)
(* a reserve was covered, nor that a release has its reserve, since an     *)
(* escrow can be released and then expired (payment-engine/main.py:414).   *)
(* A release that also pays a payee lowers the balance, under the lock of  *)
(* the payer's key; that is in PaymentEngine.tla, and the releases here    *)
(* are the refunds and the expiries, which leave the journal alone.        *)

PlaceHold(k) ==
  /\ reserved[k] < MaxHolds[k]
  /\ reserved' = [reserved EXCEPT ![k] = @ + 1]
  /\ UNCHANGED <<ledgerVars, issuanceVars, released, pc, at, holdsSeen>>

ReleaseHold(k) ==
  /\ released[k] < MaxReleases[k]
  /\ released' = [released EXCEPT ![k] = @ + 1]
  /\ UNCHANGED <<ledgerVars, issuanceVars, reserved, pc, at, holdsSeen>>

-----------------------------------------------------------------------------

Init ==
  /\ LedgerInit
  /\ onboarded = {}
  /\ completed = {}
  /\ outbox = {}
  /\ reply = [r \in Refs |-> "none"]
  /\ pc = [s \in Handlers |-> "idle"]
  /\ at = [s \in Handlers |-> NoRef]
  /\ holdsSeen = [s \in Handlers |-> NoHolds]
  /\ reserved = [k \in Liabilities |-> 0]
  /\ released = [k \in Liabilities |-> 0]

HandlerStep(s) ==
  \/ LockSpent(s)
  \/ ReadSpent(s) \/ ReadReserves(s) \/ ReadReleases(s)
  \/ RefuseAmount(s)
  \/ Record(s)
  \/ RejectDuplicate(s)
  \/ CommitRequest(s)

Next ==
  \/ \E k \in Liabilities : CreateAccount(k) \/ PlaceHold(k) \/ ReleaseHold(k)
  \/ \E r \in Refs : ReplayCompleted(r) \/ RefuseAccount(r)
  \/ \E s \in Handlers, r \in Refs : BeginRequest(s, r)
  \/ \E s \in Handlers : HandlerStep(s) \/ Crash(s)

Spec == Init /\ [][Next]_vars

-----------------------------------------------------------------------------
(* Properties.                                                             *)

(* Every variable keeps its shape, and a handler between two requests has  *)
(* nothing left over from the last one: no lock and no uncommitted entry.  *)
IssuanceTypeOK ==
  /\ LedgerTypeOK
  /\ onboarded \subseteq Liabilities
  /\ completed \subseteq Refs
  /\ outbox \subseteq Refs
  /\ reply \in [Refs -> {"none", "created", "refused", "error"}]
  /\ pc \in [Handlers -> {"idle", "lock", "read", "reserves", "releases", "act", "commit"}]
  /\ at \in [Handlers -> Refs \cup {NoRef}]
  /\ holdsSeen \in [Handlers -> [reserved : Nat, released : Nat]]
  /\ reserved \in [Liabilities -> Nat] /\ released \in [Liabilities -> Nat]
  /\ \A s \in Handlers :
       pc[s] = "idle" => delta[s] = NoEntries /\ \A k \in Keys : holder[k] # s

(* What a holder of tokens may rely on, TokenPromise.tla: however often    *)
(* and however many at a time a reference is sent, it mints or burns once, *)
(* for the account it names, the reserve moves with it, and nobody redeems *)
(* more than he has and has had freed.                                     *)
Promise == INSTANCE TokenPromise
             WITH balance <- [k \in Liabilities |-> ledger[k]],
                  reserve <- -ledger[Omnibus],
                  freed <- released,
                  done <- completed

KeepsPromise == Promise!Spec

(* An account is overdrawn by no more than the amount of the escrow holds  *)
(* that were freed on it, however many redemptions race and however their  *)
(* readings interleave with the engine's rows.                             *)
OverdraftBounded == \A k \in Liabilities : ledger[k] + released[k] >= 0

(* A redemption leaves what is on hold alone, up to the holds that were    *)
(* placed after it had read the reserve rows: although the three sums of   *)
(* get_available_balance are read one after the other and holds come and   *)
(* go in between, it never spends a hold that it could have seen.          *)
HoldsUntouched ==
  [][\A s \in Handlers, k \in Liabilities :
       delta[s][k] < 0 /\ ledger'[k] < ledger[k] =>
         ledger'[k] >= holdsSeen[s].reserved - released[k]]_vars

(* The stronger claim, that a redemption never spends what is on hold when *)
(* it commits.  It fails: a hold placed between the reading and the commit *)
(* is not seen, and nothing makes the payment engine wait.                 *)
HoldsCovered ==
  [][\A k \in Liabilities :
       LET held == reserved[k] - released[k]
       IN  ledger[k] >= held /\ ledger'[k] < ledger[k] => ledger'[k] >= held]_vars

(* "If a request with the same key has already been processed, the         *)
(* existing result is returned without re-executing."                      *)
RetryAnswered == \A r \in Refs : r \in completed => reply[r] # "error"

=============================================================================

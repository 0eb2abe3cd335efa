--------------------------- MODULE ComplianceRules --------------------------
(***************************************************************************)
(* What the compliance monitor finds out about a transaction               *)
(* (services/compliance-monitor/main.py): the fields that handle_event     *)
(* reads from its event, the amount rules, the velocity tracker, and the   *)
(* sanctions match, whose flags make the verdict.                          *)
(*                                                                         *)
(* EventPipeline.tla follows an event until it is screened; here it waits  *)
(* in the order of the topic and is screened some time after it happened.  *)
(* An event with two parties counts as two transactions, one of each.  The *)
(* tracker lives in the memory of the process and counts screenings by the *)
(* time at which they are made.  An account's list in it is modelled as    *)
(* the set of its entries <<n, t>>: t is the time that the code keeps, and *)
(* n, the number of the screening, keeps two entries with the same time    *)
(* apart and in the order of the list.                                     *)
(***************************************************************************)
EXTENDS Integers, Sequences, FiniteSets

CONSTANTS
  Transactions,      \* the screenings that events of the monitored topics ask for
  Payload,           \* [topic, account, amount, currency] of each
  SanctionsHits,     \* per account, how many patterns its entity name contains
  FxApprox,          \* approximate USD rate of each currency, in hundredths
  LargeTransaction,  \* large_transaction_usd
  StructuringFrom,   \* structuring_window_usd
  VelocityLimit,     \* velocity_per_hour
  Hour,              \* length of the velocity window
  TrackerCap,        \* entries kept per account
  MaxTime,           \* bound on the clock
  MaxRestarts,       \* bound on restarts of the monitor
  MaxLookupFaults    \* bound on failed account lookups

MONITORED_TOPICS ==
  {"token.issuance.completed", "token.redemption.completed", "rtgs.settlement.completed",
   "payment.conditional.completed", "escrow.released", "fx.settlement.completed"}

(* The fields that handle_event looks for and the events of a topic have.  *)
(* A completed conditional payment or FX settlement is announced by its    *)
(* references alone, a released escrow without its currency.               *)
Carried(topic) ==
  CASE topic \in {"payment.conditional.completed", "fx.settlement.completed"} -> {}
    [] topic = "escrow.released" -> {"account", "amount"}
    [] OTHER                     -> {"account", "amount", "currency"}

Defaults == [account |-> "", amount |-> 0, currency |-> "USD"]

(* What handle_event screens: payload.get(field, default). *)
Fields ==
  [x \in Transactions |->
     [f \in {"account", "amount", "currency"} |->
        IF f \in Carried(Payload[x].topic) THEN Payload[x][f] ELSE Defaults[f]]]

(* The accounts of the velocity tracker. *)
Accounts == {Fields[x].account : x \in Transactions}

ASSUME PayloadAssumption ==
  \A x \in Transactions :
    /\ Payload[x].topic \in MONITORED_TOPICS
    /\ Payload[x].amount \in Nat
    /\ Payload[x].account # ""
    /\ SanctionsHits[Payload[x].account] \in Nat

ASSUME RulesAssumption ==
  /\ \A c \in DOMAIN FxApprox : FxApprox[c] \in Nat
  /\ {LargeTransaction, StructuringFrom, VelocityLimit, MaxTime, MaxRestarts,
      MaxLookupFaults} \subseteq Nat
  /\ {Hour, TrackerCap} \subseteq Nat \ {0}
  /\ StructuringFrom < LargeTransaction /\ VelocityLimit < TrackerCap

VARIABLES
  clock,       \* datetime.now
  log,         \* transactions in the order of the topic
  happenedAt,  \* when each happened (0: not yet)
  done,        \* the first done messages of the log are screened
  tracker,     \* _velocity_tracker
  screenedAt,  \* when each was screened
  inRun,       \* during which run of the process
  flags,       \* the flags of its compliance_events row
  faults       \* failures so far: [restart, lookup]

historyVars == <<happenedAt, screenedAt, inRun>>
vars == <<clock, log, done, tracker, historyVars, flags, faults>>

-----------------------------------------------------------------------------
(* The rules.                                                              *)

(* In hundredths of a dollar, as FxApprox is; other currencies count as    *)
(* dollars.                                                                *)
InUsd(amount, currency) ==
  amount * (IF currency \in DOMAIN FxApprox THEN FxApprox[currency] ELSE 100)

UsdEquiv(x) == InUsd(Fields[x].amount, Fields[x].currency)

CheckLargeTransaction(x) ==
  IF UsdEquiv(x) >= LargeTransaction * 100 THEN {"LARGE_TRANSACTION"} ELSE {}

CheckStructuring(x) ==
  IF StructuringFrom * 100 <= UsdEquiv(x) /\ UsdEquiv(x) < LargeTransaction * 100
  THEN {"POTENTIAL_STRUCTURING"} ELSE {}

RecentInclusive(a) ==
  {s \in tracker[a] : s[2] >= clock - Hour} \cup {<<done + 1, clock>>}

(* The account's screenings of the last hour and this one. *)
Recent(a) == {s \in tracker[a] : s[2] > clock - Hour} \cup {<<done + 1, clock>>}

(* recent[-100:], the last entries of the list. *)
Capped(list) == {s \in list : Cardinality({q \in list : q[1] > s[1]}) < TrackerCap}

CheckVelocity(a) ==
  IF Cardinality(Recent(a)) > VelocityLimit THEN {"HIGH_VELOCITY"} ELSE {}

SanctionsUnlessFlagged(x, found) ==
  IF found /\ Fields[x].account # "" /\ CheckStructuring(x) = {}
  THEN {"SANCTIONS_HIT"} \X (1..SanctionsHits[Fields[x].account]) ELSE {}

(* One flag per pattern.  The name is "UNKNOWN", which matches none, when  *)
(* the lookup fails and for the account "", which is not in the table.     *)
CheckSanctions(x, found) ==
  IF found /\ Fields[x].account # ""
  THEN {"SANCTIONS_HIT"} \X (1..SanctionsHits[Fields[x].account]) ELSE {}

-----------------------------------------------------------------------------

Happen(x) ==
  /\ happenedAt[x] = 0
  /\ happenedAt' = [happenedAt EXCEPT ![x] = clock]
  /\ log' = Append(log, x)
  /\ UNCHANGED <<clock, done, tracker, screenedAt, inRun, flags, faults>>

(* _resolve_account_name swallows its errors. *)
Lookup(found) ==
  \/ found /\ UNCHANGED faults
  \/ /\ ~found
     /\ faults.lookup < MaxLookupFaults
     /\ faults' = [faults EXCEPT !.lookup = @ + 1]

(* handle_event and _run_screening.  TrackerCap bounds what is kept, not   *)
(* what is counted.  The result is "fail" if there is any flag, the score  *)
(* 25 for each.                                                            *)
RunScreening(found) ==
  LET x == log[done + 1]
      a == Fields[x].account
      amountFlags == CheckLargeTransaction(x) \cup CheckStructuring(x)
      allFlags == <<amountFlags, CheckVelocity(a), CheckSanctions(x, found)>>
  IN  /\ done < Len(log)
      /\ Lookup(found)
      /\ done' = done + 1
      /\ tracker' = [tracker EXCEPT ![a] = Capped(Recent(a))]
      /\ screenedAt' = [screenedAt EXCEPT ![x] = clock]
      /\ inRun' = [inRun EXCEPT ![x] = faults.restart]
      /\ flags' = [flags EXCEPT ![x] = allFlags]
      /\ UNCHANGED <<clock, log, happenedAt>>

Restart ==
  /\ faults.restart < MaxRestarts
  /\ faults' = [faults EXCEPT !.restart = @ + 1]
  /\ tracker' = [a \in Accounts |-> {}]
  /\ UNCHANGED <<clock, log, done, historyVars, flags>>

Tick ==
  /\ clock < MaxTime
  /\ clock' = clock + 1
  /\ UNCHANGED <<log, done, tracker, historyVars, flags, faults>>

Init ==
  /\ clock = 1
  /\ log = <<>>
  /\ happenedAt = [x \in Transactions |-> 0]
  /\ done = 0
  /\ tracker = [a \in Accounts |-> {}]
  /\ screenedAt = [x \in Transactions |-> 0]
  /\ inRun = [x \in Transactions |-> 0]
  /\ flags = [x \in Transactions |-> <<{}, {}, {}>>]
  /\ faults = [restart |-> 0, lookup |-> 0]

Next ==
  \/ \E x \in Transactions : Happen(x)
  \/ \E found \in BOOLEAN : RunScreening(found)
  \/ Restart
  \/ Tick

Spec == Init /\ [][Next]_vars

-----------------------------------------------------------------------------
(* Properties.                                                             *)

Screened == {log[i] : i \in 1..done}

Amount(x) == flags[x][1]
Velocity(x) == flags[x][2]
Sanctions(x) == flags[x][3]

(* The position of a screened transaction in the log. *)
Place(x) == CHOOSE i \in 1..done : log[i] = x

(* The screenings of the hour that ends with x, in x's run, of the account *)
(* that was read from x's event.                                           *)
ScreenedWith(x) ==
  {y \in Screened : /\ Fields[y].account = Fields[x].account
                    /\ Place(y) <= Place(x)
                    /\ inRun[y] = inRun[x]
                    /\ screenedAt[y] > screenedAt[x] - Hour}

(* The velocity flag of an account, as the events name it, is exact for    *)
(* the hour of screenings that the process has lived through, at both ends *)
(* of the window and in spite of the cap on the tracker.                   *)
VelocityExact ==
  \A x \in Screened :
    (Velocity(x) # {}) <=> Cardinality(ScreenedWith(x)) > VelocityLimit

(* "> 20 transactions per account per hour": of the transactions up to x,  *)
(* not of their screenings.                                                *)
VelocityIsOfTransactions ==
  \A x \in Screened :
    (Velocity(x) # {}) <=>
      Cardinality({y \in Screened :
                     /\ Payload[y].account = Payload[x].account
                     /\ Place(y) <= Place(x)
                     /\ happenedAt[y] > happenedAt[x] - Hour}) > VelocityLimit

(* What the transaction is really worth. *)
Worth(x) == InUsd(Payload[x].amount, Payload[x].currency)

Reportable(x) == Worth(x) >= LargeTransaction * 100

(* "Large transaction (CTR equivalent): >= $1,000,000 USD equivalent":     *)
(* of the transactions of the monitored topics.                            *)
LargeIsFlagged ==
  \A x \in Screened : Reportable(x) => "LARGE_TRANSACTION" \in Amount(x)

(* What can be missed.  The large-transaction flag is right, with no       *)
(* mistake on either side of the threshold and in any currency, for every  *)
(* event that has both amount and currency; and among the events that      *)
(* name their account a listed name passes as clean at most once for each  *)
(* lookup that failed, however many restarts and flags of other rules      *)
(* there are.                                                              *)
MissesExplained ==
  /\ \A x \in Screened :
       {"amount", "currency"} \subseteq Carried(Payload[x].topic)
         => ("LARGE_TRANSACTION" \in Amount(x) <=> Reportable(x))
  /\ Cardinality({x \in Screened : /\ "account" \in Carried(Payload[x].topic)
                                   /\ SanctionsHits[Payload[x].account] > 0
                                   /\ Sanctions(x) = {}}) <= faults.lookup

=============================================================================

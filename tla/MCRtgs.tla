------------------------------- MODULE MCRtgs -------------------------------
(* Two accounts that pay each other.  Crossing: funds cover only some      *)
(* orders of settlement, so batches meet insufficient balances and spend   *)
(* what they received, and one instruction has the same account on both    *)
(* sides.  Backlogged: two batches that lock a and b in       *)
(* opposite orders.  SelfPaying: nothing but such an instruction and the   *)
(* one queued behind it.                                                   *)
EXTENDS Rtgs, TLC

CONSTANTS a, b, r1, r2, r3, r4, x, y

Pay(from, to, amount, priority) ==
  [from |-> from, to |-> to, amount |-> amount, priority |-> priority]

MCOpening == (a :> 2) @@ (b :> 1)

Crossing ==
  (r1 :> Pay(a, b, 2, "normal")) @@ (r2 :> Pay(b, b, 1, "urgent"))
    @@ (r3 :> Pay(b, a, 2, "high"))

SelfPaying == (r1 :> Pay(a, b, 1, "normal")) @@ (r2 :> Pay(b, b, 1, "normal"))

Backlogged ==
  (r1 :> Pay(a, b, 2, "high")) @@ (r2 :> Pay(b, a, 2, "low"))
    @@ (r3 :> Pay(b, a, 1, "normal")) @@ (r4 :> Pay(a, b, 1, "urgent"))

(* The service restarts on a table in which at least three of the four     *)
(* settlements are already signed.                                         *)
BacklogInit ==
  /\ LedgerInit
  /\ \E signed \in SUBSET Refs :
       /\ Cardinality(signed) >= 3
       /\ status = [r \in Refs |-> IF r \in signed THEN "signed" ELSE "none"]
       /\ queuedAt = CHOOSE f \in [Refs -> 0..Cardinality(signed)] :
                        /\ \A r \in Refs : f[r] = 0 <=> r \notin signed
                        /\ \A q, r \in signed : f[q] = f[r] => q = r
       /\ approvedBy = [r \in Refs |-> IF r \in signed THEN x ELSE NoActor]
       /\ signedBy = [r \in Refs |-> IF r \in signed THEN y ELSE NoActor]
       /\ history = [r \in Refs |->
                       IF r \in signed THEN <<"approved", "signed">> ELSE <<>>]
       /\ outbox = [r \in Refs |-> IF r \in signed THEN <<"submitted">> ELSE <<>>]
  /\ pc = [w \in Workers |-> "idle"]
  /\ batch = [w \in Workers |-> <<>>]
  /\ pos = [w \in Workers |-> 0]
  /\ outcome = [w \in Workers |-> [r \in Refs |-> "none"]]
  /\ crashes = 0

BacklogSpec == BacklogInit /\ [][Next]_vars /\ Fairness

TwoKeys == {[role |-> "admin", actor |-> x], [role |-> "signer", actor |-> y]}

(* The legacy gateway key is an admin without an actor id. *)
ThreeKeys == {[role |-> "approver", actor |-> x], [role |-> "signer", actor |-> y],
              [role |-> "admin", actor |-> NoActor]}

=============================================================================

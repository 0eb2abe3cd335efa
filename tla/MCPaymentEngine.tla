-------------------------- MODULE MCPaymentEngine ---------------------------
(* Account a pays b.  Rivals: a time-locked payment and two contracts that *)
(* together exceed what a owns.  LockedAndContract: with Opening2 the      *)
(* contract leaves too little for the payment.  AllConditions: one payment *)
(* per condition type, and a contract of a with itself.  KycGated: one     *)
(* payment that waits for its payee's clearance.                           *)
EXTENDS PaymentEngine

CONSTANTS a, b, p1, p2, p3, p4, p5, e1, e2, e3, alice, bob, carol, key1

Pay(amount, condition, expires) ==
  [debit |-> a, credit |-> b, amount |-> amount, condition |-> condition,
   expires |-> expires]

Deposit(amount, expires) ==
  [debit |-> a, credit |-> b, amount |-> amount, expires |-> expires,
   key |-> key1]

TimeLock(t) == [type |-> "time_lock", release_at |-> t]

Rivals ==
  (p1 :> Pay(2, TimeLock(0), 0)) @@ (e1 :> Deposit(2, 0)) @@ (e2 :> Deposit(1, 1))

LockedAndContract ==
  (p1 :> Pay(2, TimeLock(1), Never)) @@ (e1 :> Deposit(2, 0))

(* The signers fall one short of p2's threshold, no oracle posts the value *)
(* p3 waits for, and nobody vouches for p5's payee.                        *)
AllConditions ==
  (p1 :> Pay(2, TimeLock(1), Never))
    @@ (p2 :> Pay(1, [type |-> "multi_sig", required |-> {alice, bob, carol},
                      threshold |-> 2], Never))
    @@ (p3 :> Pay(1, [type |-> "oracle_trigger", expected |-> "met"], Never))
    @@ (p4 :> Pay(2, [type |-> "delivery_confirmation"], Never))
    @@ (p5 :> [Pay(1, [type |-> "kyc_verified"], Never) EXCEPT !.credit = a,
                                                             !.debit = b])
    @@ (e1 :> [Deposit(2, 0) EXCEPT !.credit = a])

KycGated == p5 :> Pay(1, [type |-> "kyc_verified"], Never)

SomeEvidence ==
  {NoData, [NoData EXCEPT !.signatures = {alice}, !.delivered = TRUE],
           [NoData EXCEPT !.signatures = {alice}, !.oracle = "unmet"]}

HandlerSymmetry == Permutations(Handlers)

Opening2 == (a :> 2) @@ (b :> 0)

Opening3 == (a :> 3) @@ (b :> 0)

Opening9 == (a :> 9) @@ (b :> 0)

NoEvidence == {NoData}

(* The trigger request carries whatever its caller claims. *)
ClaimedClearance == {NoData, [NoData EXCEPT !.kyc = TRUE]}

=============================================================================

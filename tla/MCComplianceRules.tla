------------------------- MODULE MCComplianceRules --------------------------
(* Four transactions of a listed account just at and just below the        *)
(* reporting threshold, in three currencies and on four topics.  The event *)
(* of the escrow has no currency, that of the conditional payment neither  *)
(* account nor amount.                                                     *)
EXTENDS ComplianceRules, TLC

CONSTANTS x1, x2, x3, x4, listed

Of(topic, amount, currency) ==
  [topic |-> topic, account |-> listed, amount |-> amount, currency |-> currency]

MCPayload ==
  (x1 :> Of("token.issuance.completed", 787402, "GBP"))
    @@ (x2 :> Of("rtgs.settlement.completed", 917431, "EUR"))
    @@ (x3 :> Of("escrow.released", 917432, "EUR"))
    @@ (x4 :> Of("payment.conditional.completed", 1000000, "USD"))

MCHits == listed :> 4

MCFxApprox == [EUR |-> 109, GBP |-> 127, USD |-> 100]

=============================================================================

-------------------------- MODULE MCTokenIssuance ---------------------------
(* Issuances to a and to b (who is not cleared) and two redemptions by a,  *)
(* of two tokens each, of which a has three after its issuance and one     *)
(* before; up to two tokens of a are held, and two releases are written.   *)
EXTENDS TokenIssuance, TLC

CONSTANTS a, b, i1, i2, d1, d2

Ask(kind, account, amount) ==
  [kind |-> kind, account |-> account, amount |-> amount]

MCRequest ==
  (i1 :> Ask("issue", a, 2)) @@ (i2 :> Ask("issue", b, 1))
    @@ (d1 :> Ask("redeem", a, 2)) @@ (d2 :> Ask("redeem", a, 2))

MCOpening == (a :> 1) @@ (b :> 0) @@ (Omnibus :> -2)

MCMaxHolds == (a :> 2) @@ (b :> 0)

MCMaxReleases == (a :> 2) @@ (b :> 0)

=============================================================================

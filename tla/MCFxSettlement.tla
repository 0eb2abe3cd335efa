--------------------------- MODULE MCFxSettlement ---------------------------
(* Pounds and euros sold for dollars; only USD/EUR and GBP/USD are quoted, *)
(* so euros are sold at the inverse of a bid.  A batch <<r1, r2>> locks    *)
(* the dollar nostro and then b's euros, r3 alone the other way round; the *)
(* dollar nostro can pay for little.                                       *)
EXTENDS FxSettlement, TLC

CONSTANTS aGBP, aUSD, bUSD, bEUR, nGBP, nUSD, nEUR, r1, r2, r3

Swap(from, to, amount) == [from |-> from, to |-> to, amount |-> amount]

MCInstruction ==
  (r1 :> Swap(aGBP, bUSD, 2)) @@ (r2 :> Swap(bEUR, aUSD, 1))
    @@ (r3 :> Swap(bEUR, aUSD, 2))

MCCurrency ==
  (aGBP :> "GBP") @@ (aUSD :> "USD") @@ (bUSD :> "USD") @@ (bEUR :> "EUR")

MCNostro == [GBP |-> nGBP, USD |-> nUSD, EUR |-> nEUR]

MCQuoted == {<<"USD", "EUR">>, <<"GBP", "USD">>}

MCHalfSpread == (4 :> 1) @@ (6 :> 1)

MCOpening ==
  (aGBP :> 2) @@ (aUSD :> 0) @@ (bUSD :> 0) @@ (bEUR :> 3)
    @@ (nGBP :> -2) @@ (nUSD :> -1) @@ (nEUR :> -2)

=============================================================================

---------------------------- MODULE MCApiGateway ----------------------------
(* A trader orders an FX settlement, twice if need be, or an auditor does, *)
(* without success; an approval is sent with the legacy key or, without    *)
(* success, with the trader's, and arrives with the x-actor-role header    *)
(* that a proxy on its way has set.                                        *)
EXTENDS ApiGateway, TLC

CONSTANTS traderKey, auditorKey, legacyKey, settle, approve

MCDbRole == (traderKey :> "trader") @@ (auditorKey :> "auditor")

MCHolders == (settle :> {traderKey, auditorKey}) @@ (approve :> {traderKey, legacyKey})

MCCarriedRole == (settle :> NoRole) @@ (approve :> "approver")

MCPathOf == (settle :> {"/fx/settle"}) @@ (approve :> {"/approve"})

MCAttempts == (settle :> 2) @@ (approve :> 1)

=============================================================================

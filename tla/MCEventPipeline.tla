-------------------------- MODULE MCEventPipeline ---------------------------
(* One settlement, screened for both its parties, and one issuance; other  *)
(* producers may add an unreadable message.                                *)
EXTENDS EventPipeline, TLC

CONSTANTS settled, issued

MembersAlike == Permutations(Consumers)

MCParties == (settled :> <<"sender", "receiver">>) @@ (issued :> <<"account">>)

=============================================================================

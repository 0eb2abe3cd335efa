------------------------- MODULE SettlementPromise --------------------------
(***************************************************************************)
(* What a gross settlement system promises its participants, without       *)
(* workers, locks, transactions or crashes: an instruction is accepted     *)
(* once, authorised in two steps and then resolved once, for good; its     *)
(* amount moves in the very step in which it becomes settled, and no       *)
(* account is ever overdrawn.  Several instructions may resolve together.  *)
(* Rtgs.tla is checked to implement this specification.                    *)
(***************************************************************************)
EXTENDS Integers, Functions

CONSTANTS Refs, Instruction, Keys, Liabilities, Opening

VARIABLES status, ledger

promiseVars == <<status, ledger>>

(* What instruction r adds to key k once it is settled. *)
Inflow(k) ==
  [r \in Refs |->
     (IF Instruction[r].to = k THEN Instruction[r].amount ELSE 0)
       - (IF Instruction[r].from = k THEN Instruction[r].amount ELSE 0)]

NetInflow(k, S) == SumFunctionOnSet(Inflow(k), S)

Init ==
  /\ status = [r \in Refs |-> "none"]
  /\ ledger = Opening

Advance(r, from, to) ==
  /\ status[r] = from
  /\ status' = [status EXCEPT ![r] = to]
  /\ UNCHANGED ledger

ResolveTogether(settled, failed) ==
  /\ settled \cap failed = {}
  /\ \A r \in settled \cup failed : status[r] = "signed"
  /\ status' = [r \in Refs |-> IF r \in settled THEN "settled"
                               ELSE IF r \in failed THEN "failed"
                               ELSE status[r]]
  /\ ledger' = [k \in Keys |-> ledger[k] + NetInflow(k, settled)]
  /\ \A k \in Liabilities : ledger'[k] >= 0

Next ==
  \/ \E r \in Refs : \/ Advance(r, "none", "pending")
                     \/ Advance(r, "pending", "approved")
                     \/ Advance(r, "approved", "signed")
  \/ \E settled, failed \in SUBSET Refs : ResolveTogether(settled, failed)

Spec == Init /\ [][Next]_promiseVars

=============================================================================

---------------------------- MODULE TokenPromise ----------------------------
(***************************************************************************)
(* What an issuer of tokenized deposits promises, without handlers, locks, *)
(* retries or crashes: each reference takes effect at most once; an        *)
(* issuance credits its account and a redemption debits it, in one step    *)
(* with the reserve that backs the tokens.  "Nobody redeems more than he   *)
(* has" would be too much: what the service compares with the amount is    *)
(* the available balance, to which every escrow hold ever freed adds, so   *)
(* nobody redeems more than he has and has had freed.  TokenIssuance.tla   *)
(* is checked to implement this specification with the balances and the    *)
(* reserve read off the journal and the freed holds off escrow_holds.      *)
(***************************************************************************)
EXTENDS Integers

CONSTANTS Refs, Request, Liabilities, Omnibus, Opening

VARIABLES balance, reserve, freed, done

promiseVars == <<balance, reserve, freed, done>>

Init ==
  /\ balance = [k \in Liabilities |-> Opening[k]]
  /\ reserve = -Opening[Omnibus]
  /\ freed = [k \in Liabilities |-> 0]
  /\ done = {}

(* Tokens and backing change together. *)
Change(r, amount) ==
  /\ r \notin done
  /\ done' = done \cup {r}
  /\ balance' = [balance EXCEPT ![Request[r].account] = @ + amount]
  /\ reserve' = reserve + amount
  /\ UNCHANGED freed

Mint(r) == Request[r].kind = "issue" /\ Change(r, Request[r].amount)

Burn(r) ==
  /\ Request[r].kind = "redeem"
  /\ balance[Request[r].account] + freed[Request[r].account] >= Request[r].amount
  /\ Change(r, -Request[r].amount)

(* The engine frees a hold of one token. *)
Free(k) ==
  /\ freed' = [freed EXCEPT ![k] = @ + 1]
  /\ UNCHANGED <<balance, reserve, done>>

Next ==
  \/ \E r \in Refs : Mint(r) \/ Burn(r)
  \/ \E k \in Liabilities : Free(k)

Spec == Init /\ [][Next]_promiseVars

=============================================================================

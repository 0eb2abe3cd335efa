--------------------------- MODULE IssuanceProofs ---------------------------
(***************************************************************************)
(* What the token issuance service guarantees for every number of          *)
(* handlers, references and repetitions, although a redemption compares    *)
(* its amount with the available balance only and nothing is assumed of    *)
(* the escrow holds: it spends no hold that it could have seen, overdraws  *)
(* an account by no more than the holds that were freed on it, and keeps   *)
(* the promise of TokenPromise.tla.                                        *)
(***************************************************************************)
EXTENDS TokenIssuance, TLAPS

(* A handler that has begun a request works on one of the references. *)
HandlerInv ==
  /\ pc \in [Handlers -> {"idle", "lock", "read", "reserves", "releases", "act", "commit"}]
  /\ at \in [Handlers -> Refs \cup {NoRef}]
  /\ \A s \in Handlers : pc[s] # "idle" => at[s] \in Refs

(* Init establishes it: every handler is idle. *)
LEMMA InitHandlerInv == Init => HandlerInv
BY DEF Init, HandlerInv

(* A handler keeps its reference from BeginRequest until it is idle again. *)
LEMMA NextHandlerInv == HandlerInv /\ [Next]_vars => HandlerInv'
<1> SUFFICES ASSUME HandlerInv, [Next]_vars PROVE HandlerInv'
  OBVIOUS
<1> USE DEF HandlerInv
<1>1. ASSUME NEW s \in Handlers, NEW r \in Refs, BeginRequest(s, r)
      PROVE  HandlerInv'
  BY <1>1 DEF BeginRequest, Goto
<1>2. ASSUME NEW s \in Handlers, NEW label \in {"read", "reserves", "releases", "act", "commit"},
             pc[s] # "idle", Goto(s, label), UNCHANGED at
      PROVE  HandlerInv'
  BY <1>2 DEF Goto
<1>3. ASSUME NEW s \in Handlers,
             \/ LockSpent(s) \/ ReadSpent(s) \/ ReadReserves(s) \/ ReadReleases(s)
             \/ Record(s)
      PROVE  HandlerInv'
  BY <1>2, <1>3 DEF LockSpent, ReadSpent, ReadReserves, ReadReleases, Record,
                         WritePair
<1>4. ASSUME NEW s \in Handlers,
             pc' = [pc EXCEPT ![s] = "idle"], at' = [at EXCEPT ![s] = NoRef]
      PROVE  HandlerInv'
  BY <1>4
<1>5. ASSUME NEW s \in Handlers,
             \/ RefuseAmount(s) \/ RejectDuplicate(s) \/ CommitRequest(s) \/ Crash(s)
      PROVE  HandlerInv'
  BY <1>4, <1>5 DEF RefuseAmount, RejectDuplicate, CommitRequest, Crash, EndRequest, BecomeIdle
<1>6. CASE UNCHANGED <<pc, at>>
  BY <1>6
<1> QED
  BY <1>1, <1>3, <1>5, <1>6
  DEF Next, HandlerStep, vars, CreateAccount, ReplayCompleted, RefuseAccount, PlaceHold,
      ReleaseHold

(* The keys a request spends from and pays are keys of the journal and its *)
(* amount is a transferable amount.                                        *)
LEMMA RequestIsTransfer ==
  ASSUME NEW r \in Refs
  PROVE  /\ Spent(r) \in Keys
         /\ Paid(r) \in Keys
         /\ Request[r].amount \in Amounts
<1>1. Request[r] \in [kind : {"issue", "redeem"}, account : Liabilities,
                      amount : Amounts]
  BY IssuanceAssumption
<1> QED
  BY <1>1, IssuanceAssumption DEF Spent, Paid, Keys

(* The account and the reserve of a reference are different keys, and one  *)
(* pays the other.                                                         *)
LEMMA RequestEnds ==
  ASSUME NEW r \in Refs
  PROVE  /\ Request[r].account \in Liabilities /\ Request[r].account # Omnibus
         /\ Request[r].amount \in Nat /\ Request[r].amount > 0
         /\ \/ /\ Request[r].kind = "issue"
               /\ Spent(r) = Omnibus /\ Paid(r) = Request[r].account
            \/ /\ Request[r].kind = "redeem"
               /\ Spent(r) = Request[r].account /\ Paid(r) = Omnibus
<1>1. Request[r] \in [kind : {"issue", "redeem"}, account : Liabilities,
                      amount : Amounts]
  BY IssuanceAssumption
<1>2. Request[r].amount \in Nat \ {0}
  BY <1>1, AmountsAssumption
<1>3. Request[r].account # Omnibus
  BY <1>1, IssuanceAssumption, KeysAssumption
<1> QED
  BY <1>1, <1>2, <1>3 DEF Spent, Paid

-----------------------------------------------------------------------------
(* The sessions.                                                           *)

(* What the two entries of reference r add to each key. *)
EntriesOf(r) ==
  [k \in Keys |-> 0 - (IF k = Spent(r) THEN Request[r].amount ELSE 0)
                   + (IF k = Paid(r) THEN Request[r].amount ELSE 0)]

(* A reference lowers no institution's balance but its own account's, and  *)
(* that only when it is a redemption.                                      *)
LEMMA EntriesLowerSpent ==
  ASSUME NEW r \in Refs, NEW k \in Liabilities
  PROVE  /\ EntriesOf(r)[k] \in Int
         /\ EntriesOf(r)[k] < 0 =>
              /\ k = Spent(r) /\ k = Request[r].account
              /\ Request[r].kind = "redeem" /\ EntriesOf(r)[k] = -Request[r].amount
<1>1. k \in Keys /\ k # Omnibus
  BY IssuanceAssumption, KeysAssumption DEF Keys
<1> QED
  BY <1>1, RequestEnds DEF EntriesOf

(* Where a handler holds the lock of the key it spends from. *)
Holding == {"read", "reserves", "releases", "act", "commit"}

(* A handler holds that lock, and only that one, from LockSpent to the end *)
(* of its transaction; what it has pending is the pair of its reference,   *)
(* and the balance it has read of an account is still there.               *)
SessionOK(s) ==
  /\ pc[s] # "commit" => delta[s] = NoEntries
  /\ pc[s] = "commit" => delta[s] = EntriesOf(at[s])
  /\ pc[s] \in Holding => holder[Spent(at[s])] = s
  /\ \A k \in Keys : holder[k] = s => pc[s] \in Holding /\ k = Spent(at[s])
  /\ pc[s] \in {"reserves", "releases", "act"} /\ Spent(at[s]) \in Liabilities =>
       seen[s].balance <= ledger[Spent(at[s])]

SessionInv == LedgerTypeOK /\ \A s \in Handlers : SessionOK(s)

(* Init establishes it: no lock is held and no entry is pending. *)
LEMMA InitSessionInv == Init => SessionInv
<1> SUFFICES ASSUME Init PROVE SessionInv
  OBVIOUS
<1>1. LedgerTypeOK
  BY OpeningAssumption, KeysAssumption
  DEF Init, LedgerInit, LedgerTypeOK, NoEntries, NoRead
<1>2. ASSUME NEW s \in Handlers PROVE SessionOK(s)
  <2>1. s \in Sessions /\ pc[s] = "idle" /\ s # NoOne
    BY IssuanceAssumption, KeysAssumption DEF Init
  <2> QED
    BY <2>1 DEF Init, LedgerInit, SessionOK, Holding
<1> QED
  BY <1>1, <1>2 DEF SessionInv

(* A commit lowers no locked balance of an institution but its own         *)
(* session's.                                                              *)
LEMMA CommitLowersOwn ==
  ASSUME HandlerInv, SessionInv, NEW s \in Handlers, CommitRequest(s),
         NEW k \in Liabilities
  PROVE  /\ ledger[k] \in Int
         /\ ledger'[k] = ledger[k] + EntriesOf(at[s])[k]
         /\ holder[k] # s => ledger'[k] >= ledger[k]
<1>1. k \in Keys /\ ledger[k] \in Int /\ at[s] \in Refs
  BY DEF SessionInv, LedgerTypeOK, Keys, HandlerInv, CommitRequest
<1>2. delta[s] = EntriesOf(at[s]) /\ holder[Spent(at[s])] = s
  BY DEF SessionInv, SessionOK, CommitRequest, Holding
<1>3. ledger'[k] = ledger[k] + EntriesOf(at[s])[k]
  BY <1>1, <1>2 DEF CommitRequest, Commit
<1>4. ASSUME holder[k] # s PROVE ~(EntriesOf(at[s])[k] < 0)
  BY <1>1, <1>2, <1>4, EntriesLowerSpent
<1> QED
  BY <1>1, <1>3, <1>4, EntriesLowerSpent

(* A step of another session leaves a session's part as it is, when it     *)
(* takes no lock from it and lowers nothing that it has locked.            *)
LEMMA OtherSessionKept ==
  ASSUME SessionInv, HandlerInv, NEW t \in Handlers, SessionOK(t),
         UNCHANGED <<pc[t], at[t], delta[t], seen[t]>>,
         \A k \in Keys : holder'[k] = t <=> holder[k] = t,
         \A k \in Liabilities : holder[k] = t => ledger'[k] >= ledger[k],
         \A k \in Liabilities : ledger'[k] \in Int
  PROVE  SessionOK(t)'
<1>1. \A r \in Refs : (Spent(r))' = Spent(r) /\ (EntriesOf(r))' = EntriesOf(r)
  BY DEF Spent, EntriesOf, Paid
<1>2. pc[t] # "idle" => at[t] \in Refs /\ Spent(at[t]) \in Keys
  BY RequestIsTransfer DEF HandlerInv
<1>3. /\ pc'[t] # "commit" => delta'[t] = NoEntries
      /\ pc'[t] = "commit" => delta'[t] = EntriesOf(at'[t])
      /\ \A k \in Keys : holder'[k] = t => pc'[t] \in Holding /\ k = Spent(at'[t])
  BY DEF SessionOK, Spent
<1>4. pc'[t] \in Holding => holder'[Spent(at'[t])] = t
  BY <1>2 DEF SessionOK, Holding
<1>5. ASSUME pc'[t] \in {"reserves", "releases", "act"}, Spent(at'[t]) \in Liabilities
      PROVE  seen'[t].balance <= ledger'[Spent(at'[t])]
  <2> DEFINE k == Spent(at[t])
  <2>1. k \in Liabilities /\ holder[k] = t /\ seen[t].balance <= ledger[k]
    BY <1>5 DEF SessionOK, Holding
  <2>2. ledger[k] \in Int /\ ledger'[k] \in Int /\ ledger'[k] >= ledger[k]
    BY <2>1 DEF SessionInv, LedgerTypeOK, Keys
  <2>3. seen[t].balance \in Int
    BY IssuanceAssumption DEF SessionInv, LedgerTypeOK
  <2> QED
    BY <2>1, <2>2, <2>3
<1> QED
  BY <1>3, <1>4, <1>5 DEF SessionOK, Spent, EntriesOf, Paid, Holding, NoEntries

(* The end of a transaction frees its session. *)
LEMMA EndFreesSession ==
  ASSUME SessionInv, HandlerInv, NEW s \in Handlers, EndTransaction(s), BecomeIdle(s)
  PROVE  /\ SessionOK(s)'
         /\ \A t \in Handlers \ {s} :
              /\ UNCHANGED <<pc[t], at[t], delta[t], seen[t]>>
              /\ \A k \in Keys : holder'[k] = t <=> holder[k] = t
         /\ delta' \in [Sessions -> [Keys -> Int]]
         /\ holder' \in [Keys -> Sessions \cup {NoOne}]
         /\ seen' \in [Sessions -> [key : Keys \cup {NoKey}, balance : Int]]
<1>1. /\ s \in Sessions /\ s # NoOne /\ Handlers \subseteq Sessions /\ NoOne \notin Sessions
      /\ delta \in [Sessions -> [Keys -> Int]]
      /\ holder \in [Keys -> Sessions \cup {NoOne}]
      /\ seen \in [Sessions -> [key : Keys \cup {NoKey}, balance : Int]]
      /\ pc \in [Handlers -> {"idle", "lock", "read", "reserves", "releases", "act", "commit"}]
      /\ at \in [Handlers -> Refs \cup {NoRef}]
  BY IssuanceAssumption, KeysAssumption DEF SessionInv, LedgerTypeOK, HandlerInv
<1>2. delta' = [delta EXCEPT ![s] = NoEntries] /\ delta'[s] = NoEntries
  BY <1>1 DEF EndTransaction
<1>3. holder' = [k \in Keys |-> IF holder[k] = s THEN NoOne ELSE holder[k]]
  BY DEF EndTransaction
<1>4. pc' = [pc EXCEPT ![s] = "idle"] /\ at' = [at EXCEPT ![s] = NoRef] /\ pc'[s] = "idle"
  BY <1>1 DEF BecomeIdle
<1>5. seen' = [seen EXCEPT ![s] = NoRead]
  BY DEF EndTransaction
<1>6. \A k \in Keys : holder'[k] # s
  BY <1>1, <1>3
<1>7. SessionOK(s)'
  BY <1>2, <1>4, <1>6 DEF SessionOK, Holding, NoEntries
<1>8. ASSUME NEW t \in Handlers \ {s}
      PROVE  /\ UNCHANGED <<pc[t], at[t], delta[t], seen[t]>>
             /\ \A k \in Keys : holder'[k] = t <=> holder[k] = t
  <2>1. UNCHANGED <<pc[t], at[t], delta[t], seen[t]>>
    BY <1>1, <1>2, <1>4, <1>5
  <2>2. \A k \in Keys : holder'[k] = t <=> holder[k] = t
    BY <1>1, <1>3
  <2> QED
    BY <2>1, <2>2
<1>9. /\ delta' \in [Sessions -> [Keys -> Int]]
      /\ holder' \in [Keys -> Sessions \cup {NoOne}]
      /\ seen' \in [Sessions -> [key : Keys \cup {NoKey}, balance : Int]]
  BY <1>1, <1>2, <1>3, <1>5 DEF NoEntries, NoRead
<1> QED
  BY <1>7, <1>8, <1>9

(* Every step of a session follows the discipline. *)
LEMMA NextSessionInv == HandlerInv /\ SessionInv /\ [Next]_vars => SessionInv'
<1> SUFFICES ASSUME HandlerInv, SessionInv, [Next]_vars PROVE SessionInv'
  OBVIOUS
<1>0. /\ Handlers \subseteq Sessions /\ NoOne \notin Sessions /\ Liabilities \subseteq Keys
      /\ ledger \in [Keys -> Int]
      /\ delta \in [Sessions -> [Keys -> Int]]
      /\ holder \in [Keys -> Sessions \cup {NoOne}]
      /\ seen \in [Sessions -> [key : Keys \cup {NoKey}, balance : Int]]
      /\ pc \in [Handlers -> {"idle", "lock", "read", "reserves", "releases", "act", "commit"}]
      /\ at \in [Handlers -> Refs \cup {NoRef}]
      /\ \A s \in Handlers : SessionOK(s) /\ (pc[s] # "idle" => at[s] \in Refs)
  BY IssuanceAssumption, KeysAssumption DEF SessionInv, LedgerTypeOK, HandlerInv, Keys
<1>1. ASSUME NEW s \in Handlers, LedgerTypeOK', SessionOK(s)',
             \A t \in Handlers \ {s} :
               /\ UNCHANGED <<pc[t], at[t], delta[t], seen[t]>>
               /\ \A k \in Keys : holder'[k] = t <=> holder[k] = t,
             UNCHANGED ledger
      PROVE  SessionInv'
  <2>1. ASSUME NEW t \in Handlers \ {s} PROVE SessionOK(t)'
    BY <1>0, <1>1, OtherSessionKept
  <2> QED
    BY <1>1, <2>1 DEF SessionInv
<1>2. ASSUME NEW s \in Handlers, NEW r \in Refs, BeginRequest(s, r) PROVE SessionInv'
  <2>1. /\ pc' = [pc EXCEPT ![s] = "lock"] /\ at' = [at EXCEPT ![s] = r]
        /\ UNCHANGED <<ledger, delta, holder, seen>> /\ pc[s] = "idle"
    BY <1>2 DEF BeginRequest, Goto, ledgerVars
  <2>2. LedgerTypeOK'
    BY <1>0, <2>1 DEF LedgerTypeOK
  <2>3. pc'[s] = "lock" /\ delta[s] = NoEntries /\ \A k \in Keys : holder[k] # s
    BY <1>0, <2>1 DEF SessionOK, Holding
  <2>4. SessionOK(s)'
    BY <2>1, <2>3 DEF SessionOK, Holding, NoEntries
  <2> QED
    BY <1>0, <1>1, <2>1, <2>2, <2>4
<1>3. ASSUME NEW s \in Handlers, LockSpent(s) PROVE SessionInv'
  <2>1. /\ pc' = [pc EXCEPT ![s] = "read"] /\ UNCHANGED <<at, ledger, delta, seen>>
        /\ holder[Spent(at[s])] \in {NoOne, s} /\ pc[s] = "lock"
        /\ holder' = [holder EXCEPT ![Spent(at[s])] = s]
    BY <1>3 DEF LockSpent, Goto, AcquireBalanceLock
  <2>2. at[s] \in Refs /\ Spent(at[s]) \in Keys /\ pc'[s] = "read"
    BY <1>0, <2>1, RequestIsTransfer
  <2>3. LedgerTypeOK'
    BY <1>0, <2>1, <2>2 DEF LedgerTypeOK
  <2>4. delta[s] = NoEntries /\ \A k \in Keys : holder[k] # s
    BY <1>0, <2>1 DEF SessionOK, Holding
  <2>5. holder'[Spent(at[s])] = s /\ \A k \in Keys : holder'[k] = s => k = Spent(at[s])
    BY <1>0, <2>1, <2>2, <2>4
  <2>6. SessionOK(s)'
    BY <2>1, <2>2, <2>4, <2>5 DEF SessionOK, Holding, NoEntries, Spent
  <2>7. \A t \in Handlers \ {s}, k \in Keys : holder'[k] = t <=> holder[k] = t
    BY <1>0, <2>1, <2>2
  <2> QED
    BY <1>0, <1>1, <2>1, <2>3, <2>6, <2>7
<1>4. ASSUME NEW s \in Handlers, ReadSpent(s) PROVE SessionInv'
  <2>1. /\ pc[s] = "read" /\ UNCHANGED <<at, ledger, delta, holder>>
        /\ pc' = [pc EXCEPT ![s] = IF Request[at[s]].kind = "issue" THEN "act" ELSE "reserves"]
        /\ seen' = [seen EXCEPT ![s] = [key |-> Spent(at[s]), balance |-> Balance(s, Spent(at[s]))]]
    BY <1>4 DEF ReadSpent, Goto, GetBalance
  <2>2. at[s] \in Refs /\ Spent(at[s]) \in Keys /\ delta[s] = NoEntries
    BY <1>0, <2>1, RequestIsTransfer DEF SessionOK
  <2>3. Balance(s, Spent(at[s])) \in Int
    BY <1>0, <2>2 DEF Balance
  <2>4. LedgerTypeOK'
    BY <1>0, <2>1, <2>2, <2>3 DEF LedgerTypeOK
  <2>5. Spent(at[s]) \in Liabilities => Balance(s, Spent(at[s])) = ledger[Spent(at[s])]
    BY <1>0, <2>2, KeysAssumption DEF Balance, NoEntries
  <2>6. /\ seen'[s].balance = Balance(s, Spent(at[s])) /\ pc'[s] \in {"act", "reserves"}
        /\ Spent(at[s]) \in Liabilities => Balance(s, Spent(at[s])) <= ledger[Spent(at[s])]
    BY <1>0, <2>1, <2>5
  <2>7. /\ holder[Spent(at[s])] = s
        /\ \A k \in Keys : holder[k] = s => k = Spent(at[s])
    BY <1>0, <2>1 DEF SessionOK, Holding
  <2>8. SessionOK(s)'
    BY <2>1, <2>2, <2>6, <2>7 DEF SessionOK, Holding, NoEntries, Spent
  <2> QED
    BY <1>0, <1>1, <2>1, <2>4, <2>8
<1>5. ASSUME NEW s \in Handlers, ReadReserves(s) \/ ReadReleases(s) PROVE SessionInv'
  <2>1. /\ pc[s] \in {"reserves", "releases"} /\ UNCHANGED <<at, ledgerVars>>
        /\ \/ pc' = [pc EXCEPT ![s] = "releases"]
           \/ pc' = [pc EXCEPT ![s] = "act"]
    BY <1>5 DEF ReadReserves, ReadReleases, Goto
  <2>2. LedgerTypeOK' /\ UNCHANGED <<ledger, delta, holder, seen>>
    BY <1>0, <2>1 DEF LedgerTypeOK, ledgerVars
  <2>3. pc'[s] \in {"releases", "act"} /\ \A t \in Handlers \ {s} : pc'[t] = pc[t]
    BY <1>0, <2>1
  <2>4. SessionOK(s)'
    BY <1>0, <2>1, <2>2, <2>3 DEF SessionOK, Holding, NoEntries, Spent
  <2> QED
    BY <1>0, <1>1, <2>1, <2>2, <2>3, <2>4
<1>6. ASSUME NEW s \in Handlers, Record(s) PROVE SessionInv'
  <2>1. /\ pc[s] = "act" /\ pc' = [pc EXCEPT ![s] = "commit"] /\ UNCHANGED <<at, ledger, holder>>
        /\ delta' = PairEntries(s, Spent(at[s]), Paid(at[s]), Request[at[s]].amount)
        /\ seen' = [seen EXCEPT ![s] = NoRead]
    BY <1>6 DEF Record, WritePair, Goto
  <2>2. at[s] \in Refs /\ delta[s] = NoEntries /\ pc'[s] = "commit" /\ s \in Sessions
    BY <1>0, <2>1 DEF SessionOK
  <2>3. delta' = [delta EXCEPT ![s] = EntriesOf(at[s])]
    BY <2>1, <2>2 DEF PairEntries, NoEntries, EntriesOf
  <2>4. EntriesOf(at[s]) \in [Keys -> Int] /\ NoRead \in [key : Keys \cup {NoKey}, balance : Int]
    BY <2>2, RequestEnds DEF EntriesOf, NoRead
  <2>5. LedgerTypeOK' /\ delta'[s] = EntriesOf(at[s])
    BY <1>0, <2>1, <2>2, <2>3, <2>4 DEF LedgerTypeOK
  <2>6. SessionOK(s)'
    <3>1. /\ holder[Spent(at[s])] = s
          /\ \A k \in Keys : holder[k] = s => k = Spent(at[s])
      BY <1>0, <2>1 DEF SessionOK, Holding
    <3>2. (Spent(at[s]))' = Spent(at[s]) /\ (EntriesOf(at[s]))' = EntriesOf(at[s])
      BY <2>1 DEF Spent, Paid, EntriesOf
    <3> QED
      BY <2>1, <2>2, <2>5, <3>1, <3>2 DEF SessionOK, Holding
  <2> QED
    BY <1>0, <1>1, <2>1, <2>3, <2>5, <2>6
<1>7. ASSUME NEW s \in Handlers, RefuseAmount(s) \/ RejectDuplicate(s) \/ Crash(s)
      PROVE  SessionInv'
  <2>1. EndTransaction(s) /\ BecomeIdle(s) /\ UNCHANGED ledger
    BY <1>7 DEF RefuseAmount, RejectDuplicate, Crash, Rollback, EndRequest
  <2>2. LedgerTypeOK'
    BY <1>0, <2>1, EndFreesSession DEF LedgerTypeOK
  <2> QED
    BY <1>1, <2>1, <2>2, EndFreesSession
<1>8. ASSUME NEW s \in Handlers, CommitRequest(s) PROVE SessionInv'
  <2>1. EndTransaction(s) /\ BecomeIdle(s) /\ ledger' = [k \in Keys |-> ledger[k] + delta[s][k]]
    BY <1>8 DEF CommitRequest, Commit, EndRequest
  <2>2. ledger' \in [Keys -> Int]
    BY <1>0, <2>1
  <2>3. LedgerTypeOK'
    BY <2>1, <2>2, EndFreesSession DEF LedgerTypeOK
  <2>4. ASSUME NEW t \in Handlers \ {s} PROVE SessionOK(t)'
    <3>1. \A k \in Liabilities : ledger'[k] \in Int
      BY <1>0, <2>2
    <3>2. \A k \in Liabilities : holder[k] = t => ledger'[k] >= ledger[k]
      BY <1>8, CommitLowersOwn
    <3> QED
      BY <1>0, <2>1, <3>1, <3>2, EndFreesSession, OtherSessionKept
  <2> QED
    BY <2>1, <2>3, <2>4, EndFreesSession DEF SessionInv
<1>9. CASE UNCHANGED <<ledgerVars, pc, at>>
  BY <1>9 DEF ledgerVars, SessionInv, LedgerTypeOK, SessionOK, Spent, EntriesOf, Paid, NoEntries
<1> QED
  BY <1>2, <1>3, <1>4, <1>5, <1>6, <1>7, <1>8, <1>9
  DEF Next, HandlerStep, vars, CreateAccount, ReplayCompleted, RefuseAccount, PlaceHold,
      ReleaseHold

-----------------------------------------------------------------------------
(* The holds.                                                              *)

(* What a redemption knows of the holds: the released sum it has read is   *)
(* at most the current one, and what it has recorded leaves the reserves   *)
(* it has read covered, less what has been released by now.                *)
HoldsOK(s) ==
  LET r == at[s]
      a == Request[r].account
  IN  /\ pc[s] \in {"reserves", "releases"} => Request[r].kind = "redeem"
      /\ pc[s] = "act" /\ Request[r].kind = "redeem" =>
           holdsSeen[s].released <= released[a]
      /\ pc[s] = "commit" /\ Request[r].kind = "redeem" =>
           ledger[a] - Request[r].amount >= holdsSeen[s].reserved - released[a]

HoldsType ==
  /\ released \in [Liabilities -> Nat]
  /\ reserved \in [Liabilities -> Nat]
  /\ holdsSeen \in [Handlers -> [reserved : Nat, released : Nat]]

HoldsInv == HoldsType /\ OverdraftBounded /\ \A s \in Handlers : HoldsOK(s)

(* Init establishes it: no institution starts overdrawn, and no handler    *)
(* has begun.                                                              *)
LEMMA InitHoldsInv == Init => HoldsInv
<1> SUFFICES ASSUME Init PROVE HoldsInv
  OBVIOUS
<1>1. HoldsType
  BY DEF Init, NoHolds, HoldsType
<1>2. OverdraftBounded
  BY OpeningAssumption DEF Init, LedgerInit, OverdraftBounded, Keys
<1>3. \A s \in Handlers : HoldsOK(s)
  BY DEF Init, HoldsOK
<1> QED
  BY <1>1, <1>2, <1>3 DEF HoldsInv

(* Releases only grow, and a balance that a handler has locked is lowered  *)
(* by nobody else, so what the handler knows stays true.                   *)
LEMMA HoldsKnownKept ==
  ASSUME HandlerInv, SessionInv, HoldsInv, NEW t \in Handlers,
         UNCHANGED <<pc[t], at[t], holdsSeen[t]>>,
         \A k \in Liabilities : released'[k] \in Nat /\ released'[k] >= released[k],
         \A k \in Liabilities : ledger'[k] \in Int,
         \A k \in Liabilities : holder[k] = t => ledger'[k] >= ledger[k]
  PROVE  HoldsOK(t)'
<1> DEFINE r == at[t]
           a == Request[r].account
<1>1. HoldsOK(t) /\ holdsSeen[t] \in [reserved : Nat, released : Nat]
      /\ released \in [Liabilities -> Nat]
  BY DEF HoldsInv, HoldsType
<1>2. CASE pc[t] = "idle"
  BY <1>2 DEF HoldsOK
<1>3. CASE pc[t] # "idle"
  <2>1. r \in Refs /\ a \in Liabilities /\ Request[r].amount \in Nat
    BY <1>3, RequestEnds DEF HandlerInv
  <2>2. /\ released[a] \in Nat /\ released'[a] \in Nat /\ released'[a] >= released[a]
        /\ ledger[a] \in Int /\ ledger'[a] \in Int
    BY <1>1, <2>1 DEF SessionInv, LedgerTypeOK, Keys
  <2>3. ASSUME pc[t] = "act", Request[r].kind = "redeem"
        PROVE  holdsSeen[t].released <= released'[a]
    <3>1. holdsSeen[t].released <= released[a]
      BY <1>1, <2>3 DEF HoldsOK
    <3> QED
      BY <1>1, <2>2, <3>1
  <2>4. ASSUME pc[t] = "commit", Request[r].kind = "redeem"
        PROVE  ledger'[a] - Request[r].amount >= holdsSeen[t].reserved - released'[a]
    <3>1. ledger[a] - Request[r].amount >= holdsSeen[t].reserved - released[a]
      BY <1>1, <2>4 DEF HoldsOK
    <3>2. Spent(r) = a
      BY <2>4 DEF Spent
    <3>3. holder[a] = t
      BY <2>4, <3>2 DEF SessionInv, SessionOK, Holding
    <3>4. ledger'[a] >= ledger[a]
      BY <2>1, <3>3
    <3> QED
      BY <1>1, <2>1, <2>2, <3>1, <3>4
  <2> QED
    BY <1>1, <2>3, <2>4 DEF HoldsOK
<1> QED
  BY <1>2, <1>3

(* A pair that the available balance covers leaves the holds covered that  *)
(* were read: the balance that was read is still there.                    *)
LEMMA RecordKeepsHolds ==
  ASSUME HandlerInv, SessionInv, HoldsInv, NEW s \in Handlers, Record(s),
         Request[at[s]].kind = "redeem"
  PROVE  ledger[Request[at[s]].account] - Request[at[s]].amount
           >= holdsSeen[s].reserved - released[Request[at[s]].account]
<1> DEFINE r == at[s]
           a == Request[r].account
<1>1. /\ r \in Refs /\ pc[s] = "act" /\ s \in Sessions
      /\ Available(s) >= Request[r].amount
  BY IssuanceAssumption DEF Record, HandlerInv
<1>2. a \in Liabilities /\ a \in Keys /\ Spent(r) = a /\ Request[r].amount \in Nat
  BY <1>1, RequestEnds DEF Keys, Spent
<1>3. seen[s].balance <= ledger[a] /\ seen[s].balance \in Int /\ ledger[a] \in Int
  BY <1>1, <1>2 DEF SessionInv, SessionOK, LedgerTypeOK
<1>4. holdsSeen[s].released <= released[a]
  BY <1>1 DEF HoldsInv, HoldsOK
<1>5. released[a] \in Nat /\ holdsSeen[s].reserved \in Nat /\ holdsSeen[s].released \in Nat
  BY <1>2 DEF HoldsInv, HoldsType
<1>6. seen[s].balance - (holdsSeen[s].reserved - holdsSeen[s].released) >= Request[r].amount
  BY <1>1 DEF Available
<1> QED
  BY <1>2, <1>3, <1>4, <1>5, <1>6

(* A committed redemption leaves the account above what is still on hold   *)
(* of the reserves it has read.                                            *)
LEMMA CommitLeavesHolds ==
  ASSUME HandlerInv, SessionInv, HoldsInv, NEW s \in Handlers, CommitRequest(s),
         NEW k \in Liabilities, ledger'[k] < ledger[k]
  PROVE  /\ holder[k] = s
         /\ ledger'[k] >= holdsSeen[s].reserved - released[k]
<1>1. /\ at[s] \in Refs /\ ledger[k] \in Int
      /\ ledger'[k] = ledger[k] + EntriesOf(at[s])[k]
  BY CommitLowersOwn DEF HandlerInv, CommitRequest
<1>2. EntriesOf(at[s])[k] \in Int /\ EntriesOf(at[s])[k] < 0
  BY <1>1, EntriesLowerSpent
<1>3. /\ k = Spent(at[s]) /\ k = Request[at[s]].account
      /\ Request[at[s]].kind = "redeem" /\ EntriesOf(at[s])[k] = -Request[at[s]].amount
  BY <1>1, <1>2, EntriesLowerSpent
<1>4. holder[k] = s
  BY <1>3 DEF SessionInv, SessionOK, CommitRequest, Holding
<1>5. ledger[k] - Request[at[s]].amount >= holdsSeen[s].reserved - released[k]
  BY <1>3 DEF HoldsInv, HoldsOK, CommitRequest
<1>6. Request[at[s]].amount \in Nat
  BY <1>1, RequestEnds
<1> QED
  BY <1>1, <1>3, <1>4, <1>5, <1>6

(* Every step keeps the recorded redemptions within the holds.             *)
LEMMA NextHoldsInv ==
  HandlerInv /\ SessionInv /\ HoldsInv /\ [Next]_vars => HoldsInv'
<1> SUFFICES ASSUME HandlerInv, SessionInv, HoldsInv, [Next]_vars PROVE HoldsInv'
  OBVIOUS
<1>0. /\ released \in [Liabilities -> Nat] /\ reserved \in [Liabilities -> Nat]
      /\ holdsSeen \in [Handlers -> [reserved : Nat, released : Nat]]
      /\ pc \in [Handlers -> {"idle", "lock", "read", "reserves", "releases", "act", "commit"}]
      /\ at \in [Handlers -> Refs \cup {NoRef}]
      /\ \A k \in Liabilities : ledger[k] \in Int /\ ledger[k] + released[k] >= 0
      /\ \A s \in Handlers : pc[s] # "idle" => at[s] \in Refs
  BY DEF HoldsInv, HoldsType, HandlerInv, SessionInv, LedgerTypeOK, Keys, OverdraftBounded
<1>1. ASSUME NEW s \in Handlers, HoldsType', HoldsOK(s)', UNCHANGED <<ledger, released>>,
             \A t \in Handlers \ {s} : UNCHANGED <<pc[t], at[t], holdsSeen[t]>>
      PROVE  HoldsInv'
  <2>1. ASSUME NEW t \in Handlers \ {s} PROVE HoldsOK(t)'
    BY <1>0, <1>1, HoldsKnownKept
  <2> QED
    BY <1>0, <1>1, <2>1 DEF HoldsInv, OverdraftBounded
<1>2. ASSUME NEW s \in Handlers, NEW r \in Refs, BeginRequest(s, r) PROVE HoldsInv'
  <2>1. /\ pc' = [pc EXCEPT ![s] = "lock"] /\ at' = [at EXCEPT ![s] = r]
        /\ UNCHANGED <<ledger, released, reserved, holdsSeen>>
    BY <1>2 DEF BeginRequest, Goto, ledgerVars, holdVars
  <2> QED
    BY <1>0, <1>1, <2>1 DEF HoldsOK, HoldsType
<1>3. ASSUME NEW s \in Handlers, LockSpent(s) PROVE HoldsInv'
  <2>1. pc' = [pc EXCEPT ![s] = "read"] /\ UNCHANGED <<at, ledger, released, reserved, holdsSeen>>
    BY <1>3 DEF LockSpent, Goto, AcquireBalanceLock, holdVars
  <2> QED
    BY <1>0, <1>1, <2>1 DEF HoldsOK, HoldsType
<1>4. ASSUME NEW s \in Handlers, ReadSpent(s) PROVE HoldsInv'
  <2>1. /\ pc' = [pc EXCEPT ![s] = IF Request[at[s]].kind = "issue" THEN "act" ELSE "reserves"]
        /\ UNCHANGED <<at, ledger, released, reserved, holdsSeen>> /\ pc[s] # "idle"
    BY <1>4 DEF ReadSpent, Goto, GetBalance, holdVars
  <2>2. Request[at[s]].kind \in {"issue", "redeem"}
    BY <1>0, <2>1, IssuanceAssumption
  <2>3. HoldsType' /\ HoldsOK(s)'
    BY <1>0, <2>1, <2>2 DEF HoldsOK, HoldsType
  <2>4. \A t \in Handlers \ {s} : UNCHANGED <<pc[t], at[t], holdsSeen[t]>>
    BY <1>0, <2>1
  <2> QED
    BY <1>1, <2>1, <2>3, <2>4
<1>5. ASSUME NEW s \in Handlers, ReadReserves(s) PROVE HoldsInv'
  <2>1. /\ pc[s] = "reserves" /\ pc' = [pc EXCEPT ![s] = "releases"]
        /\ UNCHANGED <<ledger, reserved, released, at>>
        /\ holdsSeen' = [holdsSeen EXCEPT ![s].reserved = reserved[Spent(at[s])]]
    BY <1>5 DEF ReadReserves, Goto, ledgerVars, holdVars
  <2>2. at[s] \in Refs /\ Request[at[s]].kind = "redeem"
    BY <1>0, <2>1 DEF HoldsInv, HoldsOK
  <2>3. Spent(at[s]) \in Liabilities
    BY <2>2, IssuanceAssumption DEF Spent
  <2>4. HoldsType' /\ HoldsOK(s)'
    BY <1>0, <2>1, <2>2, <2>3 DEF HoldsOK, HoldsType
  <2>5. \A t \in Handlers \ {s} : UNCHANGED <<pc[t], at[t], holdsSeen[t]>>
    BY <1>0, <2>1
  <2> QED
    BY <1>1, <2>1, <2>4, <2>5
<1>6. ASSUME NEW s \in Handlers, ReadReleases(s) PROVE HoldsInv'
  <2>1. /\ pc[s] = "releases" /\ pc' = [pc EXCEPT ![s] = "act"]
        /\ UNCHANGED <<ledger, reserved, released, at>>
        /\ holdsSeen' = [holdsSeen EXCEPT ![s].released = released[Spent(at[s])]]
    BY <1>6 DEF ReadReleases, Goto, ledgerVars, holdVars
  <2>2. at[s] \in Refs /\ Request[at[s]].kind = "redeem"
    BY <1>0, <2>1 DEF HoldsInv, HoldsOK
  <2>3. Spent(at[s]) = Request[at[s]].account /\ Spent(at[s]) \in Liabilities
    BY <2>2, IssuanceAssumption DEF Spent
  <2>4. HoldsType'
    BY <1>0, <2>1, <2>3 DEF HoldsType
  <2>5. holdsSeen'[s].released = released[Request[at[s]].account] /\ pc'[s] = "act"
        /\ released[Request[at[s]].account] \in Nat
    BY <1>0, <2>1, <2>3
  <2>6. HoldsOK(s)'
    BY <2>1, <2>5 DEF HoldsOK
  <2>7. \A t \in Handlers \ {s} : UNCHANGED <<pc[t], at[t], holdsSeen[t]>>
    BY <1>0, <2>1
  <2> QED
    BY <1>1, <2>1, <2>4, <2>6, <2>7
<1>7. ASSUME NEW s \in Handlers, Record(s) PROVE HoldsInv'
  <2>1. /\ pc' = [pc EXCEPT ![s] = "commit"]
        /\ UNCHANGED <<ledger, reserved, released, at, holdsSeen>>
    BY <1>7 DEF Record, WritePair, Goto, holdVars
  <2>2. HoldsType' /\ pc'[s] = "commit"
    BY <1>0, <2>1 DEF HoldsType
  <2>3. HoldsOK(s)'
    BY <1>7, <2>1, <2>2, RecordKeepsHolds DEF HoldsOK
  <2>4. \A t \in Handlers \ {s} : UNCHANGED <<pc[t], at[t], holdsSeen[t]>>
    BY <1>0, <2>1
  <2> QED
    BY <1>1, <2>1, <2>2, <2>3, <2>4
<1>8. ASSUME NEW s \in Handlers, BecomeIdle(s), UNCHANGED holdVars
      PROVE  /\ HoldsType' /\ HoldsOK(s)' /\ UNCHANGED <<reserved, released>>
             /\ \A t \in Handlers \ {s} : UNCHANGED <<pc[t], at[t], holdsSeen[t]>>
  BY <1>0, <1>8 DEF BecomeIdle, HoldsType, HoldsOK, NoHolds, holdVars
<1>9. ASSUME NEW s \in Handlers, RefuseAmount(s) \/ RejectDuplicate(s) \/ Crash(s)
      PROVE  HoldsInv'
  <2>1. BecomeIdle(s) /\ UNCHANGED <<ledger, holdVars>>
    BY <1>9 DEF RefuseAmount, RejectDuplicate, Crash, Rollback, EndRequest
  <2> QED
    BY <1>1, <1>8, <2>1
<1>10. ASSUME NEW s \in Handlers, CommitRequest(s) PROVE HoldsInv'
  <2>1. BecomeIdle(s) /\ UNCHANGED holdVars
    BY <1>10 DEF CommitRequest, EndRequest
  <2>2. \A k \in Liabilities : ledger'[k] \in Int
    BY <1>10, CommitLowersOwn, EntriesLowerSpent DEF HandlerInv, CommitRequest
  <2>3. ASSUME NEW t \in Handlers \ {s} PROVE HoldsOK(t)'
    <3>1. \A k \in Liabilities : holder[k] = t => ledger'[k] >= ledger[k]
      BY <1>10, CommitLowersOwn
    <3> QED
      BY <1>0, <1>8, <2>1, <2>2, <3>1, HoldsKnownKept
  <2>4. ASSUME NEW k \in Liabilities PROVE ledger'[k] + released'[k] >= 0
    <3>1. CASE ledger'[k] < ledger[k]
      <4>1. ledger'[k] >= holdsSeen[s].reserved - released[k]
        BY <1>10, <3>1, CommitLeavesHolds
      <4>2. holdsSeen[s].reserved \in Nat /\ released[k] \in Nat /\ released' = released
        BY <1>0, <1>8, <2>1
      <4> QED
        BY <2>2, <4>1, <4>2
    <3>2. CASE ~(ledger'[k] < ledger[k])
      BY <1>0, <1>8, <2>1, <2>2, <3>2
    <3> QED
      BY <3>1, <3>2
  <2> QED
    BY <1>8, <2>1, <2>3, <2>4 DEF HoldsInv, OverdraftBounded
<1>11. ASSUME NEW k \in Liabilities, PlaceHold(k) \/ ReleaseHold(k) PROVE HoldsInv'
  <2>1. /\ UNCHANGED <<ledger, pc, at, holdsSeen>>
        /\ released' \in [Liabilities -> Nat] /\ reserved' \in [Liabilities -> Nat]
        /\ \A j \in Liabilities : released'[j] >= released[j]
    BY <1>0, <1>11 DEF PlaceHold, ReleaseHold, ledgerVars
  <2>2. ASSUME NEW t \in Handlers PROVE HoldsOK(t)'
    BY <1>0, <2>1, HoldsKnownKept
  <2>3. \A j \in Liabilities : ledger'[j] + released'[j] >= 0
    BY <1>0, <2>1
  <2> QED
    BY <1>0, <2>1, <2>2, <2>3 DEF HoldsInv, HoldsType, OverdraftBounded
<1>12. CASE UNCHANGED <<ledger, holdVars, pc, at, holdsSeen>>
  BY <1>12 DEF HoldsInv, HoldsType, HoldsOK, OverdraftBounded, holdVars
<1> QED
  BY <1>2, <1>3, <1>4, <1>5, <1>6, <1>7, <1>9, <1>10, <1>11, <1>12
  DEF Next, HandlerStep, vars, ledgerVars, CreateAccount, ReplayCompleted, RefuseAccount

(* The strengthening of the theorems below.                                *)
IssuanceInv == HandlerInv /\ SessionInv /\ HoldsInv

(* It is an invariant of the service.                                      *)
LEMMA IssuanceInvariant == Spec => []IssuanceInv
<1>1. Init => IssuanceInv
  BY InitHandlerInv, InitSessionInv, InitHoldsInv DEF IssuanceInv
<1>2. IssuanceInv /\ [Next]_vars => IssuanceInv'
  BY NextHandlerInv, NextSessionInv, NextHoldsInv DEF IssuanceInv
<1> QED
  BY <1>1, <1>2, PTL DEF Spec

-----------------------------------------------------------------------------
(* What follows.                                                           *)

(* A balance falls only by the commit of a redemption, which holds its     *)
(* lock.                                                                   *)
LEMMA OnlyCommitsMove ==
  ASSUME [Next]_vars
  PROVE  UNCHANGED ledger \/ \E s \in Handlers : CommitRequest(s)
BY DEF Next, HandlerStep, vars, ledgerVars, CreateAccount, ReplayCompleted,
       RefuseAccount, BeginRequest, LockSpent, ReadSpent, ReadReserves, ReadReleases,
       RefuseAmount, Record, WritePair, RejectDuplicate, Crash, AcquireBalanceLock,
       GetBalance, Rollback, PlaceHold, ReleaseHold

(* An account is overdrawn by no more than the holds that were freed on    *)
(* it, for any number of racing and repeated redemptions and any holds:    *)
(* although redemptions compare with the available balance alone, and the  *)
(* sums it is made of are read at three moments.                           *)
THEOREM IssuanceOverdraftBounded == Spec => []OverdraftBounded
<1>1. IssuanceInv => OverdraftBounded
  BY DEF IssuanceInv, HoldsInv
<1> QED
  BY <1>1, IssuanceInvariant, PTL

(* A redemption never spends a hold that was there when it read the        *)
(* reserve rows, however many redemptions race for one account and however *)
(* holds come and go between its readings.                                 *)
THEOREM RedemptionsRespectHolds == Spec => HoldsUntouched
<1> DEFINE Respect == \A s \in Handlers, k \in Liabilities :
              delta[s][k] < 0 /\ ledger'[k] < ledger[k] =>
                ledger'[k] >= holdsSeen[s].reserved - released[k]
<1>1. ASSUME IssuanceInv, [Next]_vars PROVE [Respect]_vars
  <2> USE <1>1 DEF IssuanceInv
  <2>1. ASSUME NEW s \in Handlers, NEW k \in Liabilities,
               delta[s][k] < 0, ledger'[k] < ledger[k]
        PROVE  ledger'[k] >= holdsSeen[s].reserved - released[k]
    <3>1. k \in Keys /\ ledger[k] \in Int /\ ledger' # ledger
      BY <2>1 DEF SessionInv, LedgerTypeOK, Keys
    <3>2. PICK t \in Handlers : CommitRequest(t)
      BY <3>1, OnlyCommitsMove
    <3>3. holder[k] = t /\ ledger'[k] >= holdsSeen[t].reserved - released[k]
      BY <2>1, <3>2, CommitLeavesHolds
    <3>4. pc[s] = "commit" /\ delta[s] = EntriesOf(at[s]) /\ at[s] \in Refs
      BY <2>1, <3>1 DEF SessionInv, SessionOK, NoEntries, HandlerInv
    <3>5. k = Spent(at[s])
      BY <2>1, <3>4, EntriesLowerSpent
    <3>6. holder[k] = s
      BY <3>4, <3>5 DEF SessionInv, SessionOK, Holding
    <3> QED
      BY <3>3, <3>6
  <2> QED
    BY <2>1
<1> QED
  BY <1>1, IssuanceInvariant, PTL DEF Spec, HoldsUntouched

(* While a session has an account locked, no other session's commit lowers *)
(* its balance: only a redemption lowers it, and a redemption holds the    *)
(* lock.  The reserve, which redemptions pay without its lock, is not      *)
(* among these keys.                                                       *)
THEOREM IssuanceCheckedBalanceStands == Spec => CheckedBalanceStands
<1> DEFINE Stands == \A s \in Sessions, k \in Liabilities :
              holder[k] = s /\ holder'[k] = s => ledger'[k] >= ledger[k]
<1>1. ASSUME IssuanceInv, [Next]_vars PROVE [Stands]_ledgerVars
  <2> USE <1>1 DEF IssuanceInv
  <2>1. ASSUME NEW s \in Sessions, NEW k \in Liabilities, holder[k] = s, holder'[k] = s
        PROVE  ledger'[k] >= ledger[k]
    <3>1. k \in Keys /\ ledger[k] \in Int
      BY DEF SessionInv, LedgerTypeOK, Keys
    <3>2. CASE UNCHANGED ledger
      BY <3>1, <3>2
    <3>3. ASSUME NEW t \in Handlers, CommitRequest(t) PROVE ledger'[k] >= ledger[k]
      <4>1. t \in Sessions /\ t # NoOne
        BY IssuanceAssumption, KeysAssumption
      <4>2. holder'[k] # t
        BY <3>1, <3>3, <4>1 DEF CommitRequest, Commit, EndTransaction
      <4> QED
        BY <2>1, <3>3, <4>2, CommitLowersOwn
    <3> QED
      BY <3>2, <3>3, OnlyCommitsMove
  <2> QED
    BY <2>1
<1> QED
  BY <1>1, IssuanceInvariant, PTL DEF Spec, CheckedBalanceStands

-----------------------------------------------------------------------------
(* The shape of the rows the service writes. *)
RowTypes ==
  /\ onboarded \subseteq Liabilities
  /\ completed \subseteq Refs
  /\ outbox \subseteq Refs
  /\ reply \in [Refs -> {"none", "created", "refused", "error"}]

LEMMA InitRowTypes == Init => RowTypes
BY DEF Init, RowTypes

LEMMA NextRowTypes == HandlerInv /\ RowTypes /\ [Next]_vars => RowTypes'
<1> SUFFICES ASSUME HandlerInv, RowTypes, [Next]_vars PROVE RowTypes'
  OBVIOUS
<1> USE DEF RowTypes, issuanceVars
<1>0. \A s \in Handlers : pc[s] # "idle" => at[s] \in Refs
  BY DEF HandlerInv
<1>1. ASSUME NEW k \in Liabilities, CreateAccount(k) PROVE RowTypes'
  BY <1>1 DEF CreateAccount
<1>2. ASSUME NEW r \in Refs, ReplayCompleted(r) \/ RefuseAccount(r) PROVE RowTypes'
  BY <1>2 DEF ReplayCompleted, RefuseAccount
<1>3. ASSUME NEW s \in Handlers, RefuseAmount(s) \/ RejectDuplicate(s) PROVE RowTypes'
  BY <1>3, <1>0 DEF RefuseAmount, RejectDuplicate, EndRequest
<1>4. ASSUME NEW s \in Handlers, CommitRequest(s) PROVE RowTypes'
  BY <1>4, <1>0 DEF CommitRequest, EndRequest
<1>5. CASE UNCHANGED issuanceVars
  BY <1>5
<1> QED
  BY <1>1, <1>2, <1>3, <1>4, <1>5
  DEF Next, HandlerStep, vars, BeginRequest, LockSpent, ReadSpent, ReadReserves,
      ReadReleases, Record, WritePair, Crash, PlaceHold, ReleaseHold

(* Every variable keeps its shape, and a handler between two requests      *)
(* holds no lock and has no entry pending, whichever way the last request  *)
(* ended.                                                                  *)
THEOREM IssuanceTypeCorrectness == Spec => []IssuanceTypeOK
<1>1. IssuanceInv /\ [Next]_vars /\ RowTypes => RowTypes'
  BY NextRowTypes DEF IssuanceInv
<1>2. Spec => []RowTypes
  BY <1>1, IssuanceInvariant, InitRowTypes, PTL DEF Spec
<1>3. IssuanceInv /\ RowTypes => IssuanceTypeOK
  <2> SUFFICES ASSUME IssuanceInv, RowTypes PROVE IssuanceTypeOK
    OBVIOUS
  <2>1. \A s \in Handlers :
          pc[s] = "idle" => delta[s] = NoEntries /\ \A k \in Keys : holder[k] # s
    BY DEF IssuanceInv, SessionInv, SessionOK, Holding
  <2> QED
    BY <2>1 DEF IssuanceInv, HandlerInv, SessionInv, HoldsInv, HoldsType, RowTypes,
                IssuanceTypeOK
<1> QED
  BY <1>2, <1>3, IssuanceInvariant, PTL

-----------------------------------------------------------------------------
(* The service implements TokenPromise.                                    *)

(* A handler about to commit works on a reference that nobody has          *)
(* completed.                                                              *)
OncePerRef == \A s \in Handlers : pc[s] = "commit" => at[s] \notin completed

(* Two handlers that have both recorded a pair work on different           *)
(* references: the lock of the key they spend from tells them apart.       *)
LEMMA CommittersDiffer ==
  ASSUME IssuanceInv, NEW s \in Handlers, NEW t \in Handlers \ {s},
         pc[s] = "commit", pc[t] = "commit"
  PROVE  at[s] # at[t]
<1>1. holder[Spent(at[s])] = s /\ holder[Spent(at[t])] = t
  BY DEF IssuanceInv, SessionInv, SessionOK, Holding
<1> QED
  BY <1>1

(* Init establishes OncePerRef: every handler is idle. *)
LEMMA InitOncePerRef == Init => OncePerRef
BY DEF Init, OncePerRef

(* Every step keeps it: recording looks at the unique index, and a commit  *)
(* completes a reference that no other committing handler works on.        *)
LEMMA NextOncePerRef == IssuanceInv /\ OncePerRef /\ [Next]_vars => OncePerRef'
<1> SUFFICES ASSUME IssuanceInv, OncePerRef, [Next]_vars,
                    NEW t \in Handlers, pc'[t] = "commit"
             PROVE  at'[t] \notin completed'
  BY DEF OncePerRef
<1>0. /\ pc \in [Handlers -> {"idle", "lock", "read", "reserves", "releases", "act", "commit"}]
      /\ at \in [Handlers -> Refs \cup {NoRef}]
  BY DEF IssuanceInv, HandlerInv
<1>1. CASE UNCHANGED <<pc[t], at[t], completed>>
  BY <1>1 DEF OncePerRef
<1>2. ASSUME NEW s \in Handlers, Record(s) PROVE at'[t] \notin completed'
  <2>1. /\ at[s] \notin completed /\ UNCHANGED <<at, completed>>
        /\ pc' = [pc EXCEPT ![s] = "commit"]
    BY <1>2 DEF Record, WritePair, Goto, issuanceVars
  <2> QED
    BY <1>0, <1>1, <2>1
<1>3. ASSUME NEW s \in Handlers, BecomeIdle(s) PROVE t # s /\ UNCHANGED <<pc[t], at[t]>>
  BY <1>0, <1>3 DEF BecomeIdle
<1>4. ASSUME NEW s \in Handlers, CommitRequest(s) PROVE at'[t] \notin completed'
  <2>1. t # s /\ UNCHANGED <<pc[t], at[t]>>
    BY <1>3, <1>4 DEF CommitRequest, EndRequest
  <2>2. at[s] # at[t] /\ completed' = completed \cup {at[s]}
    BY <1>4, <2>1, CommittersDiffer DEF CommitRequest
  <2> QED
    BY <2>1, <2>2 DEF OncePerRef
<1>5. ASSUME NEW s \in Handlers, RefuseAmount(s) \/ RejectDuplicate(s) \/ Crash(s)
      PROVE  UNCHANGED <<pc[t], at[t], completed>>
  BY <1>3, <1>5 DEF RefuseAmount, RejectDuplicate, Crash, EndRequest, issuanceVars
<1>6. ASSUME NEW s \in Handlers,
             \/ \E r \in Refs : BeginRequest(s, r)
             \/ LockSpent(s) \/ ReadSpent(s) \/ ReadReserves(s) \/ ReadReleases(s)
      PROVE  UNCHANGED <<pc[t], at[t], completed>>
  BY <1>0, <1>6
  DEF BeginRequest, LockSpent, ReadSpent, ReadReserves, ReadReleases, Goto, issuanceVars
<1>7. CASE UNCHANGED <<pc, at, completed>>
  BY <1>1, <1>7
<1> QED
  BY <1>1, <1>2, <1>4, <1>5, <1>6, <1>7
  DEF Next, HandlerStep, vars, issuanceVars, CreateAccount, ReplayCompleted,
      RefuseAccount, PlaceHold, ReleaseHold

(* A commit is a step of the promise: the account of the reference and the *)
(* reserve change by its amount, and nothing else does.                    *)
LEMMA CommitIsPromised ==
  ASSUME IssuanceInv, OncePerRef, NEW s \in Handlers, CommitRequest(s)
  PROVE  Promise!Next
<1> DEFINE r == at[s]
           a == Request[r].account
           n == Request[r].amount
           bal == [k \in Liabilities |-> ledger[k]]
<1> USE DEF IssuanceInv
<1>1. /\ r \in Refs /\ s \in Sessions /\ r \notin completed /\ delta[s] = EntriesOf(r)
      /\ UNCHANGED released
  BY IssuanceAssumption
  DEF HandlerInv, SessionInv, SessionOK, OncePerRef, CommitRequest, EndRequest, holdVars
<1>2. /\ a \in Liabilities /\ a # Omnibus /\ n \in Nat /\ n > 0
      /\ \/ Request[r].kind = "issue" /\ Spent(r) = Omnibus /\ Paid(r) = a
         \/ Request[r].kind = "redeem" /\ Spent(r) = a /\ Paid(r) = Omnibus
  BY <1>1, RequestEnds
<1>3. /\ ledger \in [Keys -> Int] /\ Liabilities \subseteq Keys /\ Omnibus \in Keys
      /\ Omnibus \notin Liabilities
  BY IssuanceAssumption, KeysAssumption DEF SessionInv, LedgerTypeOK, Keys
<1>4. \A k \in Keys : ledger'[k] = ledger[k] + EntriesOf(r)[k]
  BY <1>1 DEF CommitRequest, Commit
<1>5. completed' = completed \cup {r}
  BY DEF CommitRequest
<1>6. CASE Request[r].kind = "issue"
  <2>1. /\ \A k \in Liabilities : ledger'[k] = IF k = a THEN ledger[k] + n ELSE ledger[k]
        /\ -ledger'[Omnibus] = -ledger[Omnibus] + n
    BY <1>2, <1>3, <1>4, <1>6 DEF EntriesOf
  <2>2. [k \in Liabilities |-> ledger'[k]] = [bal EXCEPT ![a] = @ + n]
    BY <1>2, <2>1
  <2>3. Promise!Mint(r)
    BY <1>1, <1>5, <1>6, <2>1, <2>2 DEF Promise!Mint, Promise!Change
  <2> QED
    BY <1>1, <2>3 DEF Promise!Next, Promise!Mint, Promise!Change
<1>7. CASE Request[r].kind = "redeem"
  <2>1. /\ \A k \in Liabilities : ledger'[k] = IF k = a THEN ledger[k] + (-n) ELSE ledger[k]
        /\ -ledger'[Omnibus] = -ledger[Omnibus] + (-n)
    BY <1>2, <1>3, <1>4, <1>7 DEF EntriesOf
  <2>2. [k \in Liabilities |-> ledger'[k]] = [bal EXCEPT ![a] = @ + (-n)]
    BY <1>2, <2>1
  <2>3. /\ ledger[a] - n >= holdsSeen[s].reserved - released[a]
        /\ holdsSeen[s].reserved \in Nat /\ released[a] \in Nat
    BY <1>2, <1>7 DEF HoldsInv, HoldsType, HoldsOK, CommitRequest
  <2>4. bal[a] + released[a] >= n
    BY <1>2, <1>3, <2>3
  <2>5. Promise!Burn(r)
    BY <1>1, <1>5, <1>7, <2>1, <2>2, <2>4 DEF Promise!Burn, Promise!Change
  <2> QED
    BY <1>1, <2>5 DEF Promise!Next, Promise!Burn, Promise!Change
<1> QED
  BY <1>2, <1>6, <1>7

(* A freed hold is one of the promise, and every other step leaves         *)
(* balances, reserve, freed holds and references alone.                    *)
LEMMA PromiseSimulation ==
  IssuanceInv /\ OncePerRef /\ [Next]_vars => [Promise!Next]_(Promise!promiseVars)
<1> SUFFICES ASSUME IssuanceInv, OncePerRef, [Next]_vars
             PROVE  Promise!Next \/ UNCHANGED Promise!promiseVars
  OBVIOUS
<1>1. \/ UNCHANGED <<ledger, released, completed>>
      \/ \E s \in Handlers : CommitRequest(s)
      \/ \E k \in Liabilities : ReleaseHold(k)
  BY DEF Next, HandlerStep, vars, ledgerVars, issuanceVars, holdVars, CreateAccount,
         ReplayCompleted, RefuseAccount, BeginRequest, LockSpent, ReadSpent, ReadReserves,
         ReadReleases, RefuseAmount, Record, WritePair, RejectDuplicate, Crash,
         EndRequest, AcquireBalanceLock, GetBalance, Rollback, PlaceHold
<1>2. UNCHANGED <<ledger, released, completed>> => UNCHANGED Promise!promiseVars
  BY DEF Promise!promiseVars
<1>3. ASSUME NEW k \in Liabilities, ReleaseHold(k) PROVE Promise!Next
  BY <1>3 DEF ReleaseHold, ledgerVars, issuanceVars, Promise!Next, Promise!Free
<1> QED
  BY <1>1, <1>2, <1>3, CommitIsPromised

(* The token issuance service, with any number of handlers, repetitions    *)
(* and crashes, keeps the promise of an issuer: each reference mints or    *)
(* burns once, for its own account, the reserve moves with it, and nobody  *)
(* redeems more than he has and has had freed.                             *)
THEOREM IssuanceKeepsPromise == Spec => KeepsPromise
<1>1. Spec => []OncePerRef
  BY IssuanceInvariant, InitOncePerRef, NextOncePerRef, PTL DEF Spec
<1>2. Init => Promise!Init
  BY DEF Init, LedgerInit, Promise!Init
<1> QED
  BY <1>1, <1>2, IssuanceInvariant, PromiseSimulation, PTL DEF Spec, KeepsPromise, Promise!Spec

=============================================================================

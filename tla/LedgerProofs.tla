---------------------------- MODULE LedgerProofs ----------------------------
(***************************************************************************)
(* Proofs, for every set of sessions and keys and all amounts, that the    *)
(* lock-check-record discipline of shared/journal.py never overdraws; and  *)
(* the facts about sums over rows and about short lists on which the       *)
(* proofs of the services that use the journal rest.                       *)
(***************************************************************************)
EXTENDS Ledger, FiniteSetTheorems, SequenceTheorems, WellFoundedInduction, TLAPS

(* A debit/credit pair changes only its own session's pending sums, and    *)
(* only the debited key's sum can fall (record_journal_pair).              *)
LEMMA PairEntriesEffect ==
  ASSUME LedgerTypeOK,
         NEW s \in Sessions, NEW debit \in Keys, NEW credit \in Keys,
         NEW amount \in Amounts
  PROVE  LET new == PairEntries(s, debit, credit, amount)
         IN  /\ new \in [Sessions -> [Keys -> Int]]
             /\ \A t \in Sessions \ {s} : new[t] = delta[t]
             /\ \A k \in Keys \ {debit} : new[s][k] >= delta[s][k]
             /\ new[s][debit] >= delta[s][debit] - amount
BY AmountsAssumption DEF PairEntries, LedgerTypeOK

(* Init establishes the invariant: nothing is pending and no institution   *)
(* opens overdrawn.                                                        *)
LEMMA InitEstablishesInv == LedgerInit => LedgerInv
BY OpeningAssumption, KeysAssumption
DEF LedgerInit, LedgerInv, LedgerTypeOK, NoOverdraft, PendingCovered,
    SeenStillCovered, NoEntries, NoRead, Keys

(* Taking a lock preserves the invariant: a session cannot take a lock     *)
(* that protects another session's pending debit (acquire_balance_lock).   *)
LEMMA AcquirePreservesInv ==
  ASSUME LedgerInv, NEW s \in Sessions, NEW k \in Keys,
         AcquireBalanceLock(s, k)
  PROVE  LedgerInv'
<1>1. LedgerTypeOK'
  BY DEF LedgerInv, LedgerTypeOK, AcquireBalanceLock
<1>2. \A j \in Keys, t \in Sessions : holder[j] = t => holder'[j] = t
  BY KeysAssumption DEF LedgerInv, LedgerTypeOK, AcquireBalanceLock
<1>3. UNCHANGED <<ledger, delta, seen>>
  BY DEF AcquireBalanceLock
<1>4. NoOverdraft' /\ PendingCovered'
  BY <1>2, <1>3 DEF LedgerInv, NoOverdraft, PendingCovered
<1>5. SeenStillCovered'
  BY <1>2, <1>3 DEF LedgerInv, LedgerTypeOK, SeenStillCovered
<1> QED
  BY <1>1, <1>4, <1>5 DEF LedgerInv

(* Reading a balance under the lock records exactly what the session sees. *)
LEMMA GetBalancePreservesInv ==
  ASSUME LedgerInv, NEW s \in Sessions, NEW k \in Keys, GetBalance(s, k)
  PROVE  LedgerInv'
<1>1. Balance(s, k) \in Int
  BY DEF Balance, LedgerInv, LedgerTypeOK
<1>2. LedgerTypeOK'
  BY <1>1 DEF LedgerInv, LedgerTypeOK, GetBalance
<1>3. NoOverdraft' /\ PendingCovered'
  BY DEF LedgerInv, NoOverdraft, PendingCovered, GetBalance
<1>4. k \in Liabilities => Balance(s, k) = ledger[k] + delta[s][k]
  BY KeysAssumption DEF Balance
<1>5. SeenStillCovered'
  <2> SUFFICES ASSUME NEW t \in Sessions, seen'[t].key # NoKey
               PROVE  /\ holder'[seen'[t].key] = t
                      /\ seen'[t].key \in Liabilities =>
                           seen'[t].balance
                             <= ledger'[seen'[t].key] + delta'[t][seen'[t].key]
    BY DEF SeenStillCovered
  <2>1. CASE t = s
    <3>1. seen'[t].key = k /\ seen'[t].balance = Balance(s, k)
      BY <2>1 DEF GetBalance, LedgerInv, LedgerTypeOK
    <3>2. holder'[k] = s /\ ledger'[k] = ledger[k] /\ delta'[s][k] = delta[s][k]
      BY DEF GetBalance
    <3> QED
      BY <1>1, <1>4, <2>1, <3>1, <3>2
  <2>2. CASE t # s
    BY <2>2 DEF GetBalance, LedgerInv, LedgerTypeOK, SeenStillCovered
  <2> QED
    BY <2>1, <2>2
<1> QED
  BY <1>2, <1>3, <1>5 DEF LedgerInv

(* Refusing a transfer only forgets the balance read. *)
LEMMA RefusePreservesInv ==
  ASSUME LedgerInv, NEW s \in Sessions, NEW k \in Keys, NEW amount \in Amounts,
         RefuseInsufficient(s, k, amount)
  PROVE  LedgerInv'
BY KeysAssumption
DEF RefuseInsufficient, NoRead, LedgerInv, LedgerTypeOK, NoOverdraft,
    PendingCovered, SeenStillCovered

(* Recording a pair preserves the invariant: the check under the lock      *)
(* covers the new pending debit.                                           *)
LEMMA RecordPreservesInv ==
  ASSUME LedgerInv, NEW s \in Sessions, NEW debit \in Keys,
         NEW credit \in Keys, NEW amount \in Amounts,
         RecordJournalPair(s, debit, credit, amount)
  PROVE  LedgerInv'
<1> USE DEF LedgerInv
<1>1. /\ delta' \in [Sessions -> [Keys -> Int]]
      /\ \A t \in Sessions \ {s} : delta'[t] = delta[t]
      /\ \A k \in Keys \ {debit} : delta'[s][k] >= delta[s][k]
      /\ delta'[s][debit] >= delta[s][debit] - amount
  BY PairEntriesEffect DEF RecordJournalPair
<1>2. LedgerTypeOK'
  <2>1. NoRead \in [key : Keys \cup {NoKey}, balance : Int]
    BY DEF NoRead
  <2>2. seen' \in [Sessions -> [key : Keys \cup {NoKey}, balance : Int]]
    BY <2>1 DEF RecordJournalPair, LedgerTypeOK
  <2>3. ledger' = ledger /\ holder' = holder
    BY DEF RecordJournalPair
  <2> QED
    BY <1>1, <2>2, <2>3 DEF LedgerTypeOK
<1>3. NoOverdraft'
  BY DEF RecordJournalPair, NoOverdraft
<1>4. holder[debit] = s
  BY KeysAssumption DEF RecordJournalPair, SeenStillCovered
<1>5. debit \in Liabilities => ledger[debit] + delta[s][debit] >= amount
  BY <1>4, AmountsAssumption, KeysAssumption
  DEF RecordJournalPair, SeenStillCovered, LedgerTypeOK
<1>6. UNCHANGED <<ledger, holder>>
  BY DEF RecordJournalPair
<1>7. PendingCovered'
  <2> SUFFICES ASSUME NEW t \in Sessions, NEW k \in Keys
               PROVE  /\ delta'[t][k] < 0 => holder[k] = t
                      /\ k \in Liabilities => ledger[k] + delta'[t][k] >= 0
    BY <1>6 DEF PendingCovered
  <2> ledger[k] \in Int /\ delta[t][k] \in Int /\ delta'[t][k] \in Int
    BY <1>2 DEF LedgerTypeOK
  <2>1. CASE t # s
    BY <1>1, <2>1 DEF PendingCovered
  <2>2. CASE t = s /\ k # debit
    BY <1>1, <2>2 DEF PendingCovered
  <2>3. CASE t = s /\ k = debit
    BY <1>1, <1>4, <1>5, <2>3, AmountsAssumption
  <2> QED
    BY <2>1, <2>2, <2>3
<1>8. SeenStillCovered'
  <2> SUFFICES ASSUME NEW t \in Sessions, seen'[t].key # NoKey
               PROVE  /\ holder'[seen'[t].key] = t
                      /\ seen'[t].key \in Liabilities =>
                           seen'[t].balance
                             <= ledger'[seen'[t].key] + delta'[t][seen'[t].key]
    BY DEF SeenStillCovered
  <2>1. t # s /\ seen'[t] = seen[t]
    BY DEF RecordJournalPair, NoRead, LedgerTypeOK
  <2> QED
    BY <1>1, <1>6, <2>1 DEF SeenStillCovered
<1> QED
  BY <1>2, <1>3, <1>7, <1>8

(* Ending a transaction drops the session's pending entries and locks and  *)
(* leaves the other sessions' locks alone.                                 *)
LEMMA EndTransactionEffect ==
  ASSUME LedgerInv, NEW s \in Sessions, EndTransaction(s)
  PROVE  /\ delta' \in [Sessions -> [Keys -> Int]]
         /\ holder' \in [Keys -> Sessions \cup {NoOne}]
         /\ seen' \in [Sessions -> [key : Keys \cup {NoKey}, balance : Int]]
         /\ \A k \in Keys : delta'[s][k] = 0
         /\ seen'[s].key = NoKey
         /\ \A t \in Sessions \ {s} : delta'[t] = delta[t] /\ seen'[t] = seen[t]
         /\ \A t \in Sessions \ {s}, k \in Keys :
              holder'[k] = t <=> holder[k] = t
BY KeysAssumption
DEF EndTransaction, NoEntries, NoRead, LedgerInv, LedgerTypeOK

(* Ending a transaction while no committed liability balance falls below   *)
(* zero, nor any balance another session protects falls, is safe.          *)
LEMMA EndPreservesInv ==
  ASSUME LedgerInv, NEW s \in Sessions, EndTransaction(s),
         ledger' \in [Keys -> Int],
         \A k \in Liabilities : ledger'[k] >= 0,
         \A t \in Sessions \ {s}, k \in Keys :
           holder[k] = t => ledger'[k] >= ledger[k]
  PROVE  LedgerInv'
<1> USE DEF LedgerInv
<1>1. LedgerTypeOK'
  BY EndTransactionEffect DEF LedgerTypeOK
<1>2. NoOverdraft'
  BY DEF NoOverdraft
<1>3. PendingCovered'
  <2> SUFFICES ASSUME NEW t \in Sessions, NEW k \in Keys
               PROVE  /\ delta'[t][k] < 0 => holder'[k] = t
                      /\ k \in Liabilities => ledger'[k] + delta'[t][k] >= 0
    BY DEF PendingCovered
  <2> /\ ledger[k] \in Int /\ ledger'[k] \in Int
      /\ delta[t][k] \in Int /\ delta'[t][k] \in Int
    BY <1>1 DEF LedgerTypeOK
  <2>1. CASE t = s
    BY <2>1, EndTransactionEffect
  <2>2. CASE t # s /\ delta[t][k] < 0
    <3>1. holder[k] = t /\ (k \in Liabilities => ledger[k] + delta[t][k] >= 0)
      BY <2>2 DEF PendingCovered
    <3> QED
      BY <2>2, <3>1, EndTransactionEffect
  <2>3. CASE t # s /\ delta[t][k] >= 0
    BY <2>3, EndTransactionEffect
  <2> QED
    BY <2>1, <2>2, <2>3
<1>4. SeenStillCovered'
  <2> SUFFICES ASSUME NEW t \in Sessions, seen'[t].key # NoKey
               PROVE  /\ holder'[seen'[t].key] = t
                      /\ seen'[t].key \in Liabilities =>
                           seen'[t].balance
                             <= ledger'[seen'[t].key] + delta'[t][seen'[t].key]
    BY DEF SeenStillCovered
  <2> DEFINE k == seen[t].key
  <2>1. t # s /\ seen'[t] = seen[t] /\ delta'[t] = delta[t] /\ k \in Keys
    BY EndTransactionEffect, KeysAssumption DEF LedgerTypeOK
  <2>2. /\ holder[k] = t
        /\ k \in Liabilities => seen[t].balance <= ledger[k] + delta[t][k]
    BY <2>1 DEF SeenStillCovered
  <2>3. holder'[k] = t /\ ledger'[k] >= ledger[k]
    BY <2>1, <2>2, EndTransactionEffect
  <2>4. /\ ledger[k] \in Int /\ ledger'[k] \in Int
        /\ delta[t][k] \in Int /\ seen[t].balance \in Int
    BY <2>1 DEF LedgerTypeOK
  <2> QED
    BY <2>1, <2>2, <2>3, <2>4
<1> QED
  BY <1>1, <1>2, <1>3, <1>4

(* A commit publishes the session's pending sums.  They are covered, and   *)
(* fall only on keys the session itself has locked.                        *)
LEMMA CommitEffect ==
  ASSUME LedgerInv, NEW s \in Sessions, Commit(s)
  PROVE  /\ ledger' \in [Keys -> Int]
         /\ \A k \in Liabilities : ledger'[k] >= 0
         /\ \A t \in Sessions \ {s}, k \in Keys :
              holder[k] = t => ledger'[k] >= ledger[k]
<1>1. ledger' = [k \in Keys |-> ledger[k] + delta[s][k]]
  BY DEF Commit
<1>2. \A k \in Keys : ledger[k] \in Int /\ delta[s][k] \in Int
  BY DEF LedgerInv, LedgerTypeOK
<1>3. \A k \in Liabilities : ledger[k] + delta[s][k] >= 0
  BY DEF LedgerInv, PendingCovered, Keys
<1>4. \A t \in Sessions \ {s}, k \in Keys : holder[k] = t => ~(delta[s][k] < 0)
  BY DEF LedgerInv, PendingCovered
<1> QED
  BY <1>1, <1>2, <1>3, <1>4 DEF Keys

(* Every step of the journal discipline preserves the invariant. *)
LEMMA NextPreservesInv == LedgerInv /\ [LedgerNext]_ledgerVars => LedgerInv'
<1> SUFFICES ASSUME LedgerInv, [LedgerNext]_ledgerVars PROVE LedgerInv'
  OBVIOUS
<1>1. ASSUME NEW s \in Sessions, Commit(s) PROVE LedgerInv'
  BY <1>1, CommitEffect, EndPreservesInv DEF Commit
<1>2. ASSUME NEW s \in Sessions, Rollback(s) PROVE LedgerInv'
  <2>1. ledger' = ledger /\ EndTransaction(s)
    BY <1>2 DEF Rollback
  <2>2. \A k \in Liabilities : ledger[k] >= 0
    BY DEF LedgerInv, NoOverdraft
  <2>3. \A k \in Keys : ledger[k] \in Int
    BY DEF LedgerInv, LedgerTypeOK
  <2>4. ledger' \in [Keys -> Int]
    BY <2>1 DEF LedgerInv, LedgerTypeOK
  <2> QED
    BY <2>1, <2>2, <2>3, <2>4, EndPreservesInv
<1>3. CASE UNCHANGED ledgerVars
  BY <1>3
  DEF ledgerVars, LedgerInv, LedgerTypeOK, NoOverdraft, PendingCovered,
      SeenStillCovered
<1>4. CASE LedgerNext
  BY <1>1, <1>2, <1>4, AcquirePreservesInv, GetBalancePreservesInv,
     RefusePreservesInv, RecordPreservesInv DEF LedgerNext
<1> QED
  BY <1>3, <1>4

(* The inductive invariant holds in every state: every pending debit is    *)
(* covered and locked, every balance about to be acted on is still valid.  *)
THEOREM LedgerInvariant == LedgerSpec => []LedgerInv
<1>1. LedgerInit => LedgerInv
  BY InitEstablishesInv
<1>2. LedgerInv /\ [LedgerNext]_ledgerVars => LedgerInv'
  BY NextPreservesInv
<1> QED
  BY <1>1, <1>2, PTL DEF LedgerSpec

(* Every variable of the journal keeps its type. *)
THEOREM TypeCorrectness == LedgerSpec => []LedgerTypeOK
<1>1. LedgerInv => LedgerTypeOK
  BY DEF LedgerInv
<1> QED
  BY <1>1, LedgerInvariant, PTL

(* No committed balance of an institution is ever negative, whatever the   *)
(* number of sessions and however they interleave, abort or crash.         *)
THEOREM Solvency == LedgerSpec => []NoOverdraft
<1>1. LedgerInv => NoOverdraft
  BY DEF LedgerInv
<1> QED
  BY <1>1, LedgerInvariant, PTL

(* An institution's balance checked under its advisory lock cannot be      *)
(* lowered by another session before the lock is released.                 *)
THEOREM LockedBalanceStability == LedgerSpec => CheckedBalanceStands
<1> DEFINE Stands ==
      \A s \in Sessions, k \in Liabilities :
        holder[k] = s /\ holder'[k] = s => ledger'[k] >= ledger[k]
<1>1. ASSUME LedgerInv, [LedgerNext]_ledgerVars PROVE [Stands]_ledgerVars
  <2>1. \A k \in Liabilities : k \in Keys /\ ledger[k] \in Int
    BY <1>1 DEF LedgerInv, LedgerTypeOK, Keys
  <2>2. CASE ledger' = ledger
    BY <2>1, <2>2
  <2>3. ASSUME NEW s \in Sessions, Commit(s) PROVE Stands
    <3>1. \A t \in Sessions \ {s}, k \in Keys :
            holder[k] = t => ledger'[k] >= ledger[k]
      BY <1>1, <2>3, CommitEffect
    <3>2. \A k \in Keys : holder'[k] # s
      BY <2>3, KeysAssumption DEF Commit, EndTransaction
    <3> QED
      BY <2>1, <3>1, <3>2
  <2>4. ledger' = ledger \/ \E s \in Sessions : Commit(s)
    BY <1>1
    DEF LedgerNext, ledgerVars, AcquireBalanceLock, GetBalance,
        RefuseInsufficient, RecordJournalPair, Rollback
  <2> QED
    BY <2>2, <2>3, <2>4
<1> QED
  BY <1>1, LedgerInvariant, PTL DEF LedgerSpec, CheckedBalanceStands

-----------------------------------------------------------------------------
(* What the balances of the services rest on: the sum of a function over a *)
(* finite set of indices, SumFunctionOnSet of the community modules, in    *)
(* whatever order its CHOOSE takes the indices.  Induction is over a set,  *)
(* the set of the naturals (or of the subsets) with the property; its      *)
(* complement would have a least element.  And the short lists of events   *)
(* and history rows a settlement has.                                      *)

(* A nonempty set of naturals has a least element. *)
LEMMA LeastNatural ==
  ASSUME NEW T \in SUBSET Nat, T # {}
  PROVE  \E n \in T : \A m \in T : n <= m
<1>1. \E n \in T : \A m \in T : ~(<<m, n>> \in OpToRel(<, Nat))
  BY NatLessThanWellFounded, WFMin, Zenon
<1>2. ASSUME NEW m \in Nat, NEW n \in Nat, m < n
      PROVE  <<m, n>> \in OpToRel(<, Nat)
  BY <1>2, SMT DEF OpToRel
<1> HIDE DEF OpToRel
<1>3. PICK n \in T : \A m \in T : ~(<<m, n>> \in OpToRel(<, Nat))
  BY <1>1, Zenon
<1>4. \A m \in T : ~(m < n)
  BY <1>2, <1>3, Zenon
<1>5. \A m \in T : n <= m
  BY <1>4
<1> QED
  BY <1>5

(* A set of naturals that holds 0 and the successor of each element. *)
LEMMA NaturalInduction ==
  ASSUME NEW T \in SUBSET Nat, 0 \in T, \A n \in T : n + 1 \in T
  PROVE  T = Nat
<1> SUFFICES ASSUME Nat \ T # {} PROVE FALSE
  OBVIOUS
<1>1. PICK n \in Nat \ T : \A m \in Nat \ T : n <= m
  BY LeastNatural
<1>2. n - 1 \in T
  BY <1>1
<1> QED
  BY <1>1, <1>2

(* One unfolding of the fold behind SumFunctionOnSet. *)
SumStep(f, g, s) ==
  IF s = {} THEN 0
  ELSE LET x == CHOOSE x \in s : TRUE IN f[x] + g[s \ {x}]

(* g computes the sums of f over the members of D. *)
IsSumOn(f, g, D) == g = [s \in D |-> SumStep(f, g, s)]

(* The subsets of S with at most n elements. *)
Small(S, n) == {s \in SUBSET S : Cardinality(s) <= n}

(* The recursion has a solution on the subsets of any bounded size. *)
LEMMA SumFcnSmall ==
  ASSUME NEW S, IsFiniteSet(S), NEW f, NEW n \in Nat
  PROVE  \E g : IsSumOn(f, g, Small(S, n))
<1> DEFINE T == {m \in Nat : \E g : IsSumOn(f, g, Small(S, m))}
<1>0. \A s \in SUBSET S : IsFiniteSet(s) /\ Cardinality(s) \in Nat
  BY FS_Subset, FS_CardinalityType
<1>1. 0 \in T
  <2>1. \A s \in Small(S, 0) : s = {}
    BY <1>0, FS_EmptySet DEF Small
  <2>2. [s \in Small(S, 0) |-> 0]
          = [s \in Small(S, 0) |-> SumStep(f, [r \in Small(S, 0) |-> 0], s)]
    BY <2>1 DEF SumStep
  <2> QED
    BY <2>2 DEF IsSumOn
<1>2. ASSUME NEW m \in T PROVE m + 1 \in T
  <2>1. PICK g : IsSumOn(f, g, Small(S, m))
    OBVIOUS
  <2> DEFINE h == [s \in Small(S, m + 1) |-> SumStep(f, g, s)]
  <2>2. Small(S, m) \subseteq Small(S, m + 1)
    BY <1>0 DEF Small
  <2>3. \A s \in Small(S, m) : h[s] = g[s]
    BY <2>1, <2>2 DEF IsSumOn
  <2>4. ASSUME NEW s \in Small(S, m + 1), s # {}
        PROVE  s \ {CHOOSE x \in s : TRUE} \in Small(S, m)
    <3>1. (CHOOSE x \in s : TRUE) \in s
      BY <2>4
    <3> DEFINE x == CHOOSE x \in s : TRUE
    <3>2. s \in SUBSET S /\ Cardinality(s) <= m + 1
      BY <2>4 DEF Small
    <3>3. Cardinality(s \ {x}) = Cardinality(s) - 1
      BY <1>0, <3>1, <3>2, FS_RemoveElement
    <3> QED
      BY <1>0, <3>2, <3>3 DEF Small
  <2>5. \A s \in Small(S, m + 1) : SumStep(f, g, s) = SumStep(f, h, s)
    BY <2>3, <2>4 DEF SumStep
  <2>6. IsSumOn(f, h, Small(S, m + 1))
    BY <2>5 DEF IsSumOn
  <2> QED
    BY <2>6
<1>3. T = Nat
  BY <1>1, <1>2, NaturalInduction
<1> QED
  BY <1>3

(* The recursive function in the definition of the sum exists. *)
LEMMA SumRecursion ==
  ASSUME NEW S, IsFiniteSet(S), NEW f
  PROVE  \E g : IsSumOn(f, g, SUBSET S) /\ SumFunctionOnSet(f, S) = g[S]
<1>1. Small(S, Cardinality(S)) = SUBSET S
  BY FS_Subset, FS_CardinalityType DEF Small
<1>2. \E g : IsSumOn(f, g, SUBSET S)
  <2>1. Cardinality(S) \in Nat
    BY FS_CardinalityType
  <2>2. \E g : IsSumOn(f, g, Small(S, Cardinality(S)))
    BY <2>1, SumFcnSmall
  <2> QED
    BY <1>1, <2>2
<1> DEFINE iter ==
      CHOOSE g : g = [s \in SUBSET S |->
                        IF s = {} THEN 0
                        ELSE LET x == CHOOSE x \in s : TRUE
                             IN  f[x] + g[s \ {x}]]
<1>3. IsSumOn(f, iter, SUBSET S)
  BY <1>2 DEF IsSumOn, SumStep
<1>4. SumFunctionOnSet(f, S) = iter[S]
  BY DEF SumFunctionOnSet, FoldFunctionOnSet, MapThenFoldSet
<1> QED
  BY <1>3, <1>4

(* Induction on the subsets of a finite set: a subset has the property     *)
(* when it still has it with any one element removed.                      *)
LEMMA FiniteSetInduction ==
  ASSUME NEW S, IsFiniteSet(S), NEW Q \in SUBSET SUBSET S, {} \in Q,
         \A T \in SUBSET S : (\A x \in T : T \ {x} \in Q) /\ T # {} => T \in Q
  PROVE  \A T \in SUBSET S : T \in Q
<1> DEFINE N == {n \in Nat : \A T \in SUBSET S : Cardinality(T) = n => T \in Q}
<1>0. \A T \in SUBSET S : IsFiniteSet(T) /\ Cardinality(T) \in Nat
  BY FS_Subset, FS_CardinalityType
<1>1. 0 \in N
  BY <1>0, FS_EmptySet
<1>2. ASSUME NEW n \in N PROVE n + 1 \in N
  <2> SUFFICES ASSUME NEW T \in SUBSET S, Cardinality(T) = n + 1 PROVE T \in Q
    OBVIOUS
  <2>1. T # {}
    BY FS_EmptySet
  <2>2. ASSUME NEW x \in T PROVE T \ {x} \in Q
    <3>1. Cardinality(T \ {x}) = n
      BY <1>0, FS_RemoveElement
    <3> QED
      BY <3>1
  <2> QED
    BY <2>1, <2>2
<1>3. N = Nat
  BY <1>1, <1>2, NaturalInduction
<1> QED
  BY <1>0, <1>3

(* CHOOSE returns an element of a nonempty set. *)
LEMMA ChosenElement ==
  ASSUME NEW s, s # {}
  PROVE  (CHOOSE x \in s : TRUE) \in s
OBVIOUS

(* The sums over a set and over a subset of it are computed alike. *)
LEMMA SumFcnUnique ==
  ASSUME NEW S, IsFiniteSet(S), NEW R \in SUBSET S, NEW f, NEW g, NEW h,
         IsSumOn(f, g, SUBSET S), IsSumOn(f, h, SUBSET R)
  PROVE  \A s \in SUBSET R : g[s] = h[s]
<1> DEFINE Q == {s \in SUBSET R : g[s] = h[s]}
<1>1. \A s \in SUBSET R : g[s] = SumStep(f, g, s) /\ h[s] = SumStep(f, h, s)
  BY DEF IsSumOn
<1>2. {} \in Q
  BY <1>1 DEF SumStep
<1>3. ASSUME NEW s \in SUBSET R, \A x \in s : s \ {x} \in Q, s # {}
      PROVE  s \in Q
  <2>1. (CHOOSE x \in s : TRUE) \in s
    BY <1>3, ChosenElement
  <2> QED
    BY <1>1, <1>3, <2>1 DEF SumStep
<1>4. IsFiniteSet(R)
  BY FS_Subset
<1>5. \A s \in SUBSET R : s \in Q
  <2> HIDE DEF Q
  <2>1. Q \in SUBSET SUBSET R
    BY DEF Q
  <2> QED
    BY <1>2, <1>3, <1>4, <2>1, FiniteSetInduction
<1> QED
  BY <1>5

(* The sum over nothing is 0; otherwise the chosen element comes first. *)
LEMMA SumUnfold ==
  ASSUME NEW S, IsFiniteSet(S), NEW f
  PROVE  /\ SumFunctionOnSet(f, {}) = 0
         /\ S # {} =>
              LET x == CHOOSE x \in S : TRUE
              IN  SumFunctionOnSet(f, S) = f[x] + SumFunctionOnSet(f, S \ {x})
<1>1. PICK g : IsSumOn(f, g, SUBSET S) /\ SumFunctionOnSet(f, S) = g[S]
  BY SumRecursion
<1>2. ASSUME NEW R \in SUBSET S PROVE SumFunctionOnSet(f, R) = g[R]
  <2>1. IsFiniteSet(R)
    BY FS_Subset
  <2>2. PICK h : IsSumOn(f, h, SUBSET R) /\ SumFunctionOnSet(f, R) = h[R]
    BY <2>1, SumRecursion
  <2>3. g[R] = h[R]
    <3>1. IsSumOn(f, g, SUBSET S)
      BY <1>1
    <3>2. IsSumOn(f, h, SUBSET R)
      BY <2>2
    <3>3. \A s \in SUBSET R : g[s] = h[s]
      BY <3>1, <3>2, SumFcnUnique, SMTT(30)
    <3> QED
      BY <3>3
  <2> QED
    BY <2>2, <2>3
<1>3. \A s \in SUBSET S : g[s] = SumStep(f, g, s)
  BY <1>1 DEF IsSumOn
<1>4. SumFunctionOnSet(f, {}) = 0
  BY <1>2, <1>3 DEF SumStep
<1>5. ASSUME S # {}, NEW x, x = CHOOSE y \in S : TRUE
      PROVE SumFunctionOnSet(f, S) = f[x] + SumFunctionOnSet(f, S \ {x})
  <2>1. g[S] = SumStep(f, g, S)
    BY <1>3
  <2>2. SumFunctionOnSet(f, S \ {x}) = g[S \ {x}]
    BY <1>2
  <2> QED
    BY <1>1, <2>1, <2>2, <1>5 DEF SumStep
<1> QED
  BY <1>4, <1>5

(* A sum of integers is an integer. *)
LEMMA SumType ==
  ASSUME NEW D, NEW f \in [D -> Int], NEW S \in SUBSET D, IsFiniteSet(S)
  PROVE  \A s \in SUBSET S : SumFunctionOnSet(f, s) \in Int
<1> DEFINE Q == {s \in SUBSET S : SumFunctionOnSet(f, s) \in Int}
<1>1. {} \in Q
  BY SumUnfold
<1>2. ASSUME NEW s \in SUBSET S, \A x \in s : s \ {x} \in Q, s # {}
      PROVE  s \in Q
  <2> DEFINE x == CHOOSE x \in s : TRUE
  <2>1. x \in s
    BY <1>2, ChosenElement
  <2>2. IsFiniteSet(s)
    BY FS_Subset
  <2>3. SumFunctionOnSet(f, s) = f[x] + SumFunctionOnSet(f, s \ {x})
    BY <1>2, <2>2, SumUnfold
  <2>4. SumFunctionOnSet(f, s \ {x}) \in Int
    BY <1>2, <2>1
  <2>5. f[x] \in Int
    BY <2>1
  <2> QED
    BY <2>3, <2>4, <2>5
<1>3. \A s \in SUBSET S : s \in Q
  <2> HIDE DEF Q
  <2>1. Q \in SUBSET SUBSET S
    BY DEF Q
  <2> QED
    BY <1>1, <1>2, <2>1, FiniteSetInduction
<1> QED
  BY <1>3

(* The order does not matter: any element may be taken out of the sum. *)
LEMMA SumRemoveAny ==
  ASSUME NEW D, NEW f \in [D -> Int], NEW S \in SUBSET D, IsFiniteSet(S)
  PROVE  \A s \in SUBSET S : \A y \in s :
           SumFunctionOnSet(f, s) = f[y] + SumFunctionOnSet(f, s \ {y})
<1> DEFINE Sum(s) == SumFunctionOnSet(f, s)
<1> DEFINE Q == {s \in SUBSET S : \A y \in s : Sum(s) = f[y] + Sum(s \ {y})}
<1>0. \A s \in SUBSET S : Sum(s) \in Int
  BY SumType
<1>1. {} \in Q
  OBVIOUS
<1>2. ASSUME NEW s \in SUBSET S, \A x \in s : s \ {x} \in Q, s # {}, NEW y \in s
      PROVE  Sum(s) = f[y] + Sum(s \ {y})
  <2>1. PICK z \in s : Sum(s) = f[z] + Sum(s \ {z})
    <3>1. (CHOOSE z \in s : TRUE) \in s
      BY <1>2, ChosenElement
    <3>2. IsFiniteSet(s)
      BY FS_Subset
    <3> QED
      BY <1>2, <3>1, <3>2, SumUnfold
  <2>2. s \ {z} \in Q /\ s \ {y} \in Q
    BY <1>2
  <2>3. CASE y = z
    BY <2>1, <2>3
  <2>4. CASE y # z
    <3>1. Sum(s \ {z}) = f[y] + Sum((s \ {z}) \ {y})
      BY <2>2, <2>4
    <3>2. Sum(s \ {y}) = f[z] + Sum((s \ {y}) \ {z})
      BY <2>2, <2>4
    <3>3. (s \ {z}) \ {y} = (s \ {y}) \ {z}
      OBVIOUS
    <3>4. f[y] \in Int /\ f[z] \in Int /\ Sum((s \ {y}) \ {z}) \in Int
      BY <1>0
    <3>5. Sum(s) = f[z] + (f[y] + Sum((s \ {y}) \ {z}))
      BY <2>1, <3>1, <3>3
    <3> HIDE DEF Sum
    <3> QED
      BY <3>2, <3>4, <3>5
  <2> QED
    BY <2>3, <2>4
<1>3. \A s \in SUBSET S : s \in Q
  <2>1. Q \in SUBSET SUBSET S
    OBVIOUS
  <2>2. \A s \in SUBSET S : (\A x \in s : s \ {x} \in Q) /\ s # {} => s \in Q
    BY <1>2
  <2> HIDE DEF Q
  <2> QED
    BY <1>1, <2>1, <2>2, FiniteSetInduction
<1> QED
  BY <1>3

(* Taking one element out of a sum. *)
LEMMA SumRemove ==
  ASSUME NEW D, NEW f \in [D -> Int], NEW S \in SUBSET D, IsFiniteSet(S),
         NEW x \in S
  PROVE  SumFunctionOnSet(f, S) = f[x] + SumFunctionOnSet(f, S \ {x})
BY SumRemoveAny

(* Adding one element to a sum. *)
LEMMA SumAdd ==
  ASSUME NEW D, NEW f \in [D -> Int], NEW S \in SUBSET D, IsFiniteSet(S),
         NEW x \in D \ S
  PROVE  SumFunctionOnSet(f, S \cup {x}) = SumFunctionOnSet(f, S) + f[x]
<1> DEFINE T == S \cup {x}
<1>1. IsFiniteSet(T) /\ T \in SUBSET D /\ T \ {x} = S /\ x \in T
  BY FS_AddElement
<1>2. SumFunctionOnSet(f, T) = f[x] + SumFunctionOnSet(f, S)
  <2> HIDE DEF T
  <2>1. SumFunctionOnSet(f, T) = f[x] + SumFunctionOnSet(f, T \ {x})
    BY <1>1, SumRemove
  <2> QED
    BY <1>1, <2>1
<1>3. SumFunctionOnSet(f, S) \in Int /\ f[x] \in Int
  BY SumType
<1> QED
  BY <1>2, <1>3

(* Functions that agree on the indices have the same sum. *)
LEMMA SumSame ==
  ASSUME NEW D, NEW f \in [D -> Int], NEW E, NEW g \in [E -> Int],
         NEW S \in SUBSET (D \cap E), IsFiniteSet(S), \A x \in S : f[x] = g[x]
  PROVE  SumFunctionOnSet(f, S) = SumFunctionOnSet(g, S)
<1> DEFINE Q == {s \in SUBSET S : SumFunctionOnSet(f, s) = SumFunctionOnSet(g, s)}
<1>1. {} \in Q
  BY SumUnfold
<1>2. ASSUME NEW s \in SUBSET S, \A x \in s : s \ {x} \in Q, s # {}
      PROVE  s \in Q
  <2>1. PICK x \in s : TRUE
    BY <1>2
  <2>2. IsFiniteSet(s)
    BY FS_Subset
  <2>3. SumFunctionOnSet(f, s) = f[x] + SumFunctionOnSet(f, s \ {x})
    BY <2>2, SumRemove
  <2>4. SumFunctionOnSet(g, s) = g[x] + SumFunctionOnSet(g, s \ {x})
    BY <2>2, SumRemove
  <2> QED
    BY <1>2, <2>3, <2>4
<1>3. \A s \in SUBSET S : s \in Q
  <2>1. Q \in SUBSET SUBSET S
    OBVIOUS
  <2> HIDE DEF Q
  <2> QED
    BY <1>1, <1>2, <2>1, FiniteSetInduction
<1> QED
  BY <1>3

(* The sum of a sum is the sum of the sums. *)
LEMMA SumPlus ==
  ASSUME NEW D, NEW f \in [D -> Int], NEW g \in [D -> Int], NEW h \in [D -> Int],
         NEW S \in SUBSET D, IsFiniteSet(S), \A x \in S : h[x] = f[x] + g[x]
  PROVE  SumFunctionOnSet(h, S) = SumFunctionOnSet(f, S) + SumFunctionOnSet(g, S)
<1> DEFINE Sum(e, s) == SumFunctionOnSet(e, s)
<1> DEFINE Q == {s \in SUBSET S : Sum(h, s) = Sum(f, s) + Sum(g, s)}
<1>0. \A s \in SUBSET S : Sum(f, s) \in Int /\ Sum(g, s) \in Int
  BY SumType
<1>1. {} \in Q
  <2>1. Sum(f, {}) = 0 /\ Sum(g, {}) = 0 /\ Sum(h, {}) = 0
    BY SumUnfold
  <2> HIDE DEF Sum
  <2> QED
    BY <2>1
<1>2. ASSUME NEW s \in SUBSET S, \A x \in s : s \ {x} \in Q, s # {}
      PROVE  s \in Q
  <2>1. PICK x \in s : TRUE
    BY <1>2
  <2>2. IsFiniteSet(s)
    BY FS_Subset
  <2>3. Sum(f, s) = f[x] + Sum(f, s \ {x})
    BY <2>2, SumRemove
  <2>4. Sum(g, s) = g[x] + Sum(g, s \ {x})
    BY <2>2, SumRemove
  <2>5. Sum(h, s) = h[x] + Sum(h, s \ {x})
    BY <2>2, SumRemove
  <2>6. Sum(h, s \ {x}) = Sum(f, s \ {x}) + Sum(g, s \ {x})
    BY <1>2
  <2>7. /\ h[x] = f[x] + g[x] /\ f[x] \in Int /\ g[x] \in Int
        /\ Sum(f, s \ {x}) \in Int /\ Sum(g, s \ {x}) \in Int
    BY <1>0
  <2> HIDE DEF Sum
  <2> QED
    BY <2>3, <2>4, <2>5, <2>6, <2>7
<1>3. \A s \in SUBSET S : s \in Q
  <2>1. Q \in SUBSET SUBSET S
    OBVIOUS
  <2> HIDE DEF Q
  <2> QED
    BY <1>1, <1>2, <2>1, FiniteSetInduction
<1> QED
  BY <1>3

(* A sum of zeros. *)
LEMMA SumZero ==
  ASSUME NEW D, NEW f \in [D -> Int], NEW S \in SUBSET D, IsFiniteSet(S),
         \A x \in S : f[x] = 0
  PROVE  SumFunctionOnSet(f, S) = 0
<1> DEFINE n == SumFunctionOnSet(f, S)
<1>1. n = n + n
  BY SumPlus
<1>2. n \in Int
  BY SumType
<1> HIDE DEF n
<1>3. n = 0
  BY <1>1, <1>2
<1> QED
  BY <1>3 DEF n

(* What the sum gains when the value at one index changes. *)
LEMMA SumUpdate ==
  ASSUME NEW D, NEW f \in [D -> Int], NEW g \in [D -> Int],
         NEW S \in SUBSET D, IsFiniteSet(S), NEW x \in S,
         \A y \in S \ {x} : g[y] = f[y]
  PROVE  SumFunctionOnSet(g, S) = SumFunctionOnSet(f, S) + g[x] - f[x]
<1> DEFINE Sum(e, s) == SumFunctionOnSet(e, s)
<1>1. IsFiniteSet(S \ {x})
  BY FS_Subset
<1>2. Sum(g, S \ {x}) = Sum(f, S \ {x})
  BY <1>1, SumSame
<1>3. Sum(f, S) = f[x] + Sum(f, S \ {x})
  BY SumRemove
<1>4. Sum(g, S) = g[x] + Sum(g, S \ {x})
  BY SumRemove
<1>5. Sum(f, S \ {x}) \in Int /\ f[x] \in Int /\ g[x] \in Int
  BY SumType
<1> HIDE DEF Sum
<1> QED
  BY <1>2, <1>3, <1>4, <1>5 DEF Sum

(* The sum over two disjoint sets. *)
LEMMA SumUnion ==
  ASSUME NEW D, NEW f \in [D -> Int], NEW S \in SUBSET D, IsFiniteSet(S),
         NEW T \in SUBSET D, IsFiniteSet(T), S \cap T = {}
  PROVE  SumFunctionOnSet(f, S \cup T)
           = SumFunctionOnSet(f, S) + SumFunctionOnSet(f, T)
<1> DEFINE Sum(s) == SumFunctionOnSet(f, s)
<1> DEFINE Q == {s \in SUBSET T : Sum(S \cup s) = Sum(S) + Sum(s)}
<1>0. Sum(S) \in Int /\ \A s \in SUBSET T : Sum(s) \in Int
  BY SumType
<1>1. {} \in Q
  <2>1. Sum({}) = 0 /\ S \cup {} = S
    BY SumUnfold
  <2> QED
    BY <1>0, <2>1
<1>2. ASSUME NEW s \in SUBSET T, \A x \in s : s \ {x} \in Q, s # {}
      PROVE  s \in Q
  <2>1. PICK x \in s : TRUE
    BY <1>2
  <2>2. IsFiniteSet(s) /\ IsFiniteSet(S \cup s)
    BY FS_Subset, FS_Union
  <2>3. Sum(s) = f[x] + Sum(s \ {x})
    BY <2>2, SumRemove
  <2>4. Sum(S \cup s) = f[x] + Sum((S \cup s) \ {x})
    BY <2>2, SumRemove
  <2>5. (S \cup s) \ {x} = S \cup (s \ {x})
    OBVIOUS
  <2>6. Sum(S \cup (s \ {x})) = Sum(S) + Sum(s \ {x})
    BY <1>2
  <2>7. f[x] \in Int /\ Sum(s \ {x}) \in Int
    BY <1>0
  <2> HIDE DEF Sum
  <2> QED
    BY <1>0, <2>3, <2>4, <2>5, <2>6, <2>7
<1>3. \A s \in SUBSET T : s \in Q
  <2>1. Q \in SUBSET SUBSET T
    OBVIOUS
  <2> HIDE DEF Q
  <2> QED
    BY <1>1, <1>2, <2>1, FiniteSetInduction
<1> QED
  BY <1>3

-----------------------------------------------------------------------------

(* Short lists put together: the histories and events of a settlement grow *)
(* by an entry or two at a time.                                           *)
LEMMA AppendToOne ==
  ASSUME NEW a, NEW b
  PROVE  Append(<<a>>, b) = <<a, b>>
<1>1. ASSUME NEW S, NEW s \in Seq(S), NEW t \in Seq(S), NEW e \in S,
             Len(s) = 1, Len(t) = 2, t[1] = s[1], t[2] = e
      PROVE  Append(s, e) = t
  BY <1>1
<1>2. <<a>> \in Seq({a, b}) /\ <<a, b>> \in Seq({a, b}) /\ b \in {a, b}
  OBVIOUS
<1> QED
  BY <1>1, <1>2

(* One entry and one more. *)
LEMMA OneAndOne ==
  ASSUME NEW a, NEW b
  PROVE  <<a>> \o <<b>> = <<a, b>>
<1>1. ASSUME NEW S, NEW p \in Seq(S), NEW q \in Seq(S), NEW t \in Seq(S),
             Len(p) = 1, Len(q) = 1, Len(t) = 2, t[1] = p[1], t[2] = q[1]
      PROVE  p \o q = t
  <2>1. /\ p \o q \in Seq(S) /\ Len(p \o q) = Len(p) + Len(q)
        /\ \A i \in 1..Len(p) + Len(q) :
             (p \o q)[i] = IF i <= Len(p) THEN p[i] ELSE q[i - Len(p)]
    BY ConcatProperties
  <2>2. Len(p \o q) = 2 /\ (p \o q)[1] = p[1] /\ (p \o q)[2] = q[1]
    BY <1>1, <2>1
  <2> QED
    BY <1>1, <2>1, <2>2
<1> DEFINE S == {a, b}
<1>2. <<a>> \in Seq(S) /\ <<b>> \in Seq(S) /\ <<a, b>> \in Seq(S)
  OBVIOUS
<1> QED
  BY <1>1, <1>2

(* Two entries and one more. *)
LEMMA TwoAndOne ==
  ASSUME NEW a, NEW b, NEW c
  PROVE  <<a, b>> \o <<c>> = <<a, b, c>>
<1>1. ASSUME NEW S, NEW p \in Seq(S), NEW q \in Seq(S), NEW t \in Seq(S),
             Len(p) = 2, Len(q) = 1, Len(t) = 3,
             t[1] = p[1], t[2] = p[2], t[3] = q[1]
      PROVE  p \o q = t
  <2>1. /\ p \o q \in Seq(S) /\ Len(p \o q) = Len(p) + Len(q)
        /\ \A i \in 1..Len(p) + Len(q) :
             (p \o q)[i] = IF i <= Len(p) THEN p[i] ELSE q[i - Len(p)]
    BY ConcatProperties
  <2>2. /\ Len(p \o q) = 3
        /\ (p \o q)[1] = p[1] /\ (p \o q)[2] = p[2] /\ (p \o q)[3] = q[1]
    BY <1>1, <2>1
  <2> QED
    BY <1>1, <2>1, <2>2
<1> DEFINE S == {a, b, c}
<1>2. <<a, b>> \in Seq(S) /\ <<c>> \in Seq(S) /\ <<a, b, c>> \in Seq(S)
  OBVIOUS
<1> QED
  BY <1>1, <1>2

(* One entry and two more. *)
LEMMA OneAndTwo ==
  ASSUME NEW a, NEW b, NEW c
  PROVE  <<a>> \o <<b, c>> = <<a, b, c>>
<1>1. ASSUME NEW S, NEW p \in Seq(S), NEW q \in Seq(S), NEW t \in Seq(S),
             Len(p) = 1, Len(q) = 2, Len(t) = 3,
             t[1] = p[1], t[2] = q[1], t[3] = q[2]
      PROVE  p \o q = t
  <2>1. /\ p \o q \in Seq(S) /\ Len(p \o q) = Len(p) + Len(q)
        /\ \A i \in 1..Len(p) + Len(q) :
             (p \o q)[i] = IF i <= Len(p) THEN p[i] ELSE q[i - Len(p)]
    BY ConcatProperties
  <2>2. /\ Len(p \o q) = 3
        /\ (p \o q)[1] = p[1] /\ (p \o q)[2] = q[1] /\ (p \o q)[3] = q[2]
    BY <1>1, <2>1
  <2> QED
    BY <1>1, <2>1, <2>2
<1> DEFINE S == {a, b, c}
<1>2. <<a>> \in Seq(S) /\ <<b, c>> \in Seq(S) /\ <<a, b, c>> \in Seq(S)
  OBVIOUS
<1> QED
  BY <1>1, <1>2

(* Two entries and two more. *)
LEMMA TwoAndTwo ==
  ASSUME NEW a, NEW b, NEW c, NEW d
  PROVE  <<a, b>> \o <<c, d>> = <<a, b, c, d>>
<1>1. ASSUME NEW S, NEW p \in Seq(S), NEW q \in Seq(S), NEW t \in Seq(S),
             Len(p) = 2, Len(q) = 2, Len(t) = 4,
             t[1] = p[1], t[2] = p[2], t[3] = q[1], t[4] = q[2]
      PROVE  p \o q = t
  <2>1. /\ p \o q \in Seq(S) /\ Len(p \o q) = Len(p) + Len(q)
        /\ \A i \in 1..Len(p) + Len(q) :
             (p \o q)[i] = IF i <= Len(p) THEN p[i] ELSE q[i - Len(p)]
    BY ConcatProperties
  <2>2. /\ Len(p \o q) = 4
        /\ (p \o q)[1] = p[1] /\ (p \o q)[2] = p[2]
        /\ (p \o q)[3] = q[1] /\ (p \o q)[4] = q[2]
    BY <1>1, <2>1
  <2> QED
    BY <1>1, <2>1, <2>2
<1> DEFINE S == {a, b, c, d}
<1>2. <<a, b>> \in Seq(S) /\ <<c, d>> \in Seq(S) /\ <<a, b, c, d>> \in Seq(S)
  OBVIOUS
<1> QED
  BY <1>1, <1>2

(* One entry and three more. *)
LEMMA OneAndThree ==
  ASSUME NEW a, NEW b, NEW c, NEW d
  PROVE  <<a>> \o <<b, c, d>> = <<a, b, c, d>>
<1>1. ASSUME NEW S, NEW p \in Seq(S), NEW q \in Seq(S), NEW t \in Seq(S),
             Len(p) = 1, Len(q) = 3, Len(t) = 4,
             t[1] = p[1], t[2] = q[1], t[3] = q[2], t[4] = q[3]
      PROVE  p \o q = t
  <2>1. /\ p \o q \in Seq(S) /\ Len(p \o q) = Len(p) + Len(q)
        /\ \A i \in 1..Len(p) + Len(q) :
             (p \o q)[i] = IF i <= Len(p) THEN p[i] ELSE q[i - Len(p)]
    BY ConcatProperties
  <2>2. /\ Len(p \o q) = 4
        /\ (p \o q)[1] = p[1] /\ (p \o q)[2] = q[1]
        /\ (p \o q)[3] = q[2] /\ (p \o q)[4] = q[3]
    BY <1>1, <2>1
  <2> QED
    BY <1>1, <2>1, <2>2
<1> DEFINE S == {a, b, c, d}
<1>2. <<a>> \in Seq(S) /\ <<b, c, d>> \in Seq(S) /\ <<a, b, c, d>> \in Seq(S)
  OBVIOUS
<1> QED
  BY <1>1, <1>2

(* An element at no place of a list is not counted. *)
LEMMA NotListed ==
  ASSUME NEW rows, NEW x, \A i \in DOMAIN rows : rows[i] # x
  PROVE  Cardinality({i \in DOMAIN rows : rows[i] = x}) = 0
<1>1. {i \in DOMAIN rows : rows[i] = x} = {}
  OBVIOUS
<1> QED
  BY <1>1, FS_EmptySet

(* An element at one place only is counted once. *)
LEMMA ListedOnce ==
  ASSUME NEW rows, NEW x, NEW n \in DOMAIN rows,
         \A i \in DOMAIN rows : rows[i] = x <=> i = n
  PROVE  Cardinality({i \in DOMAIN rows : rows[i] = x}) = 1
<1>1. {i \in DOMAIN rows : rows[i] = x} = {n}
  OBVIOUS
<1> QED
  BY <1>1, FS_Singleton

=============================================================================

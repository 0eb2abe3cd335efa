-------------------------- MODULE ComplianceProofs --------------------------
(***************************************************************************)
(* Proofs, for all transactions, topics, thresholds, windows and caps,     *)
(* about the rules of services/compliance-monitor/main.py: the velocity    *)
(* flag is exact although the tracker forgets entries, and what the rules  *)
(* miss is missing from the event or due to a failed lookup.               *)
(***************************************************************************)
EXTENDS ComplianceRules, FiniteSetTheorems, WellFoundedInduction, TLAPS

(* The types.  A row's flags are three sets; what is in them is the rules' *)
(* business.                                                               *)
RulesTypeOK ==
  /\ clock \in Nat \ {0}
  /\ log \in Seq(Transactions)
  /\ done \in 0..Len(log)
  /\ happenedAt \in [Transactions -> Nat]
  /\ tracker \in [Accounts -> SUBSET (Nat \X Nat)]
  /\ screenedAt \in [Transactions -> Nat]
  /\ inRun \in [Transactions -> Nat]
  /\ flags = [x \in Transactions |-> <<Amount(x), Velocity(x), Sanctions(x)>>]
  /\ faults \in [restart : Nat, lookup : Nat]

(* A transaction is in the topic once, after it happened. *)
OnceInLog ==
  /\ \A i, j \in 1..Len(log) : log[i] = log[j] => i = j
  /\ \A i \in 1..Len(log) : happenedAt[log[i]] # 0

(* Screening follows the order of the topic, so the times of screenings    *)
(* rise along it, and no screening is of a later run than this.            *)
ScreenedInOrder ==
  /\ \A i, j \in 1..done : i <= j => screenedAt[log[i]] <= screenedAt[log[j]]
  /\ \A i \in 1..done : screenedAt[log[i]] <= clock /\ inRun[log[i]] <= faults.restart

(* An entry of the tracker is a screening of the account in this run. *)
EntriesTrue ==
  \A a \in Accounts : \A s \in tracker[a] :
    /\ s[1] \in 1..done
    /\ Fields[log[s[1]]].account = a
    /\ screenedAt[log[s[1]]] = s[2]
    /\ inRun[log[s[1]]] = faults.restart

(* The entries of a list after the n-th screening. *)
After(list, n) == {q \in list : q[1] > n}

(* A screening of the last hour is in the tracker, unless TrackerCap later *)
(* ones have pushed it out.                                                *)
OnlyOldForgotten ==
  \A i \in 1..done :
    LET a == Fields[log[i]].account
    IN  /\ inRun[log[i]] = faults.restart
        /\ screenedAt[log[i]] > clock - Hour
        => \/ \E s \in tracker[a] : s[1] = i
           \/ Cardinality(After(tracker[a], i)) >= TrackerCap

(* ScreenedWith by places in the log. *)
Window(i) ==
  {j \in 1..i : /\ Fields[log[j]].account = Fields[log[i]].account
                /\ inRun[log[j]] = inRun[log[i]]
                /\ screenedAt[log[j]] > screenedAt[log[i]] - Hour}

(* VelocityExact by places. *)
FlagsExact ==
  \A i \in 1..done : (Velocity(log[i]) # {}) <=> Cardinality(Window(i)) > VelocityLimit

(* The amount flags are those of the fields that were read. *)
AmountsFlagged ==
  \A i \in 1..done :
    Amount(log[i]) = CheckLargeTransaction(log[i]) \cup CheckStructuring(log[i])

(* The places of the listed names that passed as clean, although the event *)
(* names the account.                                                      *)
Passed ==
  {i \in 1..done : /\ "account" \in Carried(Payload[log[i]].topic)
                   /\ SanctionsHits[Payload[log[i]].account] > 0
                   /\ Sanctions(log[i]) = {}}

(* A lookup failed for each of them. *)
PassedByFault == Cardinality(Passed) <= faults.lookup

(* The tracker keeps at most TrackerCap entries of an account. *)
TrackerBounded ==
  \A a \in Accounts : IsFiniteSet(tracker[a]) /\ Cardinality(tracker[a]) <= TrackerCap

RulesInv ==
  /\ RulesTypeOK
  /\ OnceInLog
  /\ ScreenedInOrder
  /\ EntriesTrue
  /\ OnlyOldForgotten
  /\ FlagsExact
  /\ AmountsFlagged
  /\ PassedByFault
  /\ TrackerBounded

-----------------------------------------------------------------------------
(* Lists with a cap.                                                       *)

(* A nonempty set of naturals has a least element. *)
LEMMA LeastNatural ==
  ASSUME NEW T \in SUBSET Nat, T # {}
  PROVE  \E n \in T : \A m \in T : n <= m
<1>1. \E n \in T : \A m \in T : ~(<<m, n>> \in OpToRel(<, Nat))
  BY NatLessThanWellFounded, WFMin, Zenon
<1>2. ASSUME NEW m \in Nat, NEW n \in Nat, m < n
      PROVE  <<m, n>> \in OpToRel(<, Nat)
  BY <1>2, SMT DEF OpToRel
<1> HIDE DEF OpToRel
<1>3. PICK n \in T : \A m \in T : ~(<<m, n>> \in OpToRel(<, Nat))
  BY <1>1, Zenon
<1>4. \A m \in T : ~(m < n)
  BY <1>2, <1>3, Zenon
<1>5. \A m \in T : n <= m
  BY <1>4
<1> QED
  BY <1>5

(* Of a list with TrackerCap entries or more, recent[-100:] keeps no fewer *)
(* than TrackerCap: the last entry it would drop has only kept ones after  *)
(* it.                                                                     *)
LEMMA CapKeepsEnough ==
  ASSUME NEW list \in SUBSET (Nat \X Nat), IsFiniteSet(list),
         Cardinality(list) >= TrackerCap
  PROVE  Cardinality(Capped(list)) >= TrackerCap
<1> DEFINE C == Capped(list)
           later == [s \in list |-> Cardinality(After(list, s[1]))]
           T == {later[s] : s \in list \ C}
<1>0. TrackerCap \in Nat
  BY RulesAssumption
<1>1. C \subseteq list /\ \A s \in list : s \in C <=> later[s] < TrackerCap
  BY DEF Capped, After
<1>2. \A n : IsFiniteSet(After(list, n)) /\ Cardinality(After(list, n)) \in Nat
  BY FS_Subset, FS_CardinalityType DEF After
<1>3. IsFiniteSet(C) /\ Cardinality(C) \in Nat /\ Cardinality(list) \in Nat
  BY <1>1, FS_Subset, FS_CardinalityType
<1> HIDE DEF C
<1> SUFFICES ASSUME Cardinality(C) < TrackerCap PROVE FALSE
  BY <1>0, <1>3 DEF C
<1>4. list \ C # {}
  BY <1>0, <1>1, <1>3
<1>5. T \in SUBSET Nat /\ T # {}
  BY <1>2, <1>4
<1>6. PICK n \in T : \A m \in T : n <= m
  BY <1>5, LeastNatural
<1>7. PICK s \in list \ C : later[s] = n
  BY <1>6
<1>8. ASSUME NEW q \in After(list, s[1]), q \notin C PROVE FALSE
  <2>1. q \in list /\ q[1] > s[1] /\ q[1] \in Nat /\ s[1] \in Nat
    BY <1>7 DEF After
  <2>2. After(list, q[1]) \in SUBSET After(list, s[1]) /\ q \notin After(list, q[1])
    BY <2>1 DEF After
  <2>3. Cardinality(After(list, q[1])) < Cardinality(After(list, s[1]))
    <3>1. /\ Cardinality(After(list, q[1])) <= Cardinality(After(list, s[1]))
          /\ Cardinality(After(list, s[1])) = Cardinality(After(list, q[1]))
             => After(list, s[1]) = After(list, q[1])
      BY <1>2, <2>2, FS_Subset
    <3> QED
      BY <1>2, <1>8, <2>2, <3>1
  <2>4. later[q] \in T /\ later[q] < n /\ n \in Nat
    BY <1>2, <1>7, <1>8, <2>1, <2>3
  <2> QED
    BY <1>6, <2>4, <1>5
<1>9. After(list, s[1]) \in SUBSET C
  BY <1>8
<1>10. Cardinality(After(list, s[1])) <= Cardinality(C)
  BY <1>3, <1>9, FS_Subset
<1>11. later[s] < TrackerCap
  BY <1>0, <1>2, <1>3, <1>7, <1>10
<1> QED
  BY <1>1, <1>7, <1>11

(* The same of the entries after the n-th screening. *)
LEMMA CapKeepsEnoughAfter ==
  ASSUME NEW list \in SUBSET (Nat \X Nat), IsFiniteSet(list), NEW n \in Nat,
         Cardinality(After(list, n)) >= TrackerCap
  PROVE  Cardinality(After(Capped(list), n)) >= TrackerCap
<1> DEFINE A == After(list, n)
<1>1. A \in SUBSET (Nat \X Nat) /\ IsFiniteSet(A)
  BY FS_Subset DEF After
<1>2. ASSUME NEW s \in A
      PROVE  {q \in A : q[1] > s[1]} = {q \in list : q[1] > s[1]}
  BY <1>1 DEF After
<1>3. Capped(A) = After(Capped(list), n)
  <2>1. ASSUME NEW s \in A PROVE s \in Capped(A) <=> s \in Capped(list)
    BY <1>2 DEF Capped, After
  <2>2. Capped(A) \subseteq A /\ After(Capped(list), n) \subseteq A
    BY DEF Capped, After
  <2>3. \A s \in A : s \in After(Capped(list), n) <=> s \in Capped(list)
    BY DEF After
  <2> QED
    BY <2>1, <2>2, <2>3
<1> QED
  BY <1>1, <1>3, CapKeepsEnough

(* recent[-100:] has at most TrackerCap entries: all of them but the first *)
(* come after the first.                                                   *)
LEMMA CapBounds ==
  ASSUME NEW list \in SUBSET (Nat \X Nat), IsFiniteSet(list),
         \A s, q \in list : s[1] = q[1] => s = q
  PROVE  IsFiniteSet(Capped(list)) /\ Cardinality(Capped(list)) <= TrackerCap
<1> DEFINE C == Capped(list)
           T == {s[1] : s \in C}
<1>0. TrackerCap \in Nat
  BY RulesAssumption
<1>1. C \in SUBSET list /\ \A s \in C : Cardinality(After(list, s[1])) < TrackerCap
  BY DEF Capped, After
<1>2. IsFiniteSet(C) /\ Cardinality(C) \in Nat
  BY <1>1, FS_Subset, FS_CardinalityType
<1>3. \A n : IsFiniteSet(After(list, n)) /\ Cardinality(After(list, n)) \in Nat
  BY FS_Subset, FS_CardinalityType DEF After
<1> HIDE DEF C
<1> SUFFICES ASSUME Cardinality(C) > TrackerCap PROVE FALSE
  BY <1>0, <1>2 DEF C
<1>4. C # {}
  BY <1>0, <1>2, FS_EmptySet
<1>5. T \in SUBSET Nat /\ T # {}
  BY <1>1, <1>4
<1>6. PICK n \in T : \A m \in T : n <= m
  BY <1>5, LeastNatural
<1>7. PICK s \in C : s[1] = n
  BY <1>6
<1>8. C \ {s} \in SUBSET After(list, n)
  <2> SUFFICES ASSUME NEW q \in C, q # s PROVE q \in After(list, n)
    OBVIOUS
  <2>1. q \in list /\ s \in list /\ q[1] \in Nat /\ n \in Nat /\ q[1] # s[1]
    BY <1>1, <1>5, <1>7
  <2>2. n <= q[1]
    BY <1>6
  <2> QED
    BY <1>7, <2>1, <2>2 DEF After
<1>9. Cardinality(C) - 1 <= Cardinality(After(list, n))
  <2>1. Cardinality(C \ {s}) = Cardinality(C) - 1
    BY <1>2, <1>7, FS_RemoveElement
  <2>2. Cardinality(C \ {s}) <= Cardinality(After(list, n))
    BY <1>3, <1>8, FS_Subset
  <2> QED
    BY <2>1, <2>2
<1> QED
  BY <1>0, <1>1, <1>2, <1>3, <1>7, <1>9

-----------------------------------------------------------------------------
(* Every step keeps the invariant.                                         *)

(* Nothing is screened at first. *)
LEMMA InitRulesInv == Init => RulesInv
<1> SUFFICES ASSUME Init PROVE RulesInv
  OBVIOUS
<1>1. RulesTypeOK
  BY DEF Init, RulesTypeOK, Amount, Velocity, Sanctions
<1>2. done = 0 /\ 1..done = {} /\ Len(log) = 0 /\ 1..Len(log) = {}
  BY DEF Init
<1>3. OnceInLog /\ ScreenedInOrder /\ OnlyOldForgotten /\ FlagsExact /\ AmountsFlagged
  BY <1>2 DEF OnceInLog, ScreenedInOrder, OnlyOldForgotten, FlagsExact, AmountsFlagged
<1>4. EntriesTrue
  BY DEF Init, EntriesTrue
<1>5. PassedByFault
  <2>1. Passed = {}
    BY <1>2 DEF Passed
  <2> QED
    BY <2>1, FS_EmptySet DEF PassedByFault, Init
<1>6. TrackerBounded
  <2>1. \A a \in Accounts : tracker[a] = {}
    BY DEF Init
  <2> QED
    BY <2>1, FS_EmptySet, RulesAssumption DEF TrackerBounded
<1> QED
  BY <1>1, <1>3, <1>4, <1>5, <1>6 DEF RulesInv

(* What the types say of a screened transaction. *)
LEMMA RowTypes ==
  ASSUME RulesTypeOK
  PROVE  /\ done \in Nat /\ Len(log) \in Nat /\ clock \in Nat
         /\ faults.restart \in Nat /\ faults.lookup \in Nat
         /\ \A i \in 1..done :
              /\ i \in 1..Len(log) /\ i \in Nat /\ log[i] \in Transactions
              /\ screenedAt[log[i]] \in Nat /\ inRun[log[i]] \in Nat
<1>1. /\ log \in Seq(Transactions) /\ done \in 0..Len(log) /\ clock \in Nat
      /\ faults \in [restart : Nat, lookup : Nat]
  BY DEF RulesTypeOK
<1>2. screenedAt \in [Transactions -> Nat] /\ inRun \in [Transactions -> Nat]
  BY DEF RulesTypeOK
<1>3. Len(log) \in Nat /\ done \in Nat /\ done <= Len(log)
  BY <1>1
<1>4. faults.restart \in Nat /\ faults.lookup \in Nat
  BY <1>1
<1>5. \A i \in 1..done : i \in 1..Len(log) /\ i \in Nat
  BY <1>3
<1>6. \A i \in 1..Len(log) : log[i] \in Transactions
  BY <1>1
<1> QED
  BY <1>1, <1>2, <1>3, <1>4, <1>5, <1>6

(* The rows stand while nothing is screened. *)
LEMMA SameRows ==
  ASSUME RulesInv, done' = done, screenedAt' = screenedAt, inRun' = inRun,
         flags' = flags, \A i \in 1..done : log'[i] = log[i],
         faults'.lookup = faults.lookup
  PROVE  FlagsExact' /\ AmountsFlagged' /\ PassedByFault'
<1>0. done \in Nat
  BY DEF RulesInv, RulesTypeOK
<1>1. ASSUME NEW i \in 1..done
      PROVE  Window(i)' = Window(i) /\ log'[i] = log[i]
  <2>1. \A j \in 1..i : j \in 1..done
    BY <1>0
  <2> QED
    BY <2>1 DEF Window
<1>2. FlagsExact'
  BY <1>1 DEF RulesInv, FlagsExact, Velocity
<1>3. AmountsFlagged'
  BY DEF RulesInv, AmountsFlagged, Amount
<1>4. Passed' = Passed
  BY DEF Passed, Sanctions
<1> QED
  BY <1>2, <1>3, <1>4 DEF RulesInv, PassedByFault

(* A new transaction comes last in the topic. *)
LEMMA HappenRulesInv ==
  ASSUME RulesInv, NEW x \in Transactions, Happen(x)
  PROVE  RulesInv'
<1> DEFINE n == Len(log)
<1>0. log \in Seq(Transactions) /\ n \in Nat /\ done \in 0..n
  BY DEF RulesInv, RulesTypeOK
<1>1. /\ log' \in Seq(Transactions) /\ Len(log') = n + 1
      /\ \A i \in 1..n : log'[i] = log[i] /\ i \in 1..(n + 1)
      /\ log'[n + 1] = x
  BY <1>0 DEF Happen
<1>2. \A i \in 1..done : i \in 1..n /\ log'[i] = log[i]
  BY <1>0, <1>1
<1>3. RulesTypeOK'
  BY <1>0, <1>1 DEF RulesInv, RulesTypeOK, Happen, Amount, Velocity, Sanctions
<1>4. OnceInLog'
  <2>1. \A i \in 1..n : log[i] # x /\ log[i] \in Transactions
    BY <1>0 DEF RulesInv, OnceInLog, Happen
  <2>2. \A i \in 1..(n + 1) : i \in 1..n \/ i = n + 1
    BY <1>0
  <2>3. \A i, j \in 1..(n + 1) : log'[i] = log'[j] => i = j
    BY <1>1, <2>1, <2>2 DEF RulesInv, OnceInLog
  <2>4. /\ happenedAt'[x] = clock
        /\ \A y \in Transactions \ {x} : happenedAt'[y] = happenedAt[y]
    BY DEF RulesInv, RulesTypeOK, Happen
  <2>5. \A i \in 1..(n + 1) : happenedAt'[log'[i]] # 0
    BY <1>1, <2>1, <2>2, <2>4 DEF RulesInv, RulesTypeOK, OnceInLog
  <2> QED
    BY <1>1, <2>3, <2>5 DEF OnceInLog
<1>5. ScreenedInOrder' /\ EntriesTrue'
  BY <1>2 DEF RulesInv, ScreenedInOrder, EntriesTrue, Happen
<1>6. OnlyOldForgotten'
  BY <1>2 DEF RulesInv, OnlyOldForgotten, Happen
<1>7. FlagsExact' /\ AmountsFlagged' /\ PassedByFault'
  BY <1>2, SameRows DEF Happen
<1>8. TrackerBounded'
  BY DEF RulesInv, TrackerBounded, Happen
<1> QED
  BY <1>3, <1>4, <1>5, <1>6, <1>7, <1>8 DEF RulesInv

(* A restart empties the tracker and begins a run with no screenings. *)
LEMMA RestartRulesInv ==
  ASSUME RulesInv, Restart
  PROVE  RulesInv'
<1>0. /\ faults.restart \in Nat /\ faults'.restart = faults.restart + 1
      /\ faults'.lookup = faults.lookup /\ faults' \in [restart : Nat, lookup : Nat]
  <2>1. faults \in [restart : Nat, lookup : Nat]
    BY DEF RulesInv, RulesTypeOK
  <2>2. faults' = [faults EXCEPT !.restart = @ + 1]
    BY DEF Restart
  <2> QED
    BY <2>1, <2>2
<1>1. /\ clock' = clock /\ log' = log /\ done' = done /\ happenedAt' = happenedAt
      /\ screenedAt' = screenedAt /\ inRun' = inRun /\ flags' = flags
  BY DEF Restart, historyVars
<1>2. tracker' = [a \in Accounts |-> {}]
  BY DEF Restart
<1>3. RulesTypeOK'
  BY <1>0, <1>1, <1>2 DEF RulesInv, RulesTypeOK, Amount, Velocity, Sanctions
<1>4. OnceInLog'
  BY <1>1 DEF RulesInv, OnceInLog
<1>5. \A i \in 1..done : inRun[log[i]] \in Nat /\ inRun[log[i]] <= faults.restart
  BY RowTypes DEF RulesInv, ScreenedInOrder
<1>6. ScreenedInOrder'
  BY <1>0, <1>1, <1>5 DEF RulesInv, ScreenedInOrder
<1>7. EntriesTrue'
  BY <1>2 DEF EntriesTrue
<1>8. OnlyOldForgotten'
  <2>1. \A i \in 1..done' : inRun'[log'[i]] # faults'.restart
    BY <1>0, <1>1, <1>5
  <2> QED
    BY <2>1 DEF OnlyOldForgotten
<1>9. FlagsExact' /\ AmountsFlagged' /\ PassedByFault'
  BY <1>0, <1>1, SameRows
<1>10. TrackerBounded'
  <2>1. \A a \in Accounts : tracker'[a] = {}
    BY <1>2
  <2> QED
    BY <2>1, FS_EmptySet, RulesAssumption DEF TrackerBounded
<1> QED
  BY <1>3, <1>4, <1>6, <1>7, <1>8, <1>9, <1>10 DEF RulesInv

(* As time passes, less is recent. *)
LEMMA TickRulesInv ==
  ASSUME RulesInv, Tick
  PROVE  RulesInv'
<1>0. clock \in Nat /\ clock' = clock + 1 /\ Hour \in Nat
  BY RulesAssumption DEF RulesInv, RulesTypeOK, Tick
<1>1. /\ log' = log /\ done' = done /\ happenedAt' = happenedAt /\ tracker' = tracker
      /\ screenedAt' = screenedAt /\ inRun' = inRun /\ flags' = flags /\ faults' = faults
  BY DEF Tick, historyVars
<1>2. RulesTypeOK'
  BY <1>0, <1>1 DEF RulesInv, RulesTypeOK, Amount, Velocity, Sanctions
<1>3. OnceInLog' /\ EntriesTrue' /\ TrackerBounded'
  BY <1>1 DEF RulesInv, OnceInLog, EntriesTrue, TrackerBounded
<1>4. \A i \in 1..done : screenedAt[log[i]] \in Nat
  BY RowTypes DEF RulesInv
<1>5. ScreenedInOrder'
  BY <1>0, <1>1, <1>4 DEF RulesInv, ScreenedInOrder
<1>6. OnlyOldForgotten'
  <2>1. \A i \in 1..done : screenedAt[log[i]] > clock' - Hour => screenedAt[log[i]] > clock - Hour
    BY <1>0, <1>4
  <2> QED
    BY <1>1, <2>1 DEF RulesInv, OnlyOldForgotten
<1>7. FlagsExact' /\ AmountsFlagged' /\ PassedByFault'
  BY <1>1, SameRows
<1> QED
  BY <1>2, <1>3, <1>5, <1>6, <1>7 DEF RulesInv

(* What an event carries is what is read from it. *)
LEMMA CarriedIsRead ==
  ASSUME NEW x \in Transactions
  PROVE  /\ "account" \in Carried(Payload[x].topic)
              => Fields[x].account = Payload[x].account /\ Fields[x].account # ""
         /\ {"amount", "currency"} \subseteq Carried(Payload[x].topic)
              => UsdEquiv(x) = Worth(x)
<1>1. \A f \in {"account", "amount", "currency"} :
        f \in Carried(Payload[x].topic) => Fields[x][f] = Payload[x][f]
  BY DEF Fields
<1>2. "account" \in Carried(Payload[x].topic) => Fields[x].account = Payload[x].account
  BY <1>1
<1>3. {"amount", "currency"} \subseteq Carried(Payload[x].topic)
      => Fields[x].amount = Payload[x].amount /\ Fields[x].currency = Payload[x].currency
  BY <1>1
<1>4. {"amount", "currency"} \subseteq Carried(Payload[x].topic) => UsdEquiv(x) = Worth(x)
  BY <1>3 DEF UsdEquiv, Worth
<1>5. Payload[x].account # ""
  BY PayloadAssumption
<1> QED
  BY <1>2, <1>4, <1>5

(* What a screening changes: the row of the next transaction in the topic  *)
(* and the list of its account.                                            *)
LEMMA ScreeningEffect ==
  ASSUME RulesInv, NEW found \in BOOLEAN, RunScreening(found)
  PROVE  LET n == done + 1
             x == log[n]
             a == Fields[x].account
         IN  /\ n \in 1..Len(log) /\ n \in Nat /\ x \in Transactions /\ a \in Accounts
             /\ done' = n /\ log' = log /\ clock' = clock /\ happenedAt' = happenedAt
             /\ \A i \in 1..done : log[i] # x /\ i \in 1..n
             /\ \A i \in 1..n : i \in 1..done \/ i = n
             /\ screenedAt'[x] = clock /\ inRun'[x] = faults.restart
             /\ \A y \in Transactions \ {x} :
                  /\ screenedAt'[y] = screenedAt[y] /\ inRun'[y] = inRun[y]
                  /\ flags'[y] = flags[y]
             /\ faults'.restart = faults.restart
             /\ tracker'[a] = Capped(Recent(a))
             /\ \A b \in Accounts \ {a} : tracker'[b] = tracker[b]
<1> DEFINE n == done + 1
           x == log[n]
           a == Fields[x].account
<1>0. /\ log \in Seq(Transactions) /\ done \in 0..Len(log) /\ Len(log) \in Nat
      /\ done < Len(log)
  BY DEF RulesInv, RulesTypeOK, RunScreening
<1>1. n \in 1..Len(log) /\ n \in Nat /\ x \in Transactions
  BY <1>0
<1>2. a \in Accounts
  BY <1>1 DEF Accounts
<1>3. \A i \in 1..done : i \in 1..n /\ i \in 1..Len(log) /\ i # n
  BY <1>0
<1>4. \A i \in 1..done : log[i] # x
  BY <1>1, <1>3 DEF RulesInv, OnceInLog
<1>5. \A i \in 1..n : i \in 1..done \/ i = n
  BY <1>0
<1>6. /\ done' = n /\ log' = log /\ clock' = clock /\ happenedAt' = happenedAt
      /\ screenedAt' = [screenedAt EXCEPT ![x] = clock]
      /\ inRun' = [inRun EXCEPT ![x] = faults.restart]
      /\ tracker' = [tracker EXCEPT ![a] = Capped(Recent(a))]
      /\ \E f : flags' = [flags EXCEPT ![x] = f]
  BY DEF RunScreening
<1>7. faults'.restart = faults.restart
  <2>1. faults \in [restart : Nat, lookup : Nat]
    BY DEF RulesInv, RulesTypeOK
  <2>2. faults' = faults \/ faults' = [faults EXCEPT !.lookup = @ + 1]
    BY DEF RunScreening, Lookup
  <2> QED
    BY <2>1, <2>2
<1>8. /\ screenedAt \in [Transactions -> Nat] /\ inRun \in [Transactions -> Nat]
      /\ tracker \in [Accounts -> SUBSET (Nat \X Nat)] /\ DOMAIN flags = Transactions
  BY DEF RulesInv, RulesTypeOK
<1> HIDE DEF n, x, a
<1>9. /\ screenedAt'[x] = clock /\ inRun'[x] = faults.restart
      /\ \A y \in Transactions \ {x} :
           /\ screenedAt'[y] = screenedAt[y] /\ inRun'[y] = inRun[y]
           /\ flags'[y] = flags[y]
      /\ tracker'[a] = Capped(Recent(a))
      /\ \A b \in Accounts \ {a} : tracker'[b] = tracker[b]
  BY <1>1, <1>2, <1>6, <1>8
<1> QED
  BY <1>1, <1>2, <1>3, <1>4, <1>5, <1>6, <1>7, <1>9 DEF n, x, a

(* The list that _check_velocity counts: entries of the account's          *)
(* screenings of this run, one for each, with the new one.                 *)
LEMMA RecentFacts ==
  ASSUME RulesInv, NEW a \in Accounts
  PROVE  /\ Recent(a) \in SUBSET (Nat \X Nat) /\ IsFiniteSet(Recent(a))
         /\ <<done + 1, clock>> \in Recent(a)
         /\ \A s \in Recent(a) :
              \/ s = <<done + 1, clock>>
              \/ s \in tracker[a] /\ s[2] > clock - Hour /\ s[1] \in 1..done
         /\ \A s \in Recent(a) : s[1] \in 1..(done + 1)
         /\ \A s, q \in Recent(a) : s[1] = q[1] => s = q
<1>0. done \in Nat /\ clock \in Nat /\ tracker[a] \in SUBSET (Nat \X Nat)
  BY DEF RulesInv, RulesTypeOK
<1>1. IsFiniteSet(Recent(a))
  <2>1. IsFiniteSet({s \in tracker[a] : s[2] > clock - Hour})
    BY FS_Subset DEF RulesInv, TrackerBounded
  <2> QED
    BY <2>1, FS_AddElement DEF Recent
<1>2. \A s \in tracker[a] : s[1] \in 1..done /\ screenedAt[log[s[1]]] = s[2]
  BY DEF RulesInv, EntriesTrue
<1>3. <<done + 1, clock>> \in Recent(a) /\ Recent(a) \in SUBSET (Nat \X Nat)
  BY <1>0 DEF Recent
<1>4. \A s \in Recent(a) :
        \/ s = <<done + 1, clock>>
        \/ s \in tracker[a] /\ s[2] > clock - Hour /\ s[1] \in 1..done
  BY <1>2 DEF Recent
<1>5. \A s \in Recent(a) : s[1] \in 1..(done + 1)
  BY <1>0, <1>4
<1>6. ASSUME NEW s \in Recent(a), NEW q \in Recent(a), s[1] = q[1] PROVE s = q
  <2>1. CASE s \in tracker[a] /\ q \in tracker[a]
    <3>1. s[2] = q[2]
      BY <1>2, <1>6, <2>1
    <3>2. s = <<s[1], s[2]>> /\ q = <<q[1], q[2]>>
      BY <1>0, <2>1
    <3> QED
      BY <1>6, <3>1, <3>2
  <2>2. CASE s = <<done + 1, clock>> \/ q = <<done + 1, clock>>
    BY <1>0, <1>2, <1>4, <1>6, <2>2
  <2> QED
    BY <1>4, <2>1, <2>2
<1> QED
  BY <1>1, <1>3, <1>4, <1>5, <1>6

(* A screening of the last hour is counted again, unless TrackerCap later  *)
(* ones are: those are of the last hour too.                               *)
LEMMA RecentOrPushed ==
  ASSUME RulesInv, NEW i \in 1..done, NEW a \in Accounts, Fields[log[i]].account = a,
         inRun[log[i]] = faults.restart, screenedAt[log[i]] > clock - Hour
  PROVE  \/ \E s \in Recent(a) : s[1] = i
         \/ Cardinality(After(Recent(a), i)) >= TrackerCap
<1>0. done \in Nat /\ clock \in Nat /\ Hour \in Nat /\ screenedAt[log[i]] \in Nat
  BY RulesAssumption, RowTypes DEF RulesInv
<1>1. \A s \in tracker[a] : s[1] \in 1..done /\ screenedAt[log[s[1]]] = s[2]
  BY DEF RulesInv, EntriesTrue
<1>2. CASE \E s \in tracker[a] : s[1] = i
  BY <1>1, <1>2 DEF Recent
<1>3. CASE Cardinality(After(tracker[a], i)) >= TrackerCap
  <2>1. ASSUME NEW s \in After(tracker[a], i) PROVE s \in Recent(a)
    <3>1. s \in tracker[a] /\ s[1] \in 1..done /\ i <= s[1] /\ s[2] = screenedAt[log[s[1]]]
      BY <1>0, <1>1 DEF After
    <3>2. screenedAt[log[i]] <= s[2] /\ s[2] \in Nat
      BY <3>1, RowTypes DEF RulesInv, ScreenedInOrder
    <3>3. s[2] > clock - Hour
      BY <1>0, <3>2
    <3> QED
      BY <3>1, <3>3 DEF Recent
  <2>2. After(tracker[a], i) \in SUBSET After(Recent(a), i)
    BY <2>1 DEF After
  <2>3. IsFiniteSet(After(Recent(a), i))
    BY RecentFacts, FS_Subset DEF After
  <2>4. /\ Cardinality(After(tracker[a], i)) <= Cardinality(After(Recent(a), i))
        /\ Cardinality(After(tracker[a], i)) \in Nat
        /\ Cardinality(After(Recent(a), i)) \in Nat
    BY <2>2, <2>3, FS_Subset, FS_CardinalityType
  <2> QED
    BY <1>3, <2>4, RulesAssumption
<1> QED
  BY <1>2, <1>3 DEF RulesInv, OnlyOldForgotten

(* A screening keeps the types and the order. *)
LEMMA ScreeningOrder ==
  ASSUME RulesInv, NEW found \in BOOLEAN, RunScreening(found)
  PROVE  RulesTypeOK' /\ OnceInLog' /\ ScreenedInOrder'
<1> DEFINE n == done + 1
           x == log[n]
           a == Fields[x].account
<1>1. /\ n \in 1..Len(log) /\ n \in Nat /\ x \in Transactions /\ a \in Accounts
      /\ done' = n /\ log' = log /\ clock' = clock /\ happenedAt' = happenedAt
      /\ \A i \in 1..done : log[i] # x /\ i \in 1..n
      /\ \A i \in 1..n : i \in 1..done \/ i = n
      /\ screenedAt'[x] = clock /\ inRun'[x] = faults.restart
      /\ \A y \in Transactions \ {x} : screenedAt'[y] = screenedAt[y] /\ inRun'[y] = inRun[y]
      /\ faults'.restart = faults.restart
  BY ScreeningEffect
<1>2. /\ screenedAt' = [screenedAt EXCEPT ![x] = clock]
      /\ inRun' = [inRun EXCEPT ![x] = faults.restart]
      /\ tracker' = [tracker EXCEPT ![a] = Capped(Recent(a))]
      /\ \E u, v, w : flags' = [flags EXCEPT ![x] = <<u, v, w>>]
  BY DEF RunScreening
<1>3. RulesTypeOK
  BY DEF RulesInv
<1>4. Capped(Recent(a)) \in SUBSET (Nat \X Nat)
  BY <1>1, RecentFacts DEF Capped
<1>5. faults' \in [restart : Nat, lookup : Nat]
  <2>1. faults \in [restart : Nat, lookup : Nat]
    BY <1>3 DEF RulesTypeOK
  <2>2. faults' = faults \/ faults' = [faults EXCEPT !.lookup = @ + 1]
    BY DEF RunScreening, Lookup
  <2> QED
    BY <2>1, <2>2
<1>6. clock \in Nat /\ faults.restart \in Nat
  BY <1>3, RowTypes
<1> HIDE DEF n, x, a
<1>7. flags' = [y \in Transactions |-> <<Amount(y)', Velocity(y)', Sanctions(y)'>>]
  <2>1. flags = [y \in Transactions |-> <<Amount(y), Velocity(y), Sanctions(y)>>]
    BY <1>3 DEF RulesTypeOK
  <2>2. DOMAIN flags' = Transactions /\ flags' = [y \in Transactions |-> flags'[y]]
    BY <1>1, <1>2, <2>1
  <2>3. ASSUME NEW y \in Transactions
        PROVE  flags'[y] = <<flags'[y][1], flags'[y][2], flags'[y][3]>>
    <3>1. CASE y = x
      BY <1>1, <1>2, <2>1, <3>1
    <3>2. CASE y # x
      <4>1. flags'[y] = flags[y]
        BY <1>2, <2>1, <3>2
      <4>2. flags[y] = <<flags[y][1], flags[y][2], flags[y][3]>>
        BY <2>1
      <4> QED
        BY <4>1, <4>2
    <3> QED
      BY <3>1, <3>2
  <2> QED
    BY <2>2, <2>3 DEF Amount, Velocity, Sanctions
<1>8. RulesTypeOK'
  <2>1. /\ screenedAt' \in [Transactions -> Nat] /\ inRun' \in [Transactions -> Nat]
        /\ tracker' \in [Accounts -> SUBSET (Nat \X Nat)]
    BY <1>1, <1>2, <1>3, <1>4, <1>6 DEF RulesTypeOK
  <2>2. /\ clock' \in Nat \ {0} /\ log' \in Seq(Transactions)
        /\ done' \in 0..Len(log') /\ happenedAt' \in [Transactions -> Nat]
    BY <1>1, <1>3 DEF RulesTypeOK
  <2> QED
    BY <1>5, <1>7, <2>1, <2>2 DEF RulesTypeOK
<1>9. OnceInLog'
  BY <1>1 DEF RulesInv, OnceInLog
<1>10. ASSUME NEW i \in 1..done
       PROVE  /\ screenedAt'[log[i]] = screenedAt[log[i]] /\ inRun'[log[i]] = inRun[log[i]]
              /\ screenedAt[log[i]] \in Nat /\ screenedAt[log[i]] <= clock
              /\ inRun[log[i]] <= faults.restart /\ i < n
  BY <1>1, <1>3, RowTypes DEF RulesInv, ScreenedInOrder, n
<1>11. screenedAt'[log[n]] = clock /\ inRun'[log[n]] = faults.restart
  BY <1>1 DEF x
<1>12. ScreenedInOrder'
  <2>1. ASSUME NEW i \in 1..n, NEW j \in 1..n, i <= j
        PROVE  screenedAt'[log[i]] <= screenedAt'[log[j]]
    <3>1. CASE i \in 1..done /\ j \in 1..done
      BY <1>10, <2>1, <3>1 DEF RulesInv, ScreenedInOrder
    <3>2. CASE i \in 1..done /\ j = n
      BY <1>10, <1>11, <3>2
    <3>3. CASE i = n /\ j = n
      BY <1>6, <1>11, <3>3
    <3>4. CASE i = n /\ j \in 1..done
      BY <1>1, <1>10, <2>1, <3>4
    <3> QED
      BY <1>1, <3>1, <3>2, <3>3, <3>4
  <2>2. \A i \in 1..n : screenedAt'[log[i]] <= clock /\ inRun'[log[i]] <= faults.restart
    BY <1>1, <1>6, <1>10, <1>11
  <2> QED
    BY <1>1, <2>1, <2>2 DEF ScreenedInOrder
<1> QED
  BY <1>8, <1>9, <1>12

(* A screening keeps the tracker: what it drops has TrackerCap entries     *)
(* after it.                                                               *)
LEMMA ScreeningTracker ==
  ASSUME RulesInv, NEW found \in BOOLEAN, RunScreening(found)
  PROVE  EntriesTrue' /\ OnlyOldForgotten' /\ TrackerBounded'
<1> DEFINE n == done + 1
           x == log[n]
           a == Fields[x].account
           R == Recent(a)
<1>1. /\ n \in 1..Len(log) /\ n \in Nat /\ x \in Transactions /\ a \in Accounts
      /\ done' = n /\ log' = log /\ clock' = clock
      /\ \A i \in 1..done : log[i] # x /\ i \in 1..n
      /\ \A i \in 1..n : i \in 1..done \/ i = n
      /\ screenedAt'[x] = clock /\ inRun'[x] = faults.restart
      /\ \A y \in Transactions \ {x} : screenedAt'[y] = screenedAt[y] /\ inRun'[y] = inRun[y]
      /\ faults'.restart = faults.restart
      /\ tracker'[a] = Capped(R) /\ \A b \in Accounts \ {a} : tracker'[b] = tracker[b]
  BY ScreeningEffect
<1>2. \A i \in 1..done : /\ log[i] \in Transactions /\ i \in Nat
                         /\ screenedAt'[log[i]] = screenedAt[log[i]]
                         /\ inRun'[log[i]] = inRun[log[i]]
  BY <1>1, RowTypes DEF RulesInv
<1>3. /\ R \in SUBSET (Nat \X Nat) /\ IsFiniteSet(R) /\ <<n, clock>> \in R
      /\ \A s \in R : s = <<n, clock>> \/ (s \in tracker[a] /\ s[1] \in 1..done)
      /\ \A s \in R : s[1] \in 1..n
      /\ \A s, q \in R : s[1] = q[1] => s = q
  BY <1>1, RecentFacts
<1>4. Capped(R) \in SUBSET R
  BY DEF Capped
<1>5. /\ screenedAt'[log[n]] = clock /\ inRun'[log[n]] = faults.restart
      /\ Fields[log[n]].account = a
  BY <1>1
<1> HIDE DEF n, x, a, R
<1>6. EntriesTrue'
  <2> DEFINE True(b, s) == /\ s[1] \in 1..n /\ Fields[log[s[1]]].account = b
                           /\ screenedAt'[log[s[1]]] = s[2]
                           /\ inRun'[log[s[1]]] = faults.restart
  <2>1. ASSUME NEW b \in Accounts, NEW s \in tracker[b] PROVE True(b, s)
    BY <1>1, <1>2 DEF RulesInv, EntriesTrue
  <2>2. True(a, <<n, clock>>)
    BY <1>1, <1>5
  <2>3. \A s \in Capped(R) : True(a, s)
    <3> HIDE DEF True
    <3> QED
      BY <1>1, <1>3, <1>4, <2>1, <2>2
  <2>4. \A b \in Accounts : \A s \in tracker'[b] : True(b, s)
    <3> HIDE DEF True
    <3> QED
      BY <1>1, <2>1, <2>3
  <2> QED
    BY <1>1, <2>4 DEF EntriesTrue
<1>7. OnlyOldForgotten'
  <2>1. \E s \in Capped(R) : s[1] = n
    <3>1. {q \in R : q[1] > n} = {}
      BY <1>1, <1>3
    <3>2. Cardinality({q \in R : q[1] > n}) < TrackerCap
      <4>1. TrackerCap \in Nat /\ TrackerCap > 0
        BY RulesAssumption
      <4>2. Cardinality({q \in R : q[1] > n}) = 0
        BY <3>1, FS_EmptySet
      <4> QED
        BY <4>1, <4>2
    <3>3. <<n, clock>> \in Capped(R)
      BY <1>3, <3>2 DEF Capped
    <3> QED
      BY <3>3
  <2>2. ASSUME NEW i \in 1..done, Fields[log[i]].account = a,
               inRun[log[i]] = faults.restart, screenedAt[log[i]] > clock - Hour
        PROVE  \/ \E s \in Capped(R) : s[1] = i
               \/ Cardinality(After(Capped(R), i)) >= TrackerCap
    <3>1. (\E s \in R : s[1] = i) \/ Cardinality(After(R, i)) >= TrackerCap
      BY <1>1, <2>2, RecentOrPushed DEF R
    <3>2. CASE \E s \in R : s[1] = i
      <4>1. PICK s \in R : s[1] = i
        BY <3>2
      <4>2. CASE s \in Capped(R)
        BY <4>1, <4>2
      <4>3. CASE s \notin Capped(R)
        <5>1. ~(Cardinality(After(R, i)) < TrackerCap)
          BY <4>1, <4>3 DEF Capped, After
        <5>2. IsFiniteSet(After(R, i))
          BY <1>3, FS_Subset DEF After
        <5>3. Cardinality(After(R, i)) >= TrackerCap
          BY <5>1, <5>2, FS_CardinalityType, RulesAssumption
        <5> QED
          BY <1>2, <1>3, <5>3, CapKeepsEnoughAfter
      <4> QED
        BY <4>2, <4>3
    <3>3. CASE Cardinality(After(R, i)) >= TrackerCap
      BY <1>2, <1>3, <3>3, CapKeepsEnoughAfter
    <3> QED
      BY <3>1, <3>2, <3>3
  <2>3. ASSUME NEW i \in 1..n, inRun'[log[i]] = faults.restart,
               screenedAt'[log[i]] > clock - Hour
        PROVE  \/ \E s \in tracker'[Fields[log[i]].account] : s[1] = i
               \/ Cardinality(After(tracker'[Fields[log[i]].account], i)) >= TrackerCap
    <3>1. CASE i = n
      BY <1>1, <1>5, <2>1, <3>1
    <3>2. CASE i \in 1..done /\ Fields[log[i]].account = a
      BY <1>1, <1>2, <2>2, <2>3, <3>2
    <3>3. CASE i \in 1..done /\ Fields[log[i]].account # a
      <4>1. tracker'[Fields[log[i]].account] = tracker[Fields[log[i]].account]
        BY <1>1, <1>2, <3>3 DEF Accounts
      <4> QED
        BY <1>2, <2>3, <3>3, <4>1 DEF RulesInv, OnlyOldForgotten
    <3> QED
      BY <1>1, <3>1, <3>2, <3>3
  <2> QED
    BY <1>1, <2>3 DEF OnlyOldForgotten, After
<1>8. TrackerBounded'
  <2>1. IsFiniteSet(Capped(R)) /\ Cardinality(Capped(R)) <= TrackerCap
    BY <1>3, CapBounds
  <2> QED
    BY <1>1, <2>1 DEF RulesInv, TrackerBounded
<1> QED
  BY <1>6, <1>7, <1>8

(* _check_velocity counts the window of the new screening: every entry is  *)
(* in it, and when entries are missing the limit is passed without them.   *)
LEMMA ScreeningVelocity ==
  ASSUME RulesInv, NEW found \in BOOLEAN, RunScreening(found), NEW n, n = done + 1
  PROVE  LET a == Fields[log[n]].account
         IN  (Cardinality(Recent(a)) > VelocityLimit)
             <=> (Cardinality(Window(n)') > VelocityLimit)
<1> DEFINE x == log[n]
           a == Fields[x].account
           R == Recent(a)
           W == {j \in 1..n : /\ Fields[log[j]].account = a
                              /\ inRun'[log[j]] = faults.restart
                              /\ screenedAt'[log[j]] > clock - Hour}
<1>1. /\ n \in 1..Len(log) /\ n \in Nat /\ x \in Transactions /\ a \in Accounts
      /\ done' = n /\ log' = log /\ clock' = clock
      /\ \A i \in 1..done : log[i] # x /\ i \in 1..n
      /\ \A i \in 1..n : i \in 1..done \/ i = n
      /\ screenedAt'[x] = clock /\ inRun'[x] = faults.restart
      /\ \A y \in Transactions \ {x} : screenedAt'[y] = screenedAt[y] /\ inRun'[y] = inRun[y]
  BY ScreeningEffect
<1>2. \A i \in 1..done : /\ log[i] \in Transactions /\ i \in Nat
                         /\ screenedAt'[log[i]] = screenedAt[log[i]]
                         /\ inRun'[log[i]] = inRun[log[i]]
  BY <1>1, RowTypes DEF RulesInv
<1>3. /\ R \in SUBSET (Nat \X Nat) /\ IsFiniteSet(R) /\ <<n, clock>> \in R
      /\ \A s \in R : \/ s = <<n, clock>>
                      \/ s \in tracker[a] /\ s[2] > clock - Hour /\ s[1] \in 1..done
      /\ \A s, q \in R : s[1] = q[1] => s = q
  BY <1>1, RecentFacts
<1>4. clock > clock - Hour /\ VelocityLimit \in Nat /\ TrackerCap \in Nat /\ VelocityLimit < TrackerCap
  BY RulesAssumption, RowTypes DEF RulesInv
<1>6. Window(n)' = W
  BY <1>1 DEF Window
<1>7. /\ screenedAt'[log[n]] = clock /\ inRun'[log[n]] = faults.restart
      /\ Fields[log[n]].account = a
  BY <1>1
<1>8. IsFiniteSet(W) /\ Cardinality(W) \in Nat /\ Cardinality(R) \in Nat
  <2>1. IsFiniteSet(1..n)
    BY <1>1, FS_Interval
  <2>2. W \in SUBSET (1..n)
    OBVIOUS
  <2> HIDE DEF W, R
  <2> QED
    BY <1>3, <2>1, <2>2, FS_Subset, FS_CardinalityType
<1> HIDE DEF x, a, R
<1>9. \A s \in R : s[1] \in W
  <2>1. <<n, clock>>[1] \in W
    BY <1>1, <1>4, <1>7
  <2>2. ASSUME NEW s \in tracker[a], s[2] > clock - Hour, s[1] \in 1..done PROVE s[1] \in W
    BY <1>1, <1>2, <2>2 DEF RulesInv, EntriesTrue
  <2> HIDE DEF W
  <2> QED
    BY <1>3, <2>1, <2>2
<1>10. Cardinality(R) <= Cardinality(W)
  <2> DEFINE f == [s \in R |-> s[1]]
  <2> HIDE DEF W
  <2>1. f \in Injection(R, W)
    BY <1>3, <1>9 DEF Injection, IsInjective
  <2> QED
    BY <1>8, <2>1, FS_Injection
<1>11. ASSUME Cardinality(R) <= VelocityLimit PROVE Cardinality(W) <= Cardinality(R)
  <2>1. ASSUME NEW j \in W PROVE \E s \in R : s[1] = j
    <3>1. CASE j = n
      BY <1>3, <3>1
    <3>2. CASE j \in 1..done
      <4>1. /\ Fields[log[j]].account = a /\ inRun[log[j]] = faults.restart
            /\ screenedAt[log[j]] > clock - Hour
        BY <1>2, <2>1, <3>2
      <4>2. (\E s \in R : s[1] = j) \/ Cardinality(After(R, j)) >= TrackerCap
        BY <1>1, <3>2, <4>1, RecentOrPushed DEF R
      <4>3. Cardinality(After(R, j)) <= Cardinality(R) /\ Cardinality(After(R, j)) \in Nat
        <5>1. After(R, j) \in SUBSET R
          BY DEF After
        <5> QED
          BY <1>3, <5>1, FS_Subset, FS_CardinalityType
      <4> QED
        BY <1>4, <1>8, <1>11, <4>2, <4>3
    <3> QED
      BY <1>1, <2>1, <3>1, <3>2
  <2> DEFINE g == [j \in W |-> CHOOSE s \in R : s[1] = j]
  <2>2. \A j \in W : g[j] \in R /\ g[j][1] = j
    <3> HIDE DEF W
    <3> QED
      BY <2>1
  <2>3. g \in Injection(W, R)
    <3> HIDE DEF W
    <3>1. g \in [W -> R]
      BY <2>2
    <3> HIDE DEF g
    <3> QED
      BY <2>2, <3>1 DEF Injection, IsInjective
  <2> QED
    BY <1>3, <2>3, FS_Injection
<1> HIDE DEF W
<1>12. (Cardinality(R) > VelocityLimit) <=> (Cardinality(W) > VelocityLimit)
  BY <1>4, <1>8, <1>10, <1>11
<1> QED
  BY <1>6, <1>12 DEF R, a, x

(* A screening keeps the velocity flags exact. *)
LEMMA ScreeningFlags ==
  ASSUME RulesInv, NEW found \in BOOLEAN, RunScreening(found)
  PROVE  FlagsExact'
<1>0. PICK n : n = done + 1
  OBVIOUS
<1> DEFINE x == log[n]
           a == Fields[x].account
<1>1. /\ n \in 1..Len(log) /\ n \in Nat /\ x \in Transactions
      /\ done' = n /\ log' = log
      /\ \A i \in 1..done : log[i] # x /\ i \in 1..n
      /\ \A i \in 1..n : i \in 1..done \/ i = n
      /\ \A y \in Transactions \ {x} :
           screenedAt'[y] = screenedAt[y] /\ inRun'[y] = inRun[y] /\ flags'[y] = flags[y]
  BY <1>0, ScreeningEffect
<1>2. \A i \in 1..done : /\ log[i] \in Transactions
                         /\ screenedAt'[log[i]] = screenedAt[log[i]]
                         /\ inRun'[log[i]] = inRun[log[i]]
                         /\ flags'[log[i]] = flags[log[i]]
  BY <1>1, RowTypes DEF RulesInv
<1>3. flags'[x][2] = CheckVelocity(a)
  <2>1. PICK u, w : flags' = [flags EXCEPT ![x] = <<u, CheckVelocity(a), w>>]
    BY <1>0 DEF RunScreening
  <2>2. DOMAIN flags = Transactions
    BY DEF RulesInv, RulesTypeOK
  <2> QED
    BY <1>1, <2>1, <2>2
<1>4. (flags'[x][2] # {}) <=> (Cardinality(Recent(a)) > VelocityLimit)
  BY <1>3 DEF CheckVelocity
<1>5. (Cardinality(Recent(a)) > VelocityLimit) <=> (Cardinality(Window(n)') > VelocityLimit)
  BY <1>0, ScreeningVelocity
<1>6. ASSUME NEW i \in 1..done PROVE Window(i)' = Window(i)
  <2>1. \A j \in 1..i : j \in 1..done
    BY RowTypes DEF RulesInv
  <2> QED
    BY <1>1, <1>2, <2>1 DEF Window
<1>7. \A i \in 1..done :
        (flags'[log'[i]][2] # {}) <=> (Cardinality(Window(i)') > VelocityLimit)
  BY <1>1, <1>2, <1>6 DEF RulesInv, FlagsExact, Velocity
<1>8. (flags'[log'[n]][2] # {}) <=> (Cardinality(Window(n)') > VelocityLimit)
  BY <1>1, <1>4, <1>5
<1>9. ASSUME NEW i \in 1..n
      PROVE  (flags'[log'[i]][2] # {}) <=> (Cardinality(Window(i)') > VelocityLimit)
  <2>1. CASE i \in 1..done
    BY <1>7, <2>1
  <2>2. CASE i = n
    BY <1>8, <2>2
  <2> QED
    BY <1>1, <2>1, <2>2
<1> QED
  BY <1>1, <1>9 DEF FlagsExact, Velocity

(* A screening keeps the amount flags complete. *)
LEMMA ScreeningAmounts ==
  ASSUME RulesInv, NEW found \in BOOLEAN, RunScreening(found)
  PROVE  AmountsFlagged'
<1>0. PICK n : n = done + 1
  OBVIOUS
<1> DEFINE x == log[n]
           Due(y) == CheckLargeTransaction(y) \cup CheckStructuring(y)
<1>1. /\ x \in Transactions /\ done' = n /\ log' = log
      /\ \A i \in 1..done : log[i] # x
      /\ \A i \in 1..n : i \in 1..done \/ i = n
      /\ \A y \in Transactions \ {x} : flags'[y] = flags[y]
  BY <1>0, ScreeningEffect
<1>2. \A i \in 1..done : flags'[log[i]] = flags[log[i]]
  BY <1>1, RowTypes DEF RulesInv
<1>3. flags'[x][1] = CheckLargeTransaction(x) \cup CheckStructuring(x)
  <2>1. PICK v, w : flags' = [flags EXCEPT ![x] =
                       <<CheckLargeTransaction(x) \cup CheckStructuring(x), v, w>>]
    BY <1>0 DEF RunScreening
  <2>2. DOMAIN flags = Transactions
    BY DEF RulesInv, RulesTypeOK
  <2> QED
    BY <1>1, <2>1, <2>2
<1>4. flags'[x][1] = Due(x)
  BY <1>3
<1>5. \A i \in 1..done : flags'[log[i]][1] = Due(log[i])
  BY <1>2 DEF RulesInv, AmountsFlagged, Amount
<1>6. \A i \in 1..n : flags'[log[i]][1] = Due(log[i])
  <2> HIDE DEF Due
  <2> QED
    BY <1>1, <1>4, <1>5
<1> QED
  BY <1>1, <1>6 DEF AmountsFlagged, Amount

(* A listed name is flagged unless its lookup failed. *)
LEMMA ScreeningPassed ==
  ASSUME RulesInv, NEW found \in BOOLEAN, RunScreening(found)
  PROVE  PassedByFault'
<1>0. PICK n : n = done + 1
  OBVIOUS
<1> DEFINE x == log[n]
           hits == SanctionsHits[Payload[x].account]
<1>1. /\ x \in Transactions /\ done' = n /\ log' = log /\ n \in Nat
      /\ \A i \in 1..done : log[i] # x
      /\ \A i \in 1..n : i \in 1..done \/ i = n
      /\ \A y \in Transactions \ {x} : flags'[y] = flags[y]
  BY <1>0, ScreeningEffect
<1>2. \A i \in 1..done : flags'[log[i]] = flags[log[i]]
  BY <1>1, RowTypes DEF RulesInv
<1>3. flags'[x][3] = CheckSanctions(x, found)
  <2>1. PICK u, v : flags' = [flags EXCEPT ![x] = <<u, v, CheckSanctions(x, found)>>]
    BY <1>0 DEF RunScreening
  <2>2. DOMAIN flags = Transactions
    BY DEF RulesInv, RulesTypeOK
  <2> QED
    BY <1>1, <2>1, <2>2
<1>4. /\ IsFiniteSet(Passed) /\ Cardinality(Passed) \in Nat
      /\ Cardinality(Passed) <= faults.lookup
  <2>1. IsFiniteSet(1..done)
    BY RowTypes, FS_Interval DEF RulesInv
  <2>2. Passed \in SUBSET (1..done)
    BY DEF Passed
  <2> QED
    BY <2>1, <2>2, FS_Subset, FS_CardinalityType DEF RulesInv, PassedByFault
<1>5. Passed' \subseteq Passed \cup {n}
  BY <1>1, <1>2 DEF Passed, Sanctions
<1>6. CASE found
  <2>1. n \notin Passed'
    <3>1. ASSUME hits > 0, "account" \in Carried(Payload[x].topic)
          PROVE  flags'[x][3] # {}
      <4>1. hits \in Nat /\ 1 \in 1..hits
        <5>1. hits \in Nat
          BY <1>1, PayloadAssumption
        <5> HIDE DEF hits
        <5> QED
          BY <3>1, <5>1
      <4>2. <<"SANCTIONS_HIT", 1>> \in {"SANCTIONS_HIT"} \X (1..hits)
        BY <4>1
      <4>3. flags'[x][3] = {"SANCTIONS_HIT"} \X (1..hits)
        BY <1>1, <1>3, <1>6, <3>1, CarriedIsRead DEF CheckSanctions
      <4> QED
        BY <4>2, <4>3
    <3> QED
      BY <1>1, <3>1 DEF Passed, Sanctions
  <2>2. Passed' \in SUBSET Passed
    BY <1>5, <2>1
  <2>3. Cardinality(Passed') <= Cardinality(Passed) /\ Cardinality(Passed') \in Nat
    BY <1>4, <2>2, FS_Subset, FS_CardinalityType
  <2>4. faults' = faults /\ faults.lookup \in Nat
    BY <1>6, RowTypes DEF RulesInv, RunScreening, Lookup
  <2> QED
    BY <1>4, <2>3, <2>4 DEF PassedByFault
<1>7. CASE ~found
  <2>1. IsFiniteSet(Passed \cup {n}) /\ Cardinality(Passed \cup {n}) <= Cardinality(Passed) + 1
    <3>1. /\ IsFiniteSet(Passed \cup {n})
          /\ Cardinality(Passed \cup {n})
             = IF n \in Passed THEN Cardinality(Passed) ELSE Cardinality(Passed) + 1
      BY <1>4, FS_AddElement
    <3>2. Cardinality(Passed) \in Nat
      BY <1>4
    <3> QED
      BY <3>1, <3>2
  <2>2. /\ Cardinality(Passed') <= Cardinality(Passed \cup {n})
        /\ Cardinality(Passed') \in Nat /\ Cardinality(Passed \cup {n}) \in Nat
    BY <1>5, <2>1, FS_Subset, FS_CardinalityType
  <2>3. faults'.lookup = faults.lookup + 1 /\ faults.lookup \in Nat
    <3>1. faults \in [restart : Nat, lookup : Nat]
      BY DEF RulesInv, RulesTypeOK
    <3>2. faults' = [faults EXCEPT !.lookup = @ + 1]
      BY <1>7 DEF RunScreening, Lookup
    <3> QED
      BY <3>1, <3>2
  <2> QED
    BY <1>4, <2>1, <2>2, <2>3 DEF PassedByFault
<1> QED
  BY <1>6, <1>7

(* Each step of the monitor keeps the invariant. *)
LEMMA NextRulesInv == RulesInv /\ [Next]_vars => RulesInv'
<1> SUFFICES ASSUME RulesInv, [Next]_vars PROVE RulesInv'
  OBVIOUS
<1>1. CASE \E x \in Transactions : Happen(x)
  BY <1>1, HappenRulesInv
<1>2. CASE \E found \in BOOLEAN : RunScreening(found)
  <2>1. PICK found \in BOOLEAN : RunScreening(found)
    BY <1>2
  <2>2. RulesTypeOK' /\ OnceInLog' /\ ScreenedInOrder'
    BY <2>1, ScreeningOrder
  <2>3. EntriesTrue' /\ OnlyOldForgotten' /\ TrackerBounded'
    BY <2>1, ScreeningTracker
  <2>4. FlagsExact' /\ AmountsFlagged' /\ PassedByFault'
    BY <2>1, ScreeningFlags, ScreeningAmounts, ScreeningPassed
  <2> QED
    BY <2>2, <2>3, <2>4 DEF RulesInv
<1>3. CASE Restart
  BY <1>3, RestartRulesInv
<1>4. CASE Tick
  BY <1>4, TickRulesInv
<1>5. CASE UNCHANGED vars
  <2>1. /\ clock' = clock /\ log' = log /\ done' = done /\ tracker' = tracker
        /\ happenedAt' = happenedAt /\ screenedAt' = screenedAt /\ inRun' = inRun
        /\ flags' = flags /\ faults' = faults
    BY <1>5 DEF vars, historyVars
  <2>2. RulesTypeOK' /\ OnceInLog' /\ ScreenedInOrder'
    BY <2>1 DEF RulesInv, RulesTypeOK, OnceInLog, ScreenedInOrder, Amount, Velocity, Sanctions
  <2>3. EntriesTrue' /\ OnlyOldForgotten' /\ TrackerBounded'
    BY <2>1 DEF RulesInv, EntriesTrue, OnlyOldForgotten, TrackerBounded, After
  <2>4. FlagsExact' /\ AmountsFlagged' /\ PassedByFault'
    BY <2>1, SameRows
  <2> QED
    BY <2>2, <2>3, <2>4 DEF RulesInv
<1> QED
  BY <1>1, <1>2, <1>3, <1>4, <1>5 DEF Next

-----------------------------------------------------------------------------
(* From places to transactions.                                            *)

(* A screened transaction has one place. *)
LEMMA PlaceOf ==
  ASSUME RulesInv, NEW i \in 1..done
  PROVE  Place(log[i]) = i
<1>1. \A j \in 1..done : log[j] = log[i] => j = i
  BY RowTypes DEF RulesInv, OnceInLog
<1> QED
  BY <1>1 DEF Place

(* As many transactions as places. *)
LEMMA PlacesCounted ==
  ASSUME RulesInv, NEW I \in SUBSET (1..done)
  PROVE  Cardinality({log[i] : i \in I}) = Cardinality(I)
<1> DEFINE X == {log[i] : i \in I}
           f == [i \in I |-> log[i]]
<1>1. IsFiniteSet(I)
  <2>1. IsFiniteSet(1..done)
    BY RowTypes, FS_Interval DEF RulesInv
  <2> QED
    BY <2>1, FS_Subset
<1>2. \A i, j \in I : log[i] = log[j] => i = j
  BY RowTypes DEF RulesInv, OnceInLog
<1>3. f \in Bijection(I, X)
  BY <1>2 DEF Bijection, Injection, Surjection, IsInjective
<1>4. ExistsBijection(I, X)
  BY <1>3 DEF ExistsBijection
<1> QED
  BY <1>1, <1>4, FS_Bijection

(* The invariant says of transactions what the runs check of them. *)
LEMMA InvImpliesVelocity == RulesInv => VelocityExact
<1> SUFFICES ASSUME RulesInv, NEW i \in 1..done
             PROVE  (Velocity(log[i]) # {}) <=> Cardinality(ScreenedWith(log[i])) > VelocityLimit
  BY DEF VelocityExact, Screened
<1>1. done \in Nat /\ i \in Nat
  BY RowTypes DEF RulesInv
<1>2. Window(i) \in SUBSET (1..done)
  BY <1>1 DEF Window
<1>3. ScreenedWith(log[i]) = {log[j] : j \in Window(i)}
  <2>1. \A j \in 1..done : j \in 1..i <=> j <= i
    BY <1>1
  <2>2. \A j \in 1..done : j \in Window(i) <=> log[j] \in ScreenedWith(log[i])
    BY <2>1, PlaceOf DEF Window, ScreenedWith, Screened
  <2>3. \A y \in ScreenedWith(log[i]) : \E j \in 1..done : y = log[j]
    BY DEF ScreenedWith, Screened
  <2> QED
    BY <1>2, <2>2, <2>3
<1>4. Cardinality(ScreenedWith(log[i])) = Cardinality(Window(i))
  BY <1>2, <1>3, PlacesCounted
<1> QED
  BY <1>4 DEF RulesInv, FlagsExact

(* And of the amounts and names. *)
LEMMA InvImpliesMisses == RulesInv => MissesExplained
<1> SUFFICES ASSUME RulesInv PROVE MissesExplained
  OBVIOUS
<1>1. ASSUME NEW i \in 1..done,
             {"amount", "currency"} \subseteq Carried(Payload[log[i]].topic)
      PROVE  "LARGE_TRANSACTION" \in Amount(log[i]) <=> Reportable(log[i])
  <2>1. log[i] \in Transactions
    BY RowTypes DEF RulesInv
  <2>2. UsdEquiv(log[i]) = Worth(log[i])
    BY <1>1, <2>1, CarriedIsRead
  <2>3. Amount(log[i]) = CheckLargeTransaction(log[i]) \cup CheckStructuring(log[i])
    BY DEF RulesInv, AmountsFlagged
  <2>4. "LARGE_TRANSACTION" \notin CheckStructuring(log[i])
    BY DEF CheckStructuring
  <2>5. "LARGE_TRANSACTION" \in CheckLargeTransaction(log[i])
        <=> UsdEquiv(log[i]) >= LargeTransaction * 100
    BY DEF CheckLargeTransaction
  <2> QED
    BY <2>2, <2>3, <2>4, <2>5 DEF Reportable
<1>2. {x \in Screened : /\ "account" \in Carried(Payload[x].topic)
                       /\ SanctionsHits[Payload[x].account] > 0
                       /\ Sanctions(x) = {}}
      = {log[i] : i \in Passed}
  BY DEF Screened, Passed
<1>3. Cardinality({log[i] : i \in Passed}) = Cardinality(Passed)
  BY PlacesCounted DEF Passed
<1> QED
  BY <1>1, <1>2, <1>3 DEF RulesInv, PassedByFault, MissesExplained, Screened

-----------------------------------------------------------------------------

(* The inductive invariant holds of every behaviour of the monitor. *)
THEOREM RulesInvariant == Spec => []RulesInv
<1>1. Init => RulesInv
  BY InitRulesInv
<1>2. RulesInv /\ [Next]_vars => RulesInv'
  BY NextRulesInv
<1> QED
  BY <1>1, <1>2, PTL DEF Spec

(* The velocity flag of every screened transaction says exactly whether    *)
(* the account had more than velocity_per_hour screenings in the hour that *)
(* ended with it, as far as the process has lived through that hour: the   *)
(* strict cutoff and the cap of recent[-100:] in _check_velocity never     *)
(* change the answer.                                                      *)
THEOREM VelocityFlagsExact == Spec => []VelocityExact
<1>1. RulesInv => VelocityExact
  BY InvImpliesVelocity
<1> QED
  BY <1>1, RulesInvariant, PTL

(* What handle_event reads from the events decides what is missed: the     *)
(* large-transaction flag is right for every event with an amount and a    *)
(* currency, and among the events that name an account the listed names    *)
(* that passed as clean are no more than the lookups that failed           *)
(* (_resolve_account_name swallows the error).                             *)
THEOREM MissesHaveCauses == Spec => []MissesExplained
<1>1. RulesInv => MissesExplained
  BY InvImpliesMisses
<1> QED
  BY <1>1, RulesInvariant, PTL

(* The tracker's memory is bounded: at most TrackerCap entries for each    *)
(* account, however many transactions are screened.                        *)
THEOREM TrackerMemoryBounded == Spec => []TrackerBounded
<1>1. RulesInv => TrackerBounded
  BY DEF RulesInv
<1> QED
  BY <1>1, RulesInvariant, PTL

=============================================================================

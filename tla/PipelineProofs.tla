--------------------------- MODULE PipelineProofs ---------------------------
(***************************************************************************)
(* What the pipeline promises, for any number of publishers, members,      *)
(* events and failures and any batch size: the outbox publishers publish   *)
(* at least once; the group screens a party too often only because of      *)
(* failed transactions and rebalances, and loses an event only by failed   *)
(* transactions and restarts, at most one for each; and without any of     *)
(* these a committed message has been handled.                             *)
(***************************************************************************)
EXTENDS EventPipeline, FiniteSetTheorems, TLAPS

(* What makes PublishedIsInLog inductive: the rows of a publisher's batch  *)
(* that Kafka has acknowledged are in the log, in whatever order the other *)
(* publishers append to it.                                                *)
PublisherInv ==
  /\ log \in Seq(Events \cup Malformed)
  /\ batch \in [Publishers -> Seq(Events)]
  /\ sent \in [Publishers -> Nat]
  /\ \A p \in Publishers :
       /\ sent[p] <= Len(batch[p])
       /\ \A i \in 1..sent[p] : batch[p][i] \in ToSet(log)
  /\ PublishedIsInLog

(* The log only grows, by the appended message. *)
LEMMA AppendGrows ==
  ASSUME NEW S, NEW q \in Seq(S), NEW x \in S
  PROVE  /\ Append(q, x) \in Seq(S)
         /\ ToSet(q) \subseteq ToSet(Append(q, x))
         /\ x \in ToSet(Append(q, x))
<1>1. /\ Append(q, x) \in Seq(S)
      /\ DOMAIN q = 1..Len(q)
      /\ DOMAIN Append(q, x) = 1..(Len(q) + 1)
      /\ \A i \in 1..Len(q) : Append(q, x)[i] = q[i]
      /\ Append(q, x)[Len(q) + 1] = x
      /\ Len(q) \in Nat
  OBVIOUS
<1>2. DOMAIN q \subseteq DOMAIN Append(q, x) /\ Len(q) + 1 \in DOMAIN Append(q, x)
  BY <1>1
<1> QED
  BY <1>1, <1>2 DEF ToSet

(* Nothing is published or fetched yet. *)
LEMMA InitPublisherInv == Init => PublisherInv
BY DEF Init, PublisherInv, PublishedIsInLog, ToSet

(* A step that leaves the publishers' state alone and at most appends a    *)
(* message to the log.                                                     *)
LEMMA LogGrowth ==
  ASSUME PublisherInv,
         log' \in Seq(Events \cup Malformed), ToSet(log) \subseteq ToSet(log'),
         UNCHANGED <<published, batch, sent>>
  PROVE  PublisherInv'
<1>1. \A p \in Publishers :
        /\ sent'[p] <= Len(batch'[p])
        /\ \A i \in 1..sent'[p] : batch'[p][i] \in ToSet(log')
  BY Zenon DEF PublisherInv
<1>2. PublishedIsInLog'
  BY DEF PublisherInv, PublishedIsInLog
<1> QED
  BY <1>1, <1>2 DEF PublisherInv

(* A publisher that gives its batch up keeps no obligation. *)
LEMMA BatchEnds ==
  ASSUME PublisherInv, NEW p \in Publishers, EndBatch(p),
         log' \in Seq(Events \cup Malformed), ToSet(log) \subseteq ToSet(log'),
         published' \subseteq ToSet(log')
  PROVE  PublisherInv'
<1>1. batch' \in [Publishers -> Seq(Events)] /\ sent' \in [Publishers -> Nat]
  BY DEF EndBatch, PublisherInv
<1>2. ASSUME NEW q \in Publishers
      PROVE  /\ sent'[q] <= Len(batch'[q])
             /\ \A i \in 1..sent'[q] : batch'[q][i] \in ToSet(log')
  <2>1. CASE q = p
    <3>1. batch'[q] = <<>> /\ sent'[q] = 0
      BY <2>1 DEF EndBatch, PublisherInv
    <3> QED
      BY <3>1
  <2>2. CASE q # p
    <3>1. batch'[q] = batch[q] /\ sent'[q] = sent[q]
      BY <2>2 DEF EndBatch, PublisherInv
    <3> QED
      BY <3>1 DEF PublisherInv
  <2> QED
    BY <2>1, <2>2
<1> QED
  BY <1>1, <1>2 DEF PublisherInv, PublishedIsInLog

(* Every step preserves it. *)
LEMMA NextPublisherInv == PublisherInv /\ [Next]_vars => PublisherInv'
<1> SUFFICES ASSUME PublisherInv, [Next]_vars
             PROVE  PublisherInv'
  OBVIOUS
<1> USE DEF tableVars, publisherVars, consumerVars, resultVars
<1>1. ASSUME NEW e \in Events, WriteEvent(e)
      PROVE  PublisherInv'
  BY <1>1, LogGrowth DEF WriteEvent, PublisherInv
<1>2. ASSUME NEW m \in Malformed, ForeignMessage(m)
      PROVE  PublisherInv'
  <2>1. log' = Append(log, m) /\ UNCHANGED <<published, batch, sent>>
    BY <1>2 DEF ForeignMessage
  <2>2. log \in Seq(Events \cup Malformed) /\ m \in Events \cup Malformed
    BY DEF PublisherInv
  <2>3. log' \in Seq(Events \cup Malformed) /\ ToSet(log) \subseteq ToSet(log')
    BY <2>1, <2>2, AppendGrows
  <2> QED
    BY <2>1, <2>3, LogGrowth
<1>3. ASSUME NEW p \in Publishers, FetchRows(p)
      PROVE  PublisherInv'
  <2>1. PICK n \in 1..BatchSize : \E q \in [1..n -> Unpublished] :
               batch' = [batch EXCEPT ![p] = q]
    BY <1>3 DEF FetchRows
  <2>2. PICK q \in [1..n -> Unpublished] : batch' = [batch EXCEPT ![p] = q]
    BY <2>1
  <2>3. q \in Seq(Events)
    <3>1. q \in [1..n -> Events] /\ n \in Nat
      BY PipelineAssumption DEF Unpublished
    <3> QED
      BY <3>1
  <2>4. sent[p] = 0
    BY <1>3 DEF FetchRows, PublisherInv
  <2>5. ASSUME NEW r \in Publishers
        PROVE  /\ sent[r] <= Len(batch'[r])
               /\ \A i \in 1..sent[r] : batch'[r][i] \in ToSet(log)
    <3>1. CASE r = p
      BY <2>2, <2>3, <2>4, <3>1 DEF PublisherInv
    <3>2. CASE r # p
      <4>1. batch'[r] = batch[r]
        BY <2>2, <3>2 DEF PublisherInv
      <4> QED
        BY <4>1 DEF PublisherInv
    <3> QED
      BY <3>1, <3>2
  <2>6. UNCHANGED <<published, sent, log>>
    BY <1>3 DEF FetchRows
  <2>7. batch' \in [Publishers -> Seq(Events)]
    BY <2>2, <2>3 DEF PublisherInv
  <2>8. PublishedIsInLog'
    BY <2>6 DEF PublisherInv, PublishedIsInLog
  <2> QED
    BY <2>5, <2>6, <2>7, <2>8 DEF PublisherInv
<1>4. ASSUME NEW p \in Publishers, Send(p)
      PROVE  PublisherInv'
  <2> DEFINE x == batch[p][sent[p] + 1]
  <2>1. x \in Events /\ sent[p] + 1 \in Nat /\ sent[p] + 1 <= Len(batch[p])
    BY <1>4 DEF Send, Sending, PublisherInv
  <2>2. /\ log' = Append(log, x)
        /\ sent' = [sent EXCEPT ![p] = sent[p] + 1]
        /\ UNCHANGED <<published, batch>>
    BY <1>4 DEF Send
  <2>3. log \in Seq(Events \cup Malformed) /\ x \in Events \cup Malformed
    BY <2>1 DEF PublisherInv
  <2>4. /\ log' \in Seq(Events \cup Malformed)
        /\ ToSet(log) \subseteq ToSet(log')
        /\ x \in ToSet(log')
    BY <2>2, <2>3, AppendGrows
  <2>5. ASSUME NEW r \in Publishers
        PROVE  /\ sent'[r] <= Len(batch[r])
               /\ \A i \in 1..sent'[r] : batch[r][i] \in ToSet(log')
    <3>1. CASE r = p
      <4>1. sent'[r] = sent[p] + 1
        BY <2>2, <3>1 DEF PublisherInv
      <4>2. \A i \in 1..(sent[p] + 1) : i \in 1..sent[p] \/ i = sent[p] + 1
        BY DEF PublisherInv
      <4>3. \A i \in 1..sent[p] : batch[p][i] \in ToSet(log')
        BY <2>4 DEF PublisherInv
      <4> QED
        BY <2>1, <2>4, <3>1, <4>1, <4>2, <4>3
    <3>2. CASE r # p
      <4>1. sent'[r] = sent[r]
        BY <2>2, <3>2 DEF PublisherInv
      <4> QED
        BY <2>4, <4>1 DEF PublisherInv
    <3> QED
      BY <3>1, <3>2
  <2>6. sent' \in [Publishers -> Nat]
    BY <2>1, <2>2 DEF PublisherInv
  <2>7. PublishedIsInLog'
    BY <2>2, <2>4 DEF PublisherInv, PublishedIsInLog
  <2> QED
    BY <2>2, <2>4, <2>5, <2>6, <2>7 DEF PublisherInv
<1>5. ASSUME NEW p \in Publishers, MarkPublished(p)
      PROVE  PublisherInv'
  <2>1. sent[p] = Len(batch[p]) /\ batch[p] \in Seq(Events)
    BY <1>5 DEF MarkPublished, Sending, PublisherInv
  <2>2. ToSet(batch[p]) \subseteq ToSet(log)
    <3>1. DOMAIN batch[p] = 1..sent[p]
      BY <2>1
    <3>2. \A i \in DOMAIN batch[p] : batch[p][i] \in ToSet(log)
      BY <3>1 DEF PublisherInv
    <3> QED
      BY <3>2 DEF ToSet
  <2>3. /\ log' = log
        /\ published' = published \cup ToSet(batch[p])
        /\ EndBatch(p)
    BY <1>5 DEF MarkPublished
  <2>4. published' \subseteq ToSet(log')
    BY <2>2, <2>3 DEF PublisherInv, PublishedIsInLog
  <2>5. log' \in Seq(Events \cup Malformed) /\ ToSet(log) \subseteq ToSet(log')
    BY <2>3 DEF PublisherInv
  <2> QED
    BY <2>3, <2>4, <2>5, BatchEnds
<1>6. ASSUME NEW p \in Publishers, AbandonBatch(p)
      PROVE  PublisherInv'
  <2>1. published' = published /\ EndBatch(p)
    BY <1>6 DEF AbandonBatch
  <2>2. log' \in Seq(Events \cup Malformed) /\ ToSet(log) \subseteq ToSet(log')
    <3>1. CASE log' = log
      BY <3>1 DEF PublisherInv
    <3>2. CASE Sending(p) /\ log' = Append(log, batch[p][sent[p] + 1])
      <4>1. batch[p][sent[p] + 1] \in Events \cup Malformed
        BY <3>2 DEF Sending, PublisherInv
      <4>2. log \in Seq(Events \cup Malformed)
        BY DEF PublisherInv
      <4> QED
        BY <3>2, <4>1, <4>2, AppendGrows
    <3> QED
      BY <1>6, <3>1, <3>2 DEF AbandonBatch
  <2>3. published' \subseteq ToSet(log')
    BY <2>1, <2>2 DEF PublisherInv, PublishedIsInLog
  <2> QED
    BY <2>1, <2>2, <2>3, BatchEnds
<1>7. ASSUME NEW c \in Consumers, ConsumerStep(c) \/ ConsumerFails(c) \/ Rebalance(c)
      PROVE  PublisherInv'
  <2>1. UNCHANGED <<published, batch, sent, log>>
    BY <1>7 DEF ConsumerStep, ConsumerFails, Rebalance, Poll, CheckDuplicate,
       MarkEventProcessed, WriteComplianceEvent, AnnounceResult, CommitOffset, Backoff,
       SendToDlq, PollErrors, MarkFails, WriteFails, AnnounceFails, CommitFails,
       DlqCommitFails, ConsumerCrash
  <2> QED
    BY <2>1, LogGrowth DEF PublisherInv
<1>8. CASE UNCHANGED vars
  <2>1. UNCHANGED <<published, batch, sent, log>>
    BY <1>8 DEF vars
  <2> QED
    BY <2>1, LogGrowth DEF PublisherInv
<1> QED
  BY <1>1, <1>2, <1>3, <1>4, <1>5, <1>6, <1>7, <1>8 DEF Next, PublisherStep

(* An outbox row marked published is in the topic, whichever publishers    *)
(* share the table, crash or time out: no event is lost between the two.   *)
THEOREM AtLeastOncePublication == Spec => []PublishedIsInLog
<1>1. PublisherInv => PublishedIsInLog
  BY DEF PublisherInv
<1> QED
  BY <1>1, InitPublisherInv, NextPublisherInv, PTL DEF Spec

-----------------------------------------------------------------------------
(* The members of the consumer group.                                      *)

(* Where a member has a message in hand. *)
Working == {"dedupe", "mark", "screen", "announce", "commit", "failed"}

(* The message in hand is the one at the member's position; only an        *)
(* unreadable one is no event; the parties are screened from the first.    *)
MemberOK(c) ==
  /\ position[c] <= Len(log)
  /\ pc[c] \in Working => position[c] >= 1 /\ message[c] = log[position[c]]
  /\ pc[c] \in Working \ {"failed"} => message[c] \in Events
  /\ pc[c] \in {"dedupe", "mark"} => party[c] = 1
  /\ pc[c] \in {"screen", "announce"} => party[c] \in DOMAIN Parties[message[c]]

Busy == {c \in Consumers : pc[c] # "poll"}

(* The shape of what the members keep between them. *)
GroupTypes ==
  /\ owner \in Consumers /\ offset \in Nat /\ offset <= Len(log)
  /\ processed \subseteq Events
  /\ screened = [e \in Events |-> screened[e]]
  /\ \A e \in Events : screened[e] \in [DOMAIN Parties[e] -> Nat]
  /\ faults \in [publisher : Nat, consumer : Nat, crash : Nat, rebalance : Nat]

MemberTypes ==
  /\ position \in [Consumers -> Nat] /\ party \in [Consumers -> Nat]
  /\ pc \in [Consumers -> Working \cup {"poll", "stopped"}]
  /\ message \in [Consumers -> Events \cup Malformed \cup {Nothing}]

MemberInv ==
  /\ log \in Seq(Events \cup Malformed)
  /\ GroupTypes /\ MemberTypes
  /\ \A c \in Consumers : MemberOK(c)
  /\ IsFiniteSet(Busy)

LEMMA PartiesTypes ==
  ASSUME NEW e \in Events
  PROVE  /\ DOMAIN Parties[e] = 1..Len(Parties[e]) /\ Len(Parties[e]) \in Nat
         /\ 1 \in DOMAIN Parties[e]
<1>1. Parties[e] \in Seq(STRING) /\ Parties[e] # <<>>
  BY PipelineAssumption
<1> QED
  BY <1>1

LEMMA InitMembers == Init => MemberInv
<1> SUFFICES ASSUME Init PROVE MemberInv
  OBVIOUS
<1>1. log \in Seq(Events \cup Malformed) /\ Len(log) = 0
  BY DEF Init
<1>2. GroupTypes
  BY <1>1 DEF Init, GroupTypes, None
<1>3. MemberTypes
  BY DEF Init, MemberTypes
<1>4. \A c \in Consumers : MemberOK(c)
  BY <1>1 DEF Init, MemberOK, Working
<1>5. Busy = {}
  BY DEF Init, Busy
<1> QED
  BY <1>1, <1>2, <1>3, <1>4, <1>5, FS_EmptySet DEF MemberInv

(* A member whose state stays keeps its invariant. *)
LEMMA MemberKept ==
  ASSUME NEW d \in Consumers, MemberOK(d), UNCHANGED log,
         pc'[d] = pc[d], position'[d] = position[d],
         message'[d] = message[d], party'[d] = party[d]
  PROVE  MemberOK(d)'
BY DEF MemberOK

(* A step of one member. *)
LEMMA MemberStep ==
  ASSUME MemberInv, NEW c \in Consumers, UNCHANGED log, GroupTypes', MemberTypes',
         \A d \in Consumers \ {c} :
           /\ pc'[d] = pc[d] /\ position'[d] = position[d]
           /\ message'[d] = message[d] /\ party'[d] = party[d],
         MemberOK(c)'
  PROVE  MemberInv'
<1>1. \A d \in Consumers : MemberOK(d)'
  BY MemberKept DEF MemberInv
<1>2. IsFiniteSet(Busy')
  <2>1. Busy' \subseteq Busy \cup {c}
    BY DEF Busy
  <2>2. IsFiniteSet(Busy \cup {c})
    BY FS_AddElement DEF MemberInv
  <2> QED
    BY <2>1, <2>2, FS_Subset
<1> QED
  BY <1>1, <1>2 DEF MemberInv

(* A step that leaves the members alone and at most appends to the log. *)
LEMMA MembersKept ==
  ASSUME MemberInv, UNCHANGED <<offset, owner, position, pc, message, party, processed, screened>>,
         faults' \in [publisher : Nat, consumer : Nat, crash : Nat, rebalance : Nat],
         log' = log \/ \E x \in Events \cup Malformed : log' = Append(log, x)
  PROVE  MemberInv'
<1>1. /\ log' \in Seq(Events \cup Malformed) /\ Len(log) <= Len(log')
      /\ Len(log) \in Nat /\ Len(log') \in Nat
      /\ \A i \in 1..Len(log) : log'[i] = log[i]
  <2>0. log \in Seq(Events \cup Malformed) /\ Len(log) \in Nat
    BY DEF MemberInv
  <2>1. CASE log' = log
    BY <2>0, <2>1
  <2>2. ASSUME NEW x \in Events \cup Malformed, log' = Append(log, x)
        PROVE  /\ log' \in Seq(Events \cup Malformed) /\ Len(log') = Len(log) + 1
               /\ \A i \in 1..Len(log) : log'[i] = log[i]
    BY <2>0, <2>2
  <2>3. CASE \E x \in Events \cup Malformed : log' = Append(log, x)
    BY <2>0, <2>2, <2>3
  <2> QED
    BY <2>1, <2>3
<1>2. GroupTypes'
  BY <1>1 DEF MemberInv, GroupTypes
<1>3. MemberTypes'
  BY DEF MemberInv, MemberTypes
<1>4. ASSUME NEW d \in Consumers PROVE MemberOK(d)'
  <2>1. MemberOK(d) /\ position[d] \in Nat
    BY DEF MemberInv, MemberTypes
  <2>2. pc[d] \in Working => log'[position[d]] = log[position[d]]
    BY <1>1, <2>1 DEF MemberOK
  <2> QED
    BY <1>1, <2>1, <2>2 DEF MemberOK
<1>5. Busy' = Busy
  BY DEF Busy
<1> QED
  BY <1>1, <1>2, <1>3, <1>4, <1>5 DEF MemberInv

(* What a publisher, a service or a stranger does. *)
OutsideStep ==
  \/ \E e \in Events : WriteEvent(e)
  \/ \E m \in Malformed : ForeignMessage(m)
  \/ \E p \in Publishers : PublisherStep(p) \/ AbandonBatch(p)
  \/ UNCHANGED vars

LEMMA OutsideFacts ==
  ASSUME PublisherInv, MemberInv, OutsideStep
  PROVE  /\ UNCHANGED <<offset, owner, position, pc, message, party, processed, screened>>
         /\ faults' \in [publisher : Nat, consumer : Nat, crash : Nat, rebalance : Nat]
         /\ faults'.consumer = faults.consumer /\ faults'.crash = faults.crash
         /\ faults'.rebalance = faults.rebalance
         /\ log' = log \/ \E x \in Events \cup Malformed : log' = Append(log, x)
<1>0. faults \in [publisher : Nat, consumer : Nat, crash : Nat, rebalance : Nat]
  BY DEF MemberInv, GroupTypes
<1> USE DEF consumerVars, workVars, resultVars
<1>1. CASE UNCHANGED vars \/ \E e \in Events : WriteEvent(e)
  BY <1>0, <1>1 DEF vars, WriteEvent
<1>2. CASE \E m \in Malformed : ForeignMessage(m)
  BY <1>0, <1>2 DEF ForeignMessage
<1>3. ASSUME NEW p \in Publishers, FetchRows(p) \/ MarkPublished(p)
      PROVE  UNCHANGED <<consumerVars, resultVars, faults, log>>
  BY <1>3 DEF FetchRows, MarkPublished
<1>4. ASSUME NEW p \in Publishers, Sending(p)
      PROVE  batch[p][sent[p] + 1] \in Events
  <2>1. batch[p] \in Seq(Events) /\ sent[p] \in Nat /\ sent[p] < Len(batch[p])
    BY <1>4 DEF PublisherInv, Sending
  <2> QED
    BY <2>1
<1>5. ASSUME NEW p \in Publishers, Send(p)
      PROVE  /\ UNCHANGED <<consumerVars, resultVars, faults>>
             /\ \E x \in Events : log' = Append(log, x)
  BY <1>4, <1>5 DEF Send
<1>6. ASSUME NEW p \in Publishers, AbandonBatch(p)
      PROVE  /\ UNCHANGED <<consumerVars, resultVars>>
             /\ faults' = [faults EXCEPT !.publisher = @ + 1]
             /\ log' = log \/ \E x \in Events : log' = Append(log, x)
  BY <1>4, <1>6 DEF AbandonBatch
<1> QED
  BY <1>0, <1>1, <1>2, <1>3, <1>5, <1>6 DEF OutsideStep, PublisherStep

LEMMA OutsideKeepsMembers ==
  ASSUME PublisherInv, MemberInv, OutsideStep PROVE MemberInv'
BY OutsideFacts, MembersKept

(* A step of the handler that only moves on, and may mark the event, write *)
(* its rows or count a failure.                                            *)
LEMMA MoveOn ==
  ASSUME MemberInv, NEW c \in Consumers, NEW l \in Working \cup {"poll", "stopped"},
         Goto(c, l), GroupTypes', UNCHANGED <<log, position, message, party>>,
         l \in Working => pc[c] \in Working,
         l \in Working \ {"failed"} => pc[c] \in Working \ {"failed"},
         l \in {"dedupe", "mark"} => pc[c] \in {"dedupe", "mark"},
         l \in {"screen", "announce"} =>
           pc[c] \in {"dedupe", "mark", "screen", "announce"}
  PROVE  MemberInv'
<1>1. MemberTypes /\ MemberOK(c)
  BY DEF MemberInv
<1>2. MemberTypes'
  BY <1>1 DEF MemberTypes, Goto
<1>3. pc'[c] = l /\ \A d \in Consumers \ {c} : pc'[d] = pc[d]
  BY <1>1 DEF MemberTypes, Goto
<1>4. l \in {"screen", "announce"} => party[c] \in DOMAIN Parties[message[c]]
  BY <1>1, PartiesTypes DEF MemberOK, Working
<1>5. MemberOK(c)'
  BY <1>1, <1>3, <1>4 DEF MemberOK
<1> QED
  BY <1>2, <1>3, <1>5, MemberStep

(* A member that drops its message and has not skipped any. *)
LEMMA LetGo ==
  ASSUME MemberInv, NEW c \in Consumers, NEW l \in {"poll", "stopped"},
         Goto(c, l), message' = [message EXCEPT ![c] = Nothing],
         GroupTypes', UNCHANGED log, party' \in [Consumers -> Nat],
         position' = [position EXCEPT ![c] = offset] \/ position' = position,
         \A d \in Consumers \ {c} : party'[d] = party[d]
  PROVE  MemberInv'
<1>1. MemberTypes /\ GroupTypes /\ MemberOK(c)
  BY DEF MemberInv
<1>a. /\ position' \in [Consumers -> Nat] /\ position'[c] <= Len(log)
      /\ \A d \in Consumers \ {c} : position'[d] = position[d]
  <2>1. /\ offset \in Nat /\ offset <= Len(log) /\ position[c] <= Len(log)
        /\ position \in [Consumers -> Nat]
    BY <1>1 DEF MemberTypes, GroupTypes, MemberOK
  <2>2. CASE position' = [position EXCEPT ![c] = offset]
    BY <2>1, <2>2
  <2>3. CASE position' = position
    BY <2>1, <2>3
  <2> QED
    BY <2>2, <2>3
<1>b. /\ pc'[c] = l /\ \A d \in Consumers \ {c} : pc'[d] = pc[d] /\ message'[d] = message[d]
  BY <1>1 DEF MemberTypes, Goto
<1>2. MemberTypes'
  BY <1>1, <1>a DEF MemberTypes, Goto
<1>3. /\ pc'[c] = l /\ position'[c] <= Len(log)
      /\ \A d \in Consumers \ {c} : /\ pc'[d] = pc[d] /\ message'[d] = message[d]
                                    /\ position'[d] = position[d]
  BY <1>a, <1>b
<1>4. MemberOK(c)'
  BY <1>3 DEF MemberOK, Working
<1> QED
  BY <1>2, <1>3, <1>4, MemberStep

LEMMA FaultTypes ==
  ASSUME MemberInv, Fault
  PROVE  /\ faults' \in [publisher : Nat, consumer : Nat, crash : Nat, rebalance : Nat]
         /\ faults'.consumer = faults.consumer + 1
         /\ faults'.crash = faults.crash /\ faults'.rebalance = faults.rebalance
BY DEF MemberInv, GroupTypes, Fault

(* A step that changes none of the group's rows but counts a failure. *)
LEMMA GroupKept ==
  ASSUME MemberInv, UNCHANGED <<log, processed, screened>>,
         owner' \in Consumers, offset' \in Nat, offset' <= Len(log),
         faults' \in [publisher : Nat, consumer : Nat, crash : Nat, rebalance : Nat]
  PROVE  GroupTypes'
BY DEF MemberInv, GroupTypes

LEMMA PollKeepsMembers ==
  ASSUME MemberInv, NEW c \in Consumers, Poll(c) PROVE MemberInv'
<1> DEFINE i == position[c] + 1
<1>0. MemberTypes /\ GroupTypes /\ MemberOK(c) /\ log \in Seq(Events \cup Malformed)
  BY DEF MemberInv
<1>1. /\ i \in 1..Len(log) /\ i \in Nat /\ log[i] \in Events \cup Malformed
      /\ position' = [position EXCEPT ![c] = i]
      /\ message' = [message EXCEPT ![c] = log[i]]
      /\ party' = [party EXCEPT ![c] = 1]
      /\ pc' = [pc EXCEPT ![c] = IF log[i] \in Malformed THEN "failed" ELSE "dedupe"]
      /\ UNCHANGED <<log, processed, screened, owner, offset, faults>>
  BY <1>0 DEF Poll, TakeNext, Goto, MemberTypes, resultVars
<1> HIDE DEF i
<1>2. GroupTypes'
  BY <1>0, <1>1 DEF GroupTypes
<1>3. MemberTypes'
  BY <1>0, <1>1 DEF MemberTypes, Working
<1>4. /\ position'[c] = i /\ message'[c] = log[i] /\ party'[c] = 1
      /\ pc'[c] = IF log[i] \in Malformed THEN "failed" ELSE "dedupe"
      /\ \A d \in Consumers \ {c} :
           /\ pc'[d] = pc[d] /\ position'[d] = position[d]
           /\ message'[d] = message[d] /\ party'[d] = party[d]
  BY <1>0, <1>1 DEF MemberTypes
<1>5. MemberOK(c)'
  BY <1>1, <1>4 DEF MemberOK
<1> QED
  BY <1>1, <1>2, <1>3, <1>4, <1>5, MemberStep

LEMMA QuietKeepsMembers ==
  ASSUME MemberInv, NEW c \in Consumers,
         PollErrors(c) \/ CheckDuplicate(c) \/ MarkFails(c) \/ WriteFails(c) \/ CommitFails(c)
  PROVE  MemberInv'
<1>0. GroupTypes
  BY DEF MemberInv
<1>1. /\ UNCHANGED <<log, position, message, party, processed, screened, owner, offset>>
      /\ faults' = faults \/ Fault
  BY DEF PollErrors, CheckDuplicate, MarkFails, WriteFails, CommitFails, Fenced, workVars,
     resultVars
<1>2. GroupTypes'
  BY <1>0, <1>1, FaultTypes, GroupKept DEF GroupTypes
<1> USE DEF Working
<1>3. CASE PollErrors(c)
  BY <1>1, <1>2, <1>3, MoveOn DEF PollErrors
<1>4. CASE CheckDuplicate(c)
  BY <1>1, <1>2, <1>4, MoveOn DEF CheckDuplicate
<1>5. CASE MarkFails(c)
  BY <1>1, <1>2, <1>5, MoveOn DEF MarkFails
<1>6. CASE WriteFails(c)
  BY <1>1, <1>2, <1>6, MoveOn DEF WriteFails
<1>7. CASE CommitFails(c)
  BY <1>1, <1>2, <1>7, MoveOn DEF CommitFails
<1> QED
  BY <1>3, <1>4, <1>5, <1>6, <1>7

LEMMA MarkKeepsMembers ==
  ASSUME MemberInv, NEW c \in Consumers, MarkEventProcessed(c) PROVE MemberInv'
<1>1. /\ UNCHANGED <<log, position, message, party, screened, owner, offset, faults>>
      /\ pc[c] = "mark" /\ Goto(c, "screen") /\ processed' = processed \cup {message[c]}
  BY DEF MarkEventProcessed, workVars
<1>2. message[c] \in Events
  BY <1>1 DEF MemberInv, MemberOK, Working
<1>3. GroupTypes'
  BY <1>1, <1>2 DEF MemberInv, GroupTypes
<1> QED
  BY <1>1, <1>3, MoveOn DEF Working

(* What the result row of a screening adds. *)
LEMMA ScreenedOnceMore ==
  ASSUME MemberInv, NEW c \in Consumers, WriteComplianceEvent(c)
  PROVE  /\ message[c] \in Events /\ party[c] \in DOMAIN Parties[message[c]]
         /\ screened' = [e \in Events |-> screened'[e]]
         /\ \A e \in Events : screened'[e] \in [DOMAIN Parties[e] -> Nat]
         /\ \A e \in Events : \A i \in DOMAIN Parties[e] :
              screened'[e][i] = IF e = message[c] /\ i = party[c] THEN screened[e][i] + 1
                                ELSE screened[e][i]
<1> DEFINE m == message[c]  i == party[c]
<1>1. pc[c] = "screen" /\ screened' = [screened EXCEPT ![m][i] = @ + 1]
  BY DEF WriteComplianceEvent
<1>2. m \in Events /\ i \in DOMAIN Parties[m]
  BY <1>1 DEF MemberInv, MemberOK, Working
<1>3. /\ screened = [e \in Events |-> screened[e]]
      /\ \A e \in Events : screened[e] \in [DOMAIN Parties[e] -> Nat]
  BY DEF MemberInv, GroupTypes
<1> HIDE DEF m, i
<1>4. /\ DOMAIN screened = Events /\ DOMAIN screened' = Events
      /\ screened' = [e \in Events |-> screened'[e]]
      /\ screened'[m] = [screened[m] EXCEPT ![i] = screened[m][i] + 1]
      /\ \A e \in Events \ {m} : screened'[e] = screened[e]
  BY <1>1, <1>2, <1>3
<1>5. screened[m][i] \in Nat
  BY <1>2, <1>3
<1>6. ASSUME NEW e \in Events PROVE screened'[e] \in [DOMAIN Parties[e] -> Nat]
  <2>1. screened[e] \in [DOMAIN Parties[e] -> Nat] /\ screened[m][i] + 1 \in Nat
    BY <1>3, <1>5
  <2>2. CASE e = m
    BY <1>4, <2>1, <2>2
  <2>3. CASE e # m
    BY <1>4, <2>1, <2>3
  <2> QED
    BY <2>2, <2>3
<1>7. \A e \in Events : \A j \in DOMAIN Parties[e] :
        screened'[e][j] = IF e = m /\ j = i THEN screened[e][j] + 1 ELSE screened[e][j]
  BY <1>3, <1>4, <1>5
<1> QED
  BY <1>2, <1>4, <1>6, <1>7 DEF m, i

LEMMA WriteKeepsMembers ==
  ASSUME MemberInv, NEW c \in Consumers, WriteComplianceEvent(c) PROVE MemberInv'
<1>1. /\ UNCHANGED <<log, position, message, party, processed, owner, offset, faults>>
      /\ pc[c] = "screen" /\ Goto(c, "announce")
  BY DEF WriteComplianceEvent, workVars
<1>2. GroupTypes'
  BY <1>1, ScreenedOnceMore DEF MemberInv, GroupTypes
<1> QED
  BY <1>1, <1>2, MoveOn DEF Working

(* On to the next party, or to the commit. *)
LEMMA AnnounceKeepsMembers ==
  ASSUME MemberInv, NEW c \in Consumers, AnnounceResult(c) \/ AnnounceFails(c)
  PROVE  MemberInv'
<1>0. MemberTypes /\ GroupTypes /\ MemberOK(c)
  BY DEF MemberInv
<1>1. /\ UNCHANGED <<log, position, message, processed, screened, owner, offset>>
      /\ pc[c] = "announce" /\ PartyDone(c)
      /\ faults' = faults \/ Fault
  BY DEF AnnounceResult, AnnounceFails, resultVars
<1>2. GroupTypes'
  BY <1>0, <1>1, FaultTypes, GroupKept DEF GroupTypes
<1>3. CASE /\ party[c] < Len(Parties[message[c]])
           /\ Goto(c, "screen") /\ party' = [party EXCEPT ![c] = @ + 1]
  <2>1. MemberTypes'
    BY <1>0, <1>1, <1>3 DEF MemberTypes, Goto, Working
  <2>2. /\ pc'[c] = "screen" /\ party'[c] = party[c] + 1
        /\ \A d \in Consumers \ {c} : pc'[d] = pc[d] /\ party'[d] = party[d]
    BY <1>0, <1>3 DEF MemberTypes, Goto
  <2>3. message[c] \in Events /\ party[c] \in DOMAIN Parties[message[c]]
    BY <1>0, <1>1 DEF MemberOK, Working
  <2>4. party[c] + 1 \in DOMAIN Parties[message[c]]
    BY <1>3, <2>3, PartiesTypes
  <2>5. MemberOK(c)'
    BY <1>0, <1>1, <2>2, <2>3, <2>4 DEF MemberOK, Working
  <2> QED
    BY <1>1, <1>2, <2>1, <2>2, <2>5, MemberStep
<1>4. CASE Goto(c, "commit") /\ party' = party
  BY <1>1, <1>2, <1>4, MoveOn DEF Working
<1> QED
  BY <1>1, <1>3, <1>4 DEF PartyDone

LEMMA EndKeepsMembers ==
  ASSUME MemberInv, NEW c \in Consumers,
         \/ CommitOffset(c) \/ Backoff(c) \/ SendToDlq(c) \/ DlqCommitFails(c)
         \/ ConsumerCrash(c)
  PROVE  MemberInv'
<1>0. MemberTypes /\ GroupTypes /\ MemberOK(c)
  BY DEF MemberInv
<1>1. PICK l \in {"poll", "stopped"} : Goto(c, l)
  BY DEF CommitOffset, Backoff, SendToDlq, DlqCommitFails, ConsumerCrash, Resume
<1>2. /\ message' = [message EXCEPT ![c] = Nothing]
      /\ UNCHANGED <<log, processed, screened, owner>>
      /\ position' = [position EXCEPT ![c] = offset] \/ position' = position
      /\ offset' = offset \/ offset' = position[c]
      /\ party' = party \/ party' = [party EXCEPT ![c] = 1]
  BY DEF CommitOffset, Backoff, SendToDlq, DlqCommitFails, ConsumerCrash, Resume, resultVars
<1>3. faults' \in [publisher : Nat, consumer : Nat, crash : Nat, rebalance : Nat]
  <2>1. CASE UNCHANGED faults \/ Fault
    BY <1>0, <2>1, FaultTypes DEF GroupTypes
  <2>2. CASE faults' = [faults EXCEPT !.crash = @ + 1]
    BY <1>0, <2>2 DEF GroupTypes
  <2> QED
    BY <2>1, <2>2 DEF CommitOffset, Backoff, SendToDlq, DlqCommitFails, ConsumerCrash, Fenced
<1>4. offset' \in Nat /\ offset' <= Len(log)
  BY <1>0, <1>2 DEF GroupTypes, MemberTypes, MemberOK
<1>5. GroupTypes'
  BY <1>0, <1>2, <1>3, <1>4, GroupKept DEF GroupTypes
<1>6. party' \in [Consumers -> Nat] /\ \A d \in Consumers \ {c} : party'[d] = party[d]
  BY <1>0, <1>2 DEF MemberTypes
<1> QED
  BY <1>1, <1>2, <1>5, <1>6, LetGo

LEMMA RebalanceKeepsMembers ==
  ASSUME MemberInv, NEW c \in Consumers, Rebalance(c) PROVE MemberInv'
<1>0. MemberTypes /\ GroupTypes /\ MemberOK(c)
  BY DEF MemberInv
<1>1. /\ UNCHANGED <<log, offset, pc, message, party, processed, screened>>
      /\ owner' = c /\ pc[c] = "poll" /\ position' = [position EXCEPT ![c] = offset]
      /\ faults' = [faults EXCEPT !.rebalance = @ + 1]
  BY DEF Rebalance, workVars, resultVars
<1>2. GroupTypes'
  BY <1>0, <1>1 DEF GroupTypes
<1>3. MemberTypes' /\ position'[c] = offset
      /\ \A d \in Consumers \ {c} : position'[d] = position[d]
  BY <1>0, <1>1 DEF MemberTypes, GroupTypes
<1>4. MemberOK(c)'
  BY <1>0, <1>1, <1>3 DEF MemberOK, GroupTypes, Working
<1> QED
  BY <1>1, <1>2, <1>3, <1>4, MemberStep

LEMMA NextKeepsMembers == PublisherInv /\ MemberInv /\ [Next]_vars => MemberInv'
BY OutsideKeepsMembers, PollKeepsMembers, QuietKeepsMembers, MarkKeepsMembers,
   WriteKeepsMembers, AnnounceKeepsMembers, EndKeepsMembers, RebalanceKeepsMembers
DEF Next, OutsideStep, ConsumerStep, ConsumerFails

-----------------------------------------------------------------------------
(* How often a party is screened.                                          *)

(* The members that have passed the check of event e and have its party i  *)
(* still before them.                                                      *)
StillToScreen(e, i) ==
  {c \in Consumers : /\ message[c] = e
                     /\ \/ pc[c] = "screen" /\ party[c] <= i
                        \/ pc[c] = "announce" /\ party[c] < i}

(* The members that have found e unprocessed and have not marked it yet. *)
Marking(e) == {c \in Consumers : pc[c] = "mark" /\ message[c] = e}

(* The members that lost the partition before they marked their message.   *)
LeftBehind == {c \in Consumers : c # owner /\ pc[c] \in {"dedupe", "mark"}}

(* Until e is marked, only those it could not be marked for screen it; the *)
(* members that are about to mark it then are the owner and those left     *)
(* behind, one by each rebalance, and nobody else gets past the check.     *)
ScreeningBound(e, i) ==
  LET n == screened[e][i] + Cardinality(StillToScreen(e, i))
  IN  /\ e \notin processed => n <= faults.consumer
      /\ e \in processed =>
           n + Cardinality(Marking(e)) <= 1 + faults.consumer + faults.rebalance

ScreeningInv ==
  /\ Cardinality(LeftBehind) <= faults.rebalance
  /\ \A e \in Events : \A i \in DOMAIN Parties[e] : ScreeningBound(e, i)

LEMMA SubsetOfBusy ==
  ASSUME MemberInv, NEW S, S \subseteq Busy
  PROVE  IsFiniteSet(S) /\ Cardinality(S) \in Nat
BY FS_Subset, FS_CardinalityType DEF MemberInv

LEMMA MemberSets ==
  ASSUME MemberInv, NEW e, NEW i
  PROVE  /\ IsFiniteSet(StillToScreen(e, i)) /\ Cardinality(StillToScreen(e, i)) \in Nat
         /\ IsFiniteSet(Marking(e)) /\ Cardinality(Marking(e)) \in Nat
         /\ IsFiniteSet(LeftBehind) /\ Cardinality(LeftBehind) \in Nat
<1>1. StillToScreen(e, i) \subseteq Busy /\ Marking(e) \subseteq Busy /\ LeftBehind \subseteq Busy
  BY DEF StillToScreen, Marking, LeftBehind, Busy
<1> QED
  BY <1>1, SubsetOfBusy

LEMMA NumberTypes ==
  ASSUME MemberInv, NEW e \in Events, NEW i \in DOMAIN Parties[e]
  PROVE  /\ screened[e][i] \in Nat /\ faults.consumer \in Nat /\ faults.crash \in Nat
         /\ faults.rebalance \in Nat
<1>1. screened[e] \in [DOMAIN Parties[e] -> Nat]
  BY DEF MemberInv, GroupTypes
<1>2. faults \in [publisher : Nat, consumer : Nat, crash : Nat, rebalance : Nat]
  BY DEF MemberInv, GroupTypes
<1> QED
  BY <1>1, <1>2

(* The sizes of the members' sets after a step. *)
LEMMA SmallerSets ==
  ASSUME NEW S, NEW T, IsFiniteSet(T), S \subseteq T
  PROVE  IsFiniteSet(S) /\ Cardinality(S) \in Nat /\ Cardinality(T) \in Nat
         /\ Cardinality(S) <= Cardinality(T)
BY FS_Subset, FS_CardinalityType

LEMMA OneMoreMember ==
  ASSUME NEW S, NEW T, IsFiniteSet(T), NEW c, S \subseteq T \cup {c}
  PROVE  IsFiniteSet(S) /\ Cardinality(S) \in Nat /\ Cardinality(T) \in Nat
         /\ Cardinality(S) <= Cardinality(T) + 1
<1>1. /\ IsFiniteSet(T \cup {c}) /\ Cardinality(T) \in Nat
      /\ Cardinality(T \cup {c}) <= Cardinality(T) + 1
  BY FS_AddElement, FS_CardinalityType
<1>2. /\ IsFiniteSet(S) /\ Cardinality(S) \in Nat /\ Cardinality(T \cup {c}) \in Nat
      /\ Cardinality(S) <= Cardinality(T \cup {c})
  BY <1>1, SmallerSets
<1> QED
  BY <1>1, <1>2

LEMMA OneMemberLess ==
  ASSUME NEW S, NEW T, IsFiniteSet(T), NEW c \in T, S \subseteq T \ {c}
  PROVE  IsFiniteSet(S) /\ Cardinality(S) \in Nat /\ Cardinality(T) \in Nat
         /\ Cardinality(S) + 1 <= Cardinality(T)
<1>1. /\ IsFiniteSet(T \ {c}) /\ Cardinality(T) \in Nat
      /\ Cardinality(T \ {c}) = Cardinality(T) - 1
  BY FS_RemoveElement, FS_CardinalityType
<1>2. /\ IsFiniteSet(S) /\ Cardinality(S) \in Nat /\ Cardinality(T \ {c}) \in Nat
      /\ Cardinality(S) <= Cardinality(T \ {c})
  BY <1>1, SmallerSets
<1> QED
  BY <1>1, <1>2

(* At most one member more than those left behind is about to mark e. *)
LEMMA MarkingBounded ==
  ASSUME MemberInv, ScreeningInv, NEW e \in Events
  PROVE  Cardinality(Marking(e)) <= 1 + faults.rebalance
<1>1. Marking(e) \subseteq LeftBehind \cup {owner}
  BY DEF Marking, LeftBehind
<1>2. IsFiniteSet(LeftBehind) /\ Cardinality(LeftBehind) \in Nat
  BY MemberSets
<1>3. Cardinality(Marking(e)) \in Nat /\ Cardinality(Marking(e)) <= Cardinality(LeftBehind) + 1
  BY <1>1, <1>2, OneMoreMember
<1>4. faults.rebalance \in Nat /\ Cardinality(LeftBehind) <= faults.rebalance
  BY DEF MemberInv, GroupTypes, ScreeningInv
<1> QED
  BY <1>2, <1>3, <1>4

(* A step that lets nobody pass the check of e and does not screen party i *)
(* of it.                                                                  *)
LEMMA BoundKept ==
  ASSUME MemberInv, MemberInv', NEW e \in Events, NEW i \in DOMAIN Parties[e],
         ScreeningBound(e, i),
         StillToScreen(e, i)' \subseteq StillToScreen(e, i),
         e \notin processed \/ Marking(e)' \subseteq Marking(e),
         screened'[e][i] = screened[e][i], e \in processed' <=> e \in processed,
         faults'.consumer >= faults.consumer, faults'.rebalance >= faults.rebalance
  PROVE  ScreeningBound(e, i)'
<1> DEFINE S == StillToScreen(e, i)  T == StillToScreen(e, i)'
           M == Marking(e)  N == Marking(e)'
<1>1. /\ IsFiniteSet(S) /\ IsFiniteSet(M) /\ Cardinality(S) \in Nat
      /\ Cardinality(M) \in Nat
  BY MemberSets
<1>2. IsFiniteSet(N) /\ Cardinality(N) \in Nat
  <2>1. N \subseteq Busy'
    BY DEF Marking, Busy
  <2> QED
    BY <2>1, FS_Subset, FS_CardinalityType DEF MemberInv
<1>3. /\ screened[e][i] \in Nat /\ faults.consumer \in Nat /\ faults.rebalance \in Nat
      /\ faults'.consumer \in Nat /\ faults'.rebalance \in Nat
  BY NumberTypes DEF MemberInv, GroupTypes
<1>4. /\ e \notin processed => screened[e][i] + Cardinality(S) <= faults.consumer
      /\ e \in processed => screened[e][i] + Cardinality(S) + Cardinality(M)
                              <= 1 + faults.consumer + faults.rebalance
  BY DEF ScreeningBound
<1>5. T \subseteq S /\ (e \notin processed \/ N \subseteq M)
  OBVIOUS
<1> HIDE DEF S, T, M, N
<1>6. /\ Cardinality(T) \in Nat /\ Cardinality(T) <= Cardinality(S)
      /\ e \in processed => Cardinality(N) <= Cardinality(M)
  BY <1>1, <1>5, SmallerSets
<1>7. /\ e \notin processed => screened[e][i] + Cardinality(T) <= faults'.consumer
      /\ e \in processed => screened[e][i] + Cardinality(T) + Cardinality(N)
                              <= 1 + faults'.consumer + faults'.rebalance
  BY <1>1, <1>2, <1>3, <1>4, <1>6
<1> QED
  BY <1>7 DEF ScreeningBound, T, N

(* The result row: one more screening, by a member that still had it to do. *)
LEMMA BoundScreened ==
  ASSUME MemberInv, MemberInv', NEW e \in Events, NEW i \in DOMAIN Parties[e],
         ScreeningBound(e, i), NEW c \in StillToScreen(e, i),
         StillToScreen(e, i)' \subseteq StillToScreen(e, i) \ {c},
         Marking(e)' \subseteq Marking(e),
         screened'[e][i] = screened[e][i] + 1, UNCHANGED <<processed, faults>>
  PROVE  ScreeningBound(e, i)'
<1> DEFINE S == StillToScreen(e, i)  T == StillToScreen(e, i)'
           M == Marking(e)  N == Marking(e)'
<1>1. /\ IsFiniteSet(S) /\ IsFiniteSet(M) /\ Cardinality(S) \in Nat
      /\ Cardinality(M) \in Nat
  BY MemberSets
<1>3. /\ screened[e][i] \in Nat /\ faults.consumer \in Nat /\ faults.rebalance \in Nat
  BY NumberTypes
<1>4. /\ e \notin processed => screened[e][i] + Cardinality(S) <= faults.consumer
      /\ e \in processed => screened[e][i] + Cardinality(S) + Cardinality(M)
                              <= 1 + faults.consumer + faults.rebalance
  BY DEF ScreeningBound
<1>5. T \subseteq S \ {c} /\ N \subseteq M /\ c \in S
  OBVIOUS
<1> HIDE DEF S, T, M, N
<1>6. /\ Cardinality(T) \in Nat /\ Cardinality(T) + 1 <= Cardinality(S)
      /\ Cardinality(N) \in Nat /\ Cardinality(N) <= Cardinality(M)
  BY <1>1, <1>5, SmallerSets, OneMemberLess
<1>7. /\ e \notin processed => screened[e][i] + 1 + Cardinality(T) <= faults.consumer
      /\ e \in processed => screened[e][i] + 1 + Cardinality(T) + Cardinality(N)
                              <= 1 + faults.consumer + faults.rebalance
  BY <1>1, <1>3, <1>4, <1>6
<1> QED
  BY <1>7 DEF ScreeningBound, T, N

(* The first mark, or a later one of a member that had passed the check. *)
LEMMA BoundMarked ==
  ASSUME MemberInv, MemberInv', ScreeningInv, NEW e \in Events, NEW i \in DOMAIN Parties[e],
         NEW c \in Marking(e),
         StillToScreen(e, i)' \subseteq StillToScreen(e, i) \cup {c},
         Marking(e)' \subseteq Marking(e) \ {c},
         screened'[e][i] = screened[e][i], e \in processed', UNCHANGED faults
  PROVE  ScreeningBound(e, i)'
<1> DEFINE S == StillToScreen(e, i)  T == StillToScreen(e, i)'
           M == Marking(e)  N == Marking(e)'
<1>1. /\ IsFiniteSet(S) /\ IsFiniteSet(M) /\ Cardinality(S) \in Nat
      /\ Cardinality(M) \in Nat
  BY MemberSets
<1>2. Cardinality(M) <= 1 + faults.rebalance
  BY MarkingBounded
<1>3. /\ screened[e][i] \in Nat /\ faults.consumer \in Nat /\ faults.rebalance \in Nat
  BY NumberTypes
<1>4. /\ e \notin processed => screened[e][i] + Cardinality(S) <= faults.consumer
      /\ e \in processed => screened[e][i] + Cardinality(S) + Cardinality(M)
                              <= 1 + faults.consumer + faults.rebalance
  BY DEF ScreeningBound, ScreeningInv
<1>5. T \subseteq S \cup {c} /\ N \subseteq M \ {c} /\ c \in M
  OBVIOUS
<1> HIDE DEF S, T, M, N
<1>6. /\ Cardinality(T) \in Nat /\ Cardinality(T) <= Cardinality(S) + 1
      /\ Cardinality(N) \in Nat /\ Cardinality(N) + 1 <= Cardinality(M)
  BY <1>1, <1>5, OneMoreMember, OneMemberLess
<1>7. screened[e][i] + Cardinality(T) + Cardinality(N)
        <= 1 + faults.consumer + faults.rebalance
  BY <1>1, <1>2, <1>3, <1>4, <1>6
<1> QED
  BY <1>7 DEF ScreeningBound, T, N

(* The check or the mark fails, and the handler goes on: one failure, one  *)
(* screening more.                                                         *)
LEMMA BoundUnmarked ==
  ASSUME MemberInv, MemberInv', NEW e \in Events, NEW i \in DOMAIN Parties[e],
         ScreeningBound(e, i), NEW c,
         StillToScreen(e, i)' \subseteq StillToScreen(e, i) \cup {c},
         Marking(e)' \subseteq Marking(e),
         UNCHANGED <<screened, processed>>, faults'.consumer = faults.consumer + 1,
         faults'.rebalance = faults.rebalance
  PROVE  ScreeningBound(e, i)'
<1> DEFINE S == StillToScreen(e, i)  T == StillToScreen(e, i)'
           M == Marking(e)  N == Marking(e)'
<1>1. /\ IsFiniteSet(S) /\ IsFiniteSet(M) /\ Cardinality(S) \in Nat
      /\ Cardinality(M) \in Nat
  BY MemberSets
<1>3. /\ screened[e][i] \in Nat /\ faults.consumer \in Nat /\ faults.rebalance \in Nat
  BY NumberTypes
<1>4. /\ e \notin processed => screened[e][i] + Cardinality(S) <= faults.consumer
      /\ e \in processed => screened[e][i] + Cardinality(S) + Cardinality(M)
                              <= 1 + faults.consumer + faults.rebalance
  BY DEF ScreeningBound
<1>5. T \subseteq S \cup {c} /\ N \subseteq M
  OBVIOUS
<1> HIDE DEF S, T, M, N
<1>6. /\ Cardinality(T) \in Nat /\ Cardinality(T) <= Cardinality(S) + 1
      /\ Cardinality(N) \in Nat /\ Cardinality(N) <= Cardinality(M)
  BY <1>1, <1>5, OneMoreMember, SmallerSets
<1>7. /\ e \notin processed => screened[e][i] + Cardinality(T) <= faults'.consumer
      /\ e \in processed => screened[e][i] + Cardinality(T) + Cardinality(N)
                              <= 1 + faults'.consumer + faults'.rebalance
  BY <1>1, <1>3, <1>4, <1>6
<1> QED
  BY <1>7 DEF ScreeningBound, T, N

(* Members left behind: only a rebalance adds one. *)
LEMMA BehindKept ==
  ASSUME MemberInv, ScreeningInv, LeftBehind' \subseteq LeftBehind,
         faults'.rebalance = faults.rebalance
  PROVE  Cardinality(LeftBehind') <= faults'.rebalance
<1>1. IsFiniteSet(LeftBehind)
  BY MemberSets
<1>2. /\ Cardinality(LeftBehind') \in Nat /\ Cardinality(LeftBehind) \in Nat
      /\ Cardinality(LeftBehind') <= Cardinality(LeftBehind)
  BY <1>1, SmallerSets
<1> QED
  BY <1>2 DEF ScreeningInv, MemberInv, GroupTypes

(* A step of member c that brings it neither to a check nor past one. *)
LEMMA QuietScreening ==
  ASSUME MemberInv, MemberInv', ScreeningInv, NEW c \in Consumers,
         \A d \in Consumers \ {c} :
           pc'[d] = pc[d] /\ message'[d] = message[d] /\ party'[d] = party[d],
         pc'[c] \notin {"screen", "announce"},
         pc'[c] \in {"dedupe", "mark"} => c = owner \/ pc[c] \in {"dedupe", "mark"},
         pc'[c] = "mark" => message[c] \notin processed /\ message'[c] = message[c],
         UNCHANGED <<owner, processed, screened>>,
         faults'.consumer >= faults.consumer, faults'.rebalance = faults.rebalance
  PROVE  ScreeningInv'
<1>1. LeftBehind' \subseteq LeftBehind
  BY DEF LeftBehind
<1>2. Cardinality(LeftBehind') <= faults'.rebalance
  BY <1>1, BehindKept
<1>3. ASSUME NEW e \in Events, NEW i \in DOMAIN Parties[e] PROVE ScreeningBound(e, i)'
  <2>1. StillToScreen(e, i)' \subseteq StillToScreen(e, i)
    BY DEF StillToScreen
  <2>2. e \notin processed \/ Marking(e)' \subseteq Marking(e)
    BY DEF Marking
  <2>3. faults'.rebalance >= faults.rebalance
    BY NumberTypes, <1>3
  <2> QED
    BY <2>1, <2>2, <2>3, BoundKept DEF ScreeningInv
<1> QED
  BY <1>2, <1>3 DEF ScreeningInv

LEMMA OutsideScreening ==
  ASSUME PublisherInv, MemberInv, MemberInv', ScreeningInv, OutsideStep
  PROVE  ScreeningInv'
<1>1. /\ UNCHANGED <<owner, pc, message, party, processed, screened>>
      /\ faults'.consumer = faults.consumer /\ faults'.rebalance = faults.rebalance
  BY OutsideFacts
<1>2. LeftBehind' = LeftBehind
  BY <1>1 DEF LeftBehind
<1>3. ASSUME NEW e \in Events, NEW i \in DOMAIN Parties[e]
      PROVE  StillToScreen(e, i)' = StillToScreen(e, i) /\ Marking(e)' = Marking(e)
  BY <1>1 DEF StillToScreen, Marking
<1>4. ASSUME NEW e \in Events, NEW i \in DOMAIN Parties[e]
      PROVE  ScreeningBound(e, i)'
  BY <1>1, <1>3 DEF ScreeningBound, ScreeningInv
<1> QED
  BY <1>1, <1>2, <1>4 DEF ScreeningInv

LEMMA QuietSteps ==
  ASSUME MemberInv, MemberInv', ScreeningInv, NEW c \in Consumers,
         \/ Poll(c) \/ PollErrors(c) \/ CheckDuplicate(c) \/ CommitOffset(c)
         \/ CommitFails(c) \/ Backoff(c) \/ SendToDlq(c) \/ DlqCommitFails(c)
         \/ ConsumerCrash(c)
  PROVE  ScreeningInv'
<1>0. MemberTypes /\ GroupTypes
  BY DEF MemberInv
<1>1. \A d \in Consumers \ {c} :
        pc'[d] = pc[d] /\ message'[d] = message[d] /\ party'[d] = party[d]
  BY <1>0 DEF MemberTypes, Poll, TakeNext, PollErrors, CheckDuplicate, CommitOffset,
     CommitFails, Backoff, SendToDlq, DlqCommitFails, ConsumerCrash, Resume, Goto, workVars
<1>2. UNCHANGED <<owner, processed, screened>>
  BY DEF Poll, PollErrors, CheckDuplicate, CommitOffset, CommitFails, Backoff, SendToDlq,
     DlqCommitFails, ConsumerCrash, resultVars
<1>3. /\ faults'.consumer >= faults.consumer /\ faults'.rebalance = faults.rebalance
  <2>1. CASE UNCHANGED faults
    BY <1>0, <2>1 DEF GroupTypes
  <2>2. CASE Fault
    BY <1>0, <2>2, FaultTypes DEF GroupTypes
  <2>3. CASE faults' = [faults EXCEPT !.crash = @ + 1]
    BY <1>0, <2>3 DEF GroupTypes
  <2> QED
    BY <2>1, <2>2, <2>3 DEF Poll, PollErrors, CheckDuplicate, CommitOffset, CommitFails,
       Backoff, SendToDlq, DlqCommitFails, ConsumerCrash, Fenced
<1>4. /\ pc'[c] \notin {"screen", "announce"}
      /\ pc'[c] \in {"dedupe", "mark"} => c = owner \/ pc[c] \in {"dedupe", "mark"}
      /\ pc'[c] = "mark" => message[c] \notin processed /\ message'[c] = message[c]
  BY <1>0 DEF MemberTypes, Poll, TakeNext, PollErrors, CheckDuplicate, CommitOffset,
     CommitFails, Backoff, SendToDlq, DlqCommitFails, ConsumerCrash, Resume, Goto, workVars
<1> QED
  BY <1>1, <1>2, <1>3, <1>4, QuietScreening

(* A step of member c that only moves it on. *)
LEMMA MoveFacts ==
  ASSUME MemberInv, NEW c \in Consumers, NEW l, Goto(c, l), UNCHANGED <<message, party>>
  PROVE  /\ pc'[c] = l
         /\ \A d \in Consumers \ {c} : pc'[d] = pc[d]
BY DEF MemberInv, MemberTypes, Goto

LEMMA MarkScreening ==
  ASSUME MemberInv, MemberInv', ScreeningInv, NEW c \in Consumers, MarkEventProcessed(c)
  PROVE  ScreeningInv'
<1>1. /\ UNCHANGED <<message, party, screened, owner, faults>>
      /\ pc[c] = "mark" /\ Goto(c, "screen") /\ processed' = processed \cup {message[c]}
  BY DEF MarkEventProcessed, workVars
<1>2. pc'[c] = "screen" /\ \A d \in Consumers \ {c} : pc'[d] = pc[d]
  BY <1>1, MoveFacts
<1>3. LeftBehind' \subseteq LeftBehind
  BY <1>1, <1>2 DEF LeftBehind
<1>4. ASSUME NEW e \in Events, NEW i \in DOMAIN Parties[e] PROVE ScreeningBound(e, i)'
  <2>1. CASE e = message[c]
    <3>1. c \in Marking(e)
      BY <1>1, <2>1 DEF Marking
    <3>2. /\ StillToScreen(e, i)' \subseteq StillToScreen(e, i) \cup {c}
          /\ Marking(e)' \subseteq Marking(e) \ {c}
      BY <1>1, <1>2 DEF StillToScreen, Marking
    <3> QED
      BY <1>1, <2>1, <3>1, <3>2, BoundMarked
  <2>2. CASE e # message[c]
    <3>1. /\ StillToScreen(e, i)' \subseteq StillToScreen(e, i)
          /\ Marking(e)' \subseteq Marking(e)
      BY <1>1, <1>2, <2>2 DEF StillToScreen, Marking
    <3>2. faults'.consumer >= faults.consumer /\ faults'.rebalance >= faults.rebalance
      BY <1>1, <1>4, NumberTypes
    <3> QED
      BY <1>1, <2>2, <3>1, <3>2, BoundKept DEF ScreeningInv
  <2> QED
    BY <2>1, <2>2
<1> QED
  BY <1>1, <1>3, <1>4, BehindKept DEF ScreeningInv

LEMMA MarkFailsScreening ==
  ASSUME MemberInv, MemberInv', ScreeningInv, NEW c \in Consumers, MarkFails(c)
  PROVE  ScreeningInv'
<1>1. /\ UNCHANGED <<message, party, screened, processed, owner>>
      /\ Goto(c, "screen") /\ Fault
  BY DEF MarkFails, workVars, resultVars
<1>2. pc'[c] = "screen" /\ \A d \in Consumers \ {c} : pc'[d] = pc[d]
  BY <1>1, MoveFacts
<1>3. LeftBehind' \subseteq LeftBehind
  BY <1>1, <1>2 DEF LeftBehind
<1>4. faults'.consumer = faults.consumer + 1 /\ faults'.rebalance = faults.rebalance
  BY <1>1, FaultTypes
<1>5. ASSUME NEW e \in Events, NEW i \in DOMAIN Parties[e] PROVE ScreeningBound(e, i)'
  <2>1. /\ StillToScreen(e, i)' \subseteq StillToScreen(e, i) \cup {c}
        /\ Marking(e)' \subseteq Marking(e)
    BY <1>1, <1>2 DEF StillToScreen, Marking
  <2> QED
    BY <1>1, <1>4, <2>1, BoundUnmarked DEF ScreeningInv
<1> QED
  BY <1>3, <1>4, <1>5, BehindKept DEF ScreeningInv

LEMMA WriteScreening ==
  ASSUME MemberInv, MemberInv', ScreeningInv, NEW c \in Consumers, WriteComplianceEvent(c)
  PROVE  ScreeningInv'
<1>1. /\ UNCHANGED <<message, party, processed, owner, faults>>
      /\ pc[c] = "screen" /\ Goto(c, "announce")
  BY DEF WriteComplianceEvent, workVars
<1>2. pc'[c] = "announce" /\ \A d \in Consumers \ {c} : pc'[d] = pc[d]
  BY <1>1, MoveFacts
<1>3. LeftBehind' \subseteq LeftBehind
  BY <1>1, <1>2 DEF LeftBehind
<1>4. ASSUME NEW e \in Events, NEW i \in DOMAIN Parties[e] PROVE ScreeningBound(e, i)'
  <2>0. i \in Nat /\ party[c] \in Nat
    BY PartiesTypes DEF MemberInv, MemberTypes
  <2>1. Marking(e)' \subseteq Marking(e)
    BY <1>1, <1>2 DEF Marking
  <2>2. CASE e = message[c] /\ i = party[c]
    <3>1. c \in StillToScreen(e, i)
      BY <1>1, <2>0, <2>2 DEF StillToScreen
    <3>2. StillToScreen(e, i)' \subseteq StillToScreen(e, i) \ {c}
      BY <1>1, <1>2, <2>0, <2>2 DEF StillToScreen
    <3>3. screened'[e][i] = screened[e][i] + 1
      BY <2>2, ScreenedOnceMore
    <3> QED
      BY <1>1, <2>1, <3>1, <3>2, <3>3, BoundScreened DEF ScreeningInv
  <2>3. CASE ~(e = message[c] /\ i = party[c])
    <3>1. StillToScreen(e, i)' \subseteq StillToScreen(e, i)
      BY <1>1, <1>2, <2>0 DEF StillToScreen
    <3>2. screened'[e][i] = screened[e][i]
      BY <2>3, ScreenedOnceMore
    <3>3. faults'.consumer >= faults.consumer /\ faults'.rebalance >= faults.rebalance
      BY <1>1, <1>4, NumberTypes
    <3> QED
      BY <1>1, <2>1, <3>1, <3>2, <3>3, BoundKept DEF ScreeningInv
  <2> QED
    BY <2>2, <2>3
<1> QED
  BY <1>1, <1>3, <1>4, BehindKept DEF ScreeningInv

(* Neither a failed result row nor the announcement brings anybody back to *)
(* a party that is behind it.                                              *)
LEMMA AnnounceScreening ==
  ASSUME MemberInv, MemberInv', ScreeningInv, NEW c \in Consumers,
         WriteFails(c) \/ AnnounceResult(c) \/ AnnounceFails(c)
  PROVE  ScreeningInv'
<1>0. MemberTypes /\ GroupTypes
  BY DEF MemberInv
<1>1. /\ UNCHANGED <<message, processed, screened, owner>>
      /\ faults' = faults \/ Fault
  BY DEF WriteFails, AnnounceResult, AnnounceFails, workVars, resultVars
<1>2. /\ \/ pc[c] = "screen" /\ pc'[c] = "announce" /\ party'[c] = party[c]
         \/ pc[c] = "announce" /\ pc'[c] = "screen" /\ party'[c] = party[c] + 1
         \/ pc'[c] = "commit"
      /\ \A d \in Consumers \ {c} : pc'[d] = pc[d] /\ party'[d] = party[d]
  BY <1>0 DEF MemberTypes, WriteFails, AnnounceResult, AnnounceFails, PartyDone, Goto, workVars
<1>3. LeftBehind' \subseteq LeftBehind
  BY <1>1, <1>2 DEF LeftBehind
<1>4. faults'.consumer >= faults.consumer /\ faults'.rebalance = faults.rebalance
      /\ faults.rebalance \in Nat
  BY <1>0, <1>1, FaultTypes DEF GroupTypes
<1>5. ASSUME NEW e \in Events, NEW i \in DOMAIN Parties[e] PROVE ScreeningBound(e, i)'
  <2>0. i \in Nat /\ party[c] \in Nat
    BY <1>0, PartiesTypes DEF MemberTypes
  <2>1. Marking(e)' \subseteq Marking(e)
    BY <1>1, <1>2 DEF Marking
  <2>2. StillToScreen(e, i)' \subseteq StillToScreen(e, i)
    BY <1>1, <1>2, <2>0 DEF StillToScreen
  <2>3. faults'.rebalance >= faults.rebalance
    BY <1>4
  <2> QED
    BY <1>1, <1>4, <2>1, <2>2, <2>3, BoundKept DEF ScreeningInv
<1> QED
  BY <1>3, <1>4, <1>5, BehindKept DEF ScreeningInv

LEMMA RebalanceScreening ==
  ASSUME MemberInv, MemberInv', ScreeningInv, NEW c \in Consumers, Rebalance(c)
  PROVE  ScreeningInv'
<1>1. /\ UNCHANGED <<pc, message, party, processed, screened>> /\ owner' = c
      /\ faults' = [faults EXCEPT !.rebalance = @ + 1]
  BY DEF Rebalance, workVars, resultVars
<1>2. /\ faults'.consumer = faults.consumer /\ faults'.rebalance = faults.rebalance + 1
      /\ faults.rebalance \in Nat /\ faults.consumer \in Nat
  BY <1>1 DEF MemberInv, GroupTypes
<1>3. LeftBehind' \subseteq LeftBehind \cup {owner}
  BY <1>1 DEF LeftBehind
<1>4. Cardinality(LeftBehind') <= faults'.rebalance
  <2>1. IsFiniteSet(LeftBehind)
    BY MemberSets
  <2>2. /\ Cardinality(LeftBehind') \in Nat /\ Cardinality(LeftBehind) \in Nat
        /\ Cardinality(LeftBehind') <= Cardinality(LeftBehind) + 1
    BY <1>3, <2>1, OneMoreMember
  <2> QED
    BY <1>2, <2>2 DEF ScreeningInv
<1>5. ASSUME NEW e \in Events, NEW i \in DOMAIN Parties[e] PROVE ScreeningBound(e, i)'
  <2>1. StillToScreen(e, i)' = StillToScreen(e, i) /\ Marking(e)' = Marking(e)
    BY <1>1 DEF StillToScreen, Marking
  <2>2. faults'.consumer >= faults.consumer /\ faults'.rebalance >= faults.rebalance
    BY <1>2
  <2> QED
    BY <1>1, <2>1, <2>2, BoundKept DEF ScreeningInv
<1> QED
  BY <1>4, <1>5 DEF ScreeningInv

LEMMA InitScreening == Init => ScreeningInv
<1> SUFFICES ASSUME Init PROVE ScreeningInv
  OBVIOUS
<1>1. LeftBehind = {} /\ faults.rebalance = 0 /\ faults.consumer = 0
  BY DEF Init, LeftBehind
<1>2. ASSUME NEW e \in Events, NEW i \in DOMAIN Parties[e] PROVE ScreeningBound(e, i)
  <2>1. StillToScreen(e, i) = {}
    BY DEF Init, StillToScreen
  <2>2. screened[e][i] = 0 /\ processed = {}
    BY DEF Init, None
  <2> QED
    BY <1>1, <2>1, <2>2, FS_EmptySet DEF ScreeningBound
<1> QED
  BY <1>1, <1>2, FS_EmptySet DEF ScreeningInv

LEMMA NextScreening ==
  PublisherInv /\ MemberInv /\ MemberInv' /\ ScreeningInv /\ [Next]_vars => ScreeningInv'
BY OutsideScreening, QuietSteps, MarkScreening, MarkFailsScreening, WriteScreening,
   AnnounceScreening, RebalanceScreening
DEF Next, OutsideStep, ConsumerStep, ConsumerFails

(* The members' invariants hold of the pipeline. *)
THEOREM GroupInvariant == Spec => [](PublisherInv /\ MemberInv /\ ScreeningInv)
BY InitPublisherInv, NextPublisherInv, InitMembers, NextKeepsMembers, InitScreening,
   NextScreening, PTL DEF Spec

(* ExtraScreeningsBounded: whatever is delivered twice, by publishers,     *)
(* restarts or rebalances, a party of an event is screened once, and once  *)
(* more at most for each failed transaction and each rebalance.            *)
THEOREM ScreeningsBounded == Spec => []ExtraScreeningsBounded
<1>1. ASSUME MemberInv, ScreeningInv PROVE ExtraScreeningsBounded
  <2> SUFFICES ASSUME NEW e \in Events, NEW i \in DOMAIN Parties[e]
               PROVE  screened[e][i] <= 1 + faults.consumer + faults.rebalance
    BY DEF ExtraScreeningsBounded
  <2>1. /\ screened[e][i] \in Nat /\ faults.consumer \in Nat /\ faults.rebalance \in Nat
        /\ Cardinality(StillToScreen(e, i)) \in Nat /\ Cardinality(Marking(e)) \in Nat
    BY <1>1, NumberTypes, MemberSets
  <2> QED
    BY <1>1, <2>1 DEF ScreeningInv, ScreeningBound
<1> QED
  BY <1>1, GroupInvariant, PTL

-----------------------------------------------------------------------------
(* What is lost.                                                           *)

(* The message at j is behind a member, or behind the whole group. *)
Behind(j) ==
  \/ j <= offset
  \/ \E c \in Consumers :
       j <= position[c] /\ (j < position[c] \/ pc[c] \notin {"dedupe", "mark"})

(* Nobody will begin to screen e for the first time. *)
Dealt(e) == e \in processed \/ \E j \in 1..Len(log) : log[j] = e /\ Behind(j)

Cared(e) ==
  \A i \in DOMAIN Parties[e] : screened[e][i] > 0 \/ StillToScreen(e, i) # {}

(* The events of owed, one for each restart and each failed transaction at *)
(* most, are the only ones that are dealt with although a party is neither *)
(* screened nor still before some member.                                  *)
Owed(owed) ==
  /\ IsFiniteSet(owed)
  /\ Cardinality(owed) <= faults.crash + faults.consumer
  /\ \A e \in Events \ owed : Dealt(e) => Cared(e)

LossInv == \E owed \in SUBSET Events : Owed(owed)

LEMMA FaultNumbers ==
  ASSUME MemberInv
  PROVE  faults.crash \in Nat /\ faults.consumer \in Nat /\ faults.rebalance \in Nat
BY DEF MemberInv, GroupTypes

(* A step after which everything that is dealt with is cared for. *)
LEMMA NothingLost ==
  ASSUME MemberInv, MemberInv', LossInv,
         faults'.crash >= faults.crash, faults'.consumer >= faults.consumer,
         \A e \in Events : (Dealt(e) => Cared(e)) => (Dealt(e)' => Cared(e)')
  PROVE  LossInv'
<1>1. PICK owed \in SUBSET Events : Owed(owed)
  BY DEF LossInv
<1>2. /\ faults.crash \in Nat /\ faults.consumer \in Nat
      /\ faults'.crash \in Nat /\ faults'.consumer \in Nat
  BY DEF MemberInv, GroupTypes
<1>3. Cardinality(owed) \in Nat /\ IsFiniteSet(owed)
  BY <1>1, FS_CardinalityType DEF Owed
<1>4. Cardinality(owed) <= faults'.crash + faults'.consumer
  BY <1>1, <1>2, <1>3 DEF Owed
<1>5. \A e \in Events \ owed : Dealt(e)' => Cared(e)'
  BY <1>1 DEF Owed
<1>6. Owed(owed)'
  BY <1>3, <1>4, <1>5 DEF Owed
<1> QED
  BY <1>6 DEF LossInv

(* A failure that may cost the event in hand. *)
LEMMA OneLost ==
  ASSUME MemberInv, MemberInv', LossInv, NEW x,
         faults'.crash + faults'.consumer = faults.crash + faults.consumer + 1,
         \A e \in Events \ {x} : (Dealt(e) => Cared(e)) => (Dealt(e)' => Cared(e)')
  PROVE  LossInv'
<1>1. PICK old \in SUBSET Events : Owed(old)
  BY DEF LossInv
<1>2. faults.crash \in Nat /\ faults.consumer \in Nat
  BY FaultNumbers
<1>3. Cardinality(old) \in Nat /\ IsFiniteSet(old)
  BY <1>1, FS_CardinalityType DEF Owed
<1>4. PICK y : y = x
  OBVIOUS
<1> DEFINE owed == (old \cup {y}) \cap Events
<1>5. owed \subseteq old \cup {y} /\ owed \in SUBSET Events
  OBVIOUS
<1>6. \A e \in Events \ owed : e \notin old /\ e # x
  BY <1>4
<1> HIDE DEF owed
<1>7. IsFiniteSet(owed) /\ Cardinality(owed) \in Nat /\ Cardinality(owed) <= Cardinality(old) + 1
  BY <1>3, <1>5, OneMoreMember
<1>8. Cardinality(owed) <= faults'.crash + faults'.consumer
  BY <1>1, <1>2, <1>3, <1>7 DEF Owed
<1>9. \A e \in Events \ owed : Dealt(e)' => Cared(e)'
  BY <1>1, <1>6 DEF Owed
<1>10. Owed(owed)'
  BY <1>7, <1>8, <1>9 DEF Owed
<1> QED
  BY <1>5, <1>10 DEF LossInv

(* How far the members are in the log. *)
LEMMA PositionTypes ==
  ASSUME MemberInv
  PROVE  /\ offset \in Nat /\ offset <= Len(log) /\ Len(log) \in Nat
         /\ \A c \in Consumers : position[c] \in Nat /\ position[c] <= Len(log)
BY DEF MemberInv, GroupTypes, MemberTypes, MemberOK

LEMMA OutsideLoses ==
  ASSUME PublisherInv, MemberInv, MemberInv', LossInv, OutsideStep
  PROVE  LossInv'
<1>1. /\ UNCHANGED <<offset, position, pc, message, party, processed, screened>>
      /\ faults'.consumer = faults.consumer /\ faults'.crash = faults.crash
      /\ log' = log \/ \E x \in Events \cup Malformed : log' = Append(log, x)
  BY OutsideFacts
<1>2. /\ Len(log) \in Nat /\ \A i \in 1..Len(log) : log'[i] = log[i]
  BY <1>1 DEF MemberInv
<1>3. ASSUME NEW e \in Events PROVE Dealt(e)' => Dealt(e)
  <2>1. ASSUME NEW j \in 1..Len(log'), Behind(j)' PROVE j \in 1..Len(log) /\ Behind(j)
    <3>1. j \in Nat /\ j >= 1 /\ Behind(j)
      BY <1>1, <2>1 DEF Behind, MemberInv
    <3>2. j <= Len(log)
      BY <3>1, PositionTypes DEF Behind
    <3> QED
      BY <1>2, <3>1, <3>2
  <2> QED
    BY <1>1, <1>2, <2>1 DEF Dealt
<1>4. \A e \in Events : Cared(e) => Cared(e)'
  BY <1>1 DEF Cared, StillToScreen
<1>5. faults'.crash >= faults.crash /\ faults'.consumer >= faults.consumer
  BY <1>1, FaultNumbers
<1> QED
  BY <1>3, <1>4, <1>5, NothingLost

(* A step of c after which nothing more is behind anybody and nobody has   *)
(* less to screen.                                                         *)
LEMMA NothingMoreBehind ==
  ASSUME MemberInv, NEW e \in Events, UNCHANGED <<log, processed>>,
         \A j \in 1..Len(log) : log[j] = e /\ Behind(j)' => Behind(j)
  PROVE  Dealt(e)' => Dealt(e)
BY DEF Dealt

LEMMA StillCared ==
  ASSUME NEW e \in Events, Cared(e),
         \A i \in DOMAIN Parties[e] :
           \/ screened'[e][i] > 0
           \/ /\ screened'[e][i] = screened[e][i]
              /\ StillToScreen(e, i) \subseteq StillToScreen(e, i)'
  PROVE  Cared(e)'
BY DEF Cared

LEMMA FaultsGrow ==
  ASSUME MemberInv, faults' = faults \/ Fault
  PROVE  /\ faults'.crash >= faults.crash /\ faults'.consumer >= faults.consumer
BY FaultTypes, FaultNumbers

(* Steps before the screening: nothing is behind a member that has not     *)
(* passed the check, except a message that is no event.                    *)
LEMMA EarlySteps ==
  ASSUME MemberInv, MemberInv', LossInv, NEW c \in Consumers,
         Poll(c) \/ PollErrors(c) \/ CheckDuplicate(c)
  PROVE  LossInv'
<1>0. MemberTypes /\ GroupTypes /\ MemberOK(c)
  BY DEF MemberInv
<1>1. /\ UNCHANGED <<log, offset, processed, screened>>
      /\ faults' = faults \/ Fault
  BY DEF Poll, PollErrors, CheckDuplicate, resultVars
<1>2. \A d \in Consumers \ {c} :
        /\ pc'[d] = pc[d] /\ message'[d] = message[d] /\ party'[d] = party[d]
        /\ position'[d] = position[d]
  BY <1>0 DEF MemberTypes, Poll, TakeNext, PollErrors, CheckDuplicate, Goto, workVars
<1>3. pc[c] \notin {"screen", "announce"}
  BY DEF Poll, TakeNext, PollErrors, CheckDuplicate
<1>4. ASSUME NEW e \in Events, NEW i PROVE StillToScreen(e, i) \subseteq StillToScreen(e, i)'
  BY <1>2, <1>3 DEF StillToScreen
<1>5. ASSUME NEW e \in Events, Cared(e) PROVE Cared(e)'
  BY <1>1, <1>4, <1>5, StillCared
<1>6. ASSUME NEW e \in Events, Dealt(e)' PROVE Dealt(e)
  <2>1. CASE Poll(c)
    <3> DEFINE n == position[c] + 1
    <3>1. /\ pc[c] = "poll" /\ position'[c] = n /\ n \in 1..Len(log)
          /\ pc'[c] = IF log[n] \in Malformed THEN "failed" ELSE "dedupe"
      BY <1>0, <2>1, PositionTypes DEF Poll, TakeNext, Goto, MemberTypes
    <3>2. ASSUME NEW j \in 1..Len(log), log[j] = e, Behind(j)' PROVE Behind(j)
      <4>1. position[c] \in Nat /\ offset' = offset
        BY <1>0, <1>1 DEF MemberTypes
      <4>2. CASE j <= offset'
        BY <4>1, <4>2 DEF Behind
      <4>3. ASSUME NEW d \in Consumers \ {c}, j <= position'[d],
                   j < position'[d] \/ pc'[d] \notin {"dedupe", "mark"}
            PROVE  Behind(j)
        BY <1>2, <4>3 DEF Behind
      <4>4. CASE j <= n /\ (j < n \/ pc'[c] \notin {"dedupe", "mark"})
        <5>1. log[n] # e \/ pc'[c] = "dedupe"
          BY <3>1, PipelineAssumption
        <5>2. j <= position[c]
          BY <3>2, <4>1, <4>4, <5>1
        <5> QED
          BY <3>1, <5>2 DEF Behind
      <4> QED
        BY <3>1, <3>2, <4>2, <4>3, <4>4 DEF Behind
    <3> QED
      BY <1>1, <1>6, <3>2, NothingMoreBehind
  <2>2. CASE PollErrors(c)
    <3>1. position' = position /\ pc[c] = "poll"
      BY <2>2 DEF PollErrors
    <3>2. \A j \in 1..Len(log) : Behind(j)' => Behind(j)
      BY <1>1, <1>2, <3>1 DEF Behind
    <3> QED
      BY <1>1, <1>6, <3>2, NothingMoreBehind
  <2>3. CASE CheckDuplicate(c)
    <3>1. /\ position' = position /\ pc[c] = "dedupe"
          /\ pc'[c] = IF message[c] \in processed THEN "commit" ELSE "mark"
          /\ message[c] = log[position[c]]
      BY <1>0, <2>3 DEF CheckDuplicate, Goto, MemberTypes, MemberOK, Working
    <3>2. CASE e = message[c] /\ e \in processed
      BY <3>2 DEF Dealt
    <3>3. CASE ~(e = message[c] /\ e \in processed)
      <4>1. ASSUME NEW j \in 1..Len(log), log[j] = e, Behind(j)' PROVE Behind(j)
        <5>1. position[c] \in Nat
          BY <1>0 DEF MemberTypes
        <5>2. j = position[c] => pc'[c] \in {"dedupe", "mark"}
          BY <3>1, <3>3, <4>1
        <5> QED
          BY <1>1, <1>2, <3>1, <4>1, <5>1, <5>2 DEF Behind
      <4> QED
        BY <1>1, <1>6, <4>1, NothingMoreBehind
    <3> QED
      BY <3>2, <3>3
  <2> QED
    BY <2>1, <2>2, <2>3
<1> QED
  BY <1>1, <1>5, <1>6, FaultsGrow, NothingLost

(* The event is marked, or could not be: the member that goes on has all   *)
(* its parties before it.                                                  *)
LEMMA MarkLoses ==
  ASSUME MemberInv, MemberInv', LossInv, NEW c \in Consumers,
         MarkEventProcessed(c) \/ MarkFails(c)
  PROVE  LossInv'
<1>0. MemberTypes /\ GroupTypes /\ MemberOK(c)
  BY DEF MemberInv
<1>1. /\ UNCHANGED <<log, offset, position, message, party, screened>>
      /\ faults' = faults \/ Fault
      /\ pc[c] \in {"dedupe", "mark"} /\ Goto(c, "screen")
      /\ processed' \subseteq processed \cup {message[c]}
  BY DEF MarkEventProcessed, MarkFails, workVars, resultVars
<1>2. /\ pc'[c] = "screen" /\ \A d \in Consumers \ {c} : pc'[d] = pc[d]
      /\ message[c] = log[position[c]] /\ party[c] = 1 /\ position[c] \in Nat
  BY <1>0, <1>1, MoveFacts DEF MemberOK, MemberTypes, Working
<1>3. ASSUME NEW e \in Events, (Dealt(e) => Cared(e)), Dealt(e)' PROVE Cared(e)'
  <2>1. CASE e = message[c]
    <3>1. \A i \in DOMAIN Parties[e] : c \in StillToScreen(e, i)'
      BY <1>1, <1>2, <2>1, PartiesTypes DEF StillToScreen
    <3> QED
      BY <3>1 DEF Cared
  <2>2. CASE e # message[c]
    <3>1. ASSUME NEW j \in 1..Len(log), log[j] = e, Behind(j)' PROVE Behind(j)
      <4>1. j # position[c]
        BY <1>2, <2>2, <3>1
      <4> QED
        BY <1>1, <1>2, <3>1, <4>1 DEF Behind
    <3>2. Dealt(e)
      BY <1>1, <1>3, <2>2, <3>1 DEF Dealt
    <3>3. \A i : StillToScreen(e, i) \subseteq StillToScreen(e, i)'
      BY <1>1, <1>2 DEF StillToScreen
    <3> QED
      BY <1>1, <1>3, <3>2, <3>3, StillCared
  <2> QED
    BY <2>1, <2>2
<1> QED
  BY <1>1, <1>3, FaultsGrow, NothingLost

(* Nothing gets behind a member while it screens. *)
LEMMA SameBehind ==
  ASSUME MemberInv, NEW c \in Consumers, UNCHANGED <<log, offset, position, processed>>,
         \A d \in Consumers \ {c} : pc'[d] = pc[d], pc[c] \notin {"dedupe", "mark"},
         NEW e \in Events, Dealt(e)'
  PROVE  Dealt(e)
<1>1. \A j \in 1..Len(log) : Behind(j)' => Behind(j)
  BY DEF Behind
<1> QED
  BY <1>1 DEF Dealt

LEMMA WriteLoses ==
  ASSUME MemberInv, MemberInv', LossInv, NEW c \in Consumers, WriteComplianceEvent(c)
  PROVE  LossInv'
<1>1. /\ UNCHANGED <<log, offset, position, message, party, processed, faults>>
      /\ pc[c] = "screen" /\ Goto(c, "announce")
  BY DEF WriteComplianceEvent, workVars
<1>2. pc'[c] = "announce" /\ \A d \in Consumers \ {c} : pc'[d] = pc[d]
  BY <1>1, MoveFacts
<1>3. ASSUME NEW e \in Events, Dealt(e)' PROVE Dealt(e)
  BY <1>1, <1>2, <1>3, SameBehind
<1>4. ASSUME NEW e \in Events, Cared(e) PROVE Cared(e)'
  <2>1. ASSUME NEW i \in DOMAIN Parties[e]
        PROVE  \/ screened'[e][i] > 0
               \/ /\ screened'[e][i] = screened[e][i]
                  /\ StillToScreen(e, i) \subseteq StillToScreen(e, i)'
    <3>0. i \in Nat /\ party[c] \in Nat /\ screened[e][i] \in Nat
      BY PartiesTypes, NumberTypes DEF MemberInv, MemberTypes
    <3>1. CASE e = message[c] /\ i = party[c]
      BY <3>0, <3>1, ScreenedOnceMore
    <3>2. CASE ~(e = message[c] /\ i = party[c])
      <4>1. StillToScreen(e, i) \subseteq StillToScreen(e, i)'
        BY <1>1, <1>2, <3>0, <3>2 DEF StillToScreen
      <4> QED
        BY <3>2, <4>1, ScreenedOnceMore
    <3> QED
      BY <3>1, <3>2
  <2> QED
    BY <1>4, <2>1, StillCared
<1> QED
  BY <1>1, <1>3, <1>4, FaultsGrow, NothingLost

(* A result row that could not be written costs its event. *)
LEMMA WriteFailsLoses ==
  ASSUME MemberInv, MemberInv', LossInv, NEW c \in Consumers, WriteFails(c)
  PROVE  LossInv'
<1>1. /\ UNCHANGED <<log, offset, position, message, party, processed, screened>>
      /\ pc[c] = "screen" /\ Goto(c, "announce") /\ Fault
  BY DEF WriteFails, workVars, resultVars
<1>2. pc'[c] = "announce" /\ \A d \in Consumers \ {c} : pc'[d] = pc[d]
  BY <1>1, MoveFacts
<1>3. ASSUME NEW e \in Events, Dealt(e)' PROVE Dealt(e)
  BY <1>1, <1>2, <1>3, SameBehind
<1>4. ASSUME NEW e \in Events \ {message[c]}, Cared(e) PROVE Cared(e)'
  <2>1. \A i : StillToScreen(e, i) \subseteq StillToScreen(e, i)'
    BY <1>1, <1>2 DEF StillToScreen
  <2> QED
    BY <1>1, <1>4, <2>1, StillCared
<1>5. faults'.crash + faults'.consumer = faults.crash + faults.consumer + 1
  BY <1>1, FaultTypes, FaultNumbers
<1> QED
  BY <1>3, <1>4, <1>5, OneLost

LEMMA AnnounceLoses ==
  ASSUME MemberInv, MemberInv', LossInv, NEW c \in Consumers,
         AnnounceResult(c) \/ AnnounceFails(c)
  PROVE  LossInv'
<1>0. MemberTypes /\ GroupTypes /\ MemberOK(c)
  BY DEF MemberInv
<1>1. /\ UNCHANGED <<log, offset, position, message, processed, screened>>
      /\ faults' = faults \/ Fault
      /\ pc[c] = "announce" /\ PartyDone(c)
  BY DEF AnnounceResult, AnnounceFails, resultVars
<1>2. /\ \/ pc'[c] = "screen" /\ party'[c] = party[c] + 1
         \/ pc'[c] = "commit" /\ ~(party[c] < Len(Parties[message[c]]))
      /\ \A d \in Consumers \ {c} : pc'[d] = pc[d] /\ party'[d] = party[d]
  BY <1>0, <1>1 DEF MemberTypes, PartyDone, Goto
<1>3. ASSUME NEW e \in Events, Dealt(e)' PROVE Dealt(e)
  BY <1>1, <1>2, <1>3, SameBehind
<1>4. ASSUME NEW e \in Events, Cared(e) PROVE Cared(e)'
  <2>1. ASSUME NEW i \in DOMAIN Parties[e]
        PROVE  StillToScreen(e, i) \subseteq StillToScreen(e, i)'
    <3>0. /\ i \in Nat /\ party[c] \in Nat /\ i <= Len(Parties[e]) /\ Len(Parties[e]) \in Nat
      BY <1>0, PartiesTypes DEF MemberTypes
    <3>1. c \in StillToScreen(e, i) => c \in StillToScreen(e, i)'
      BY <1>1, <1>2, <3>0 DEF StillToScreen
    <3>2. \A d \in Consumers \ {c} : d \in StillToScreen(e, i) => d \in StillToScreen(e, i)'
      BY <1>1, <1>2 DEF StillToScreen
    <3>3. StillToScreen(e, i) \subseteq Consumers
      BY DEF StillToScreen
    <3> QED
      BY <3>1, <3>2, <3>3
  <2> QED
    BY <1>1, <1>4, <2>1, StillCared
<1> QED
  BY <1>1, <1>3, <1>4, FaultsGrow, NothingLost

(* A step of c that commits at most what is behind c, or goes back to what *)
(* is committed.                                                           *)
LEMMA BackOrCommit ==
  ASSUME MemberInv, NEW c \in Consumers, UNCHANGED <<log, processed>>,
         \A d \in Consumers \ {c} : pc'[d] = pc[d] /\ position'[d] = position[d],
         \/ /\ pc[c] \notin {"dedupe", "mark"} /\ position'[c] = position[c]
            /\ offset' = offset \/ offset' = position[c]
         \/ position'[c] = offset /\ offset' = offset,
         NEW e \in Events, Dealt(e)'
  PROVE  Dealt(e)
<1>0. position[c] \in Nat /\ offset \in Nat
  BY PositionTypes
<1>1. ASSUME NEW j \in 1..Len(log), Behind(j)' PROVE Behind(j)
  <2>0. j \in Nat
    OBVIOUS
  <2>1. CASE j <= offset'
    BY <1>0, <2>0, <2>1 DEF Behind
  <2>2. ASSUME NEW d \in Consumers \ {c}, j <= position'[d],
               j < position'[d] \/ pc'[d] \notin {"dedupe", "mark"}
        PROVE  Behind(j)
    BY <2>2 DEF Behind
  <2>3. CASE j <= position'[c]
    BY <1>0, <2>0, <2>3 DEF Behind
  <2> QED
    BY <1>1, <2>1, <2>2, <2>3 DEF Behind
<1> QED
  BY <1>1 DEF Dealt

LEMMA LateSteps ==
  ASSUME MemberInv, MemberInv', LossInv, NEW c \in Consumers,
         \/ CommitOffset(c) \/ CommitFails(c) \/ Backoff(c) \/ SendToDlq(c)
         \/ DlqCommitFails(c) \/ Rebalance(c)
  PROVE  LossInv'
<1>0. MemberTypes /\ GroupTypes /\ MemberOK(c)
  BY DEF MemberInv
<1>1. UNCHANGED <<log, processed, screened, party>>
  BY DEF CommitOffset, CommitFails, Backoff, SendToDlq, DlqCommitFails, Rebalance, workVars,
     resultVars
<1>2. /\ \A d \in Consumers \ {c} : /\ pc'[d] = pc[d] /\ position'[d] = position[d]
                                    /\ message'[d] = message[d]
      /\ pc[c] \notin {"dedupe", "mark", "screen", "announce"}
      /\ \/ position'[c] = position[c] /\ (offset' = offset \/ offset' = position[c])
         \/ position'[c] = offset /\ offset' = offset
  BY <1>0 DEF MemberTypes, CommitOffset, CommitFails, Backoff, SendToDlq, DlqCommitFails,
     Rebalance, Resume, Goto, workVars
<1>3. faults'.crash >= faults.crash /\ faults'.consumer >= faults.consumer
  <2>1. CASE faults' = faults \/ Fault
    BY <2>1, FaultsGrow
  <2>2. CASE faults' = [faults EXCEPT !.rebalance = @ + 1]
    BY <1>0, <2>2 DEF GroupTypes
  <2> QED
    BY <2>1, <2>2 DEF CommitOffset, CommitFails, Backoff, SendToDlq, DlqCommitFails,
       Rebalance, Fenced
<1>4. ASSUME NEW e \in Events, Dealt(e)' PROVE Dealt(e)
  BY <1>1, <1>2, <1>4, BackOrCommit
<1>5. ASSUME NEW e \in Events, Cared(e) PROVE Cared(e)'
  <2>1. \A i : StillToScreen(e, i) \subseteq StillToScreen(e, i)'
    BY <1>1, <1>2 DEF StillToScreen
  <2> QED
    BY <1>1, <1>5, <2>1, StillCared
<1> QED
  BY <1>3, <1>4, <1>5, NothingLost

(* A restart costs the event in hand. *)
LEMMA CrashLoses ==
  ASSUME MemberInv, MemberInv', LossInv, NEW c \in Consumers, ConsumerCrash(c)
  PROVE  LossInv'
<1>0. MemberTypes /\ GroupTypes
  BY DEF MemberInv
<1>1. /\ UNCHANGED <<log, processed, screened, offset>>
      /\ faults' = [faults EXCEPT !.crash = @ + 1]
  BY DEF ConsumerCrash, resultVars
<1>2. /\ position'[c] = offset
      /\ \A d \in Consumers \ {c} : /\ pc'[d] = pc[d] /\ position'[d] = position[d]
                                    /\ message'[d] = message[d] /\ party'[d] = party[d]
  BY <1>0 DEF MemberTypes, ConsumerCrash, Resume, Goto
<1>3. faults'.crash + faults'.consumer = faults.crash + faults.consumer + 1
  BY <1>0, <1>1 DEF GroupTypes
<1>4. ASSUME NEW e \in Events, Dealt(e)' PROVE Dealt(e)
  BY <1>1, <1>2, <1>4, BackOrCommit
<1>5. ASSUME NEW e \in Events \ {message[c]}, Cared(e) PROVE Cared(e)'
  <2>1. \A i : StillToScreen(e, i) \subseteq StillToScreen(e, i)'
    BY <1>2 DEF StillToScreen
  <2> QED
    BY <1>1, <1>5, <2>1, StillCared
<1> QED
  BY <1>3, <1>4, <1>5, OneLost

LEMMA InitLoss == Init => LossInv
<1> SUFFICES ASSUME Init PROVE LossInv
  OBVIOUS
<1>1. Len(log) = 0 /\ processed = {} /\ faults.crash = 0 /\ faults.consumer = 0
  BY DEF Init
<1>2. \A e \in Events : ~Dealt(e)
  BY <1>1 DEF Dealt
<1>3. Owed({})
  BY <1>1, <1>2, FS_EmptySet DEF Owed
<1> QED
  BY <1>3 DEF LossInv

LEMMA NextLoss ==
  PublisherInv /\ MemberInv /\ MemberInv' /\ LossInv /\ [Next]_vars => LossInv'
BY OutsideLoses, EarlySteps, MarkLoses, WriteLoses, WriteFailsLoses, AnnounceLoses,
   LateSteps, CrashLoses
DEF Next, OutsideStep, ConsumerStep, ConsumerFails

(* LossesBounded: an event the group has passed is screened for every      *)
(* party or some member is at it, except for one event at most for each    *)
(* restart and each failed transaction; rebalances, duplicates and refused *)
(* commits lose nothing.                                                   *)
THEOREM PipelineLossesBounded == Spec => []LossesBounded
<1>1. Spec => []LossInv
  BY GroupInvariant, InitLoss, NextLoss, PTL DEF Spec
<1>2. ASSUME MemberInv, LossInv PROVE LossesBounded
  <2>1. PICK owed \in SUBSET Events : Owed(owed)
    BY <1>2 DEF LossInv
  <2>2. ASSUME NEW e \in GivenUp PROVE e \in owed
    <3>1. PICK j \in 1..offset : log[j] = e
      BY DEF GivenUp
    <3>2. j \in 1..Len(log) /\ j <= offset
      BY <1>2, PositionTypes
    <3>3. e \in Events /\ Dealt(e)
      BY <3>1, <3>2 DEF Dealt, Behind, GivenUp
    <3>4. PICK k \in DOMAIN Parties[e] : screened[e][k] = 0
      BY DEF GivenUp
    <3>5. StillToScreen(e, k) = {}
      BY DEF GivenUp, StillToScreen
    <3>6. ~Cared(e)
      BY <3>4, <3>5 DEF Cared
    <3> QED
      BY <2>1, <3>3, <3>6 DEF Owed
  <2>3. IsFiniteSet(owed) /\ GivenUp \subseteq owed
    BY <2>1, <2>2 DEF Owed
  <2>4. /\ Cardinality(GivenUp) \in Nat /\ Cardinality(owed) \in Nat
        /\ Cardinality(GivenUp) <= Cardinality(owed)
    BY <2>3, SmallerSets
  <2>5. Cardinality(owed) <= faults.crash + faults.consumer
    BY <2>1 DEF Owed
  <2> QED
    BY <1>2, <2>4, <2>5, FaultNumbers DEF LossesBounded
<1> QED
  BY <1>1, <1>2, GroupInvariant, PTL

-----------------------------------------------------------------------------
(* How often an event is in the log.                                       *)

(* The places of a message in the log. *)
At(x) == {i \in 1..Len(log) : log[i] = x}

(* Kafka has acknowledged e to the publisher that holds its row, or the    *)
(* row is marked.                                                          *)
Acknowledged(e) ==
  e \in published \/ \E p \in Publishers : \E i \in 1..sent[p] : batch[p][i] = e

CopyBound(e) ==
  Cardinality(At(e)) <= faults.publisher + (IF Acknowledged(e) THEN 1 ELSE 0)

(* FOR UPDATE SKIP LOCKED gives a row to one publisher at a time, so that  *)
(* an event is in the log once for each batch that failed with it, and     *)
(* once more when it is acknowledged.                                      *)
CopiesInv ==
  /\ createdAt \in [Events -> 0..Cardinality(Events)]
  /\ published \subseteq Events
  /\ \A p \in Publishers : \A i \in DOMAIN batch[p] : batch[p][i] \notin published
  /\ \A p, q \in Publishers : \A i \in DOMAIN batch[p], j \in DOMAIN batch[q] :
       batch[p][i] = batch[q][j] => p = q /\ i = j
  /\ \A e \in Events : CopyBound(e)
  /\ \A m \in Malformed : Cardinality(At(m)) <= 1

LEMMA PlacesFinite ==
  ASSUME log \in Seq(Events \cup Malformed), NEW x
  PROVE  IsFiniteSet(At(x)) /\ Cardinality(At(x)) \in Nat
<1>1. IsFiniteSet(1..Len(log)) /\ At(x) \subseteq 1..Len(log)
  BY FS_Interval DEF At
<1> QED
  BY <1>1, FS_Subset, FS_CardinalityType

LEMMA PlaceAdded ==
  ASSUME log \in Seq(Events \cup Malformed), NEW x \in Events \cup Malformed,
         log' = Append(log, x)
  PROVE  /\ \A y : y # x => At(y)' = At(y)
         /\ Cardinality(At(x)') \in Nat
         /\ Cardinality(At(x)') <= Cardinality(At(x)) + 1
<1> DEFINE n == Len(log) + 1
<1>1. /\ Len(log) \in Nat /\ Len(log') = n
      /\ \A i \in 1..Len(log) : log'[i] = log[i]
      /\ log'[n] = x
  OBVIOUS
<1>2. \A i \in 1..n : i \in 1..Len(log) \/ i = n
  BY <1>1
<1>3. \A i \in 1..Len(log) : i \in 1..n
  BY <1>1
<1> HIDE DEF n
<1>4. ASSUME NEW y, y # x PROVE At(y)' = At(y)
  BY <1>1, <1>2, <1>3, <1>4 DEF At
<1>5. At(x)' \subseteq At(x) \cup {n}
  BY <1>1, <1>2 DEF At
<1>6. IsFiniteSet(At(x))
  BY PlacesFinite
<1>7. Cardinality(At(x)') \in Nat /\ Cardinality(At(x)') <= Cardinality(At(x)) + 1
  BY <1>5, <1>6, OneMoreMember
<1> QED
  BY <1>4, <1>7

(* Fewer failures and fewer acknowledgements never follow. *)
LEMMA CopyBoundKept ==
  ASSUME NEW e \in Events, CopyBound(e), At(e)' = At(e), log \in Seq(Events \cup Malformed),
         Acknowledged(e) => Acknowledged(e)',
         faults.publisher \in Nat, faults'.publisher \in Nat,
         faults'.publisher >= faults.publisher
  PROVE  CopyBound(e)'
<1>1. Cardinality(At(e)) \in Nat
  BY PlacesFinite
<1>2. Cardinality(At(e)') = Cardinality(At(e))
  OBVIOUS
<1> QED
  BY <1>1, <1>2 DEF CopyBound

LEMMA CopiesKept ==
  ASSUME CopiesInv, log \in Seq(Events \cup Malformed), faults.publisher \in Nat,
         UNCHANGED <<published, batch, sent, log>>,
         createdAt' \in [Events -> 0..Cardinality(Events)],
         faults'.publisher = faults.publisher
  PROVE  CopiesInv'
<1>1. \A x : At(x)' = At(x)
  BY DEF At
<1>2. \A e \in Events : CopyBound(e)'
  <2>1. \A e : Acknowledged(e)' <=> Acknowledged(e)
    BY DEF Acknowledged
  <2> QED
    BY <1>1, <2>1 DEF CopyBound, CopiesInv
<1>3. \A m \in Malformed : Cardinality(At(m)') <= 1
  BY <1>1 DEF CopiesInv
<1> QED
  BY <1>2, <1>3 DEF CopiesInv

LEMMA WriteCopies ==
  ASSUME PublisherInv, CopiesInv, faults.publisher \in Nat, NEW e \in Events, WriteEvent(e)
  PROVE  CopiesInv'
<1>1. UNCHANGED <<published, batch, sent, log, faults>>
  BY DEF WriteEvent, publisherVars
<1>2. PICK t \in 1..Cardinality(Events) : createdAt' = [createdAt EXCEPT ![e] = t]
  BY DEF WriteEvent
<1>3. Cardinality(Events) \in Nat
  BY PipelineAssumption, FS_CardinalityType
<1>4. createdAt' \in [Events -> 0..Cardinality(Events)]
  BY <1>2, <1>3 DEF CopiesInv
<1> QED
  BY <1>1, <1>4, CopiesKept DEF PublisherInv

LEMMA ForeignCopies ==
  ASSUME PublisherInv, CopiesInv, faults.publisher \in Nat, NEW m \in Malformed,
         ForeignMessage(m)
  PROVE  CopiesInv'
<1>1. UNCHANGED <<createdAt, published, batch, sent, faults>> /\ log' = Append(log, m)
  BY DEF ForeignMessage, publisherVars, tableVars
<1>2. log \in Seq(Events \cup Malformed)
  BY DEF PublisherInv
<1>3. /\ \A y : y # m => At(y)' = At(y)
      /\ Cardinality(At(m)') \in Nat /\ Cardinality(At(m)') <= Cardinality(At(m)) + 1
  BY <1>1, <1>2, PlaceAdded
<1>4. At(m) = {}
  BY <1>2 DEF At, ForeignMessage, ToSet
<1>5. ASSUME NEW x \in Malformed PROVE Cardinality(At(x)') <= 1
  <2>1. CASE x = m
    BY <1>3, <1>4, <2>1, FS_EmptySet
  <2>2. CASE x # m
    BY <1>3, <2>2 DEF CopiesInv
  <2> QED
    BY <2>1, <2>2
<1>6. ASSUME NEW e \in Events PROVE CopyBound(e)'
  <2>1. At(e)' = At(e)
    BY <1>3, PipelineAssumption
  <2>2. Acknowledged(e) => Acknowledged(e)'
    BY <1>1 DEF Acknowledged
  <2>3. faults'.publisher \in Nat /\ faults'.publisher >= faults.publisher
    BY <1>1
  <2> QED
    BY <1>2, <2>1, <2>2, <2>3, CopyBoundKept DEF CopiesInv
<1> QED
  BY <1>1, <1>5, <1>6 DEF CopiesInv

LEMMA FetchCopies ==
  ASSUME PublisherInv, CopiesInv, faults.publisher \in Nat, NEW p \in Publishers, FetchRows(p)
  PROVE  CopiesInv'
<1>1. UNCHANGED <<createdAt, published, sent, log, faults>> /\ batch[p] = <<>>
  BY DEF FetchRows, tableVars
<1>2. PICK n \in 1..BatchSize : \E q \in [1..n -> Unpublished] :
        IsBatch(q) /\ batch' = [batch EXCEPT ![p] = q]
  BY DEF FetchRows
<1>3. PICK q \in [1..n -> Unpublished] : IsBatch(q) /\ batch' = [batch EXCEPT ![p] = q]
  BY <1>2
<1>4. /\ batch'[p] = q /\ DOMAIN q = 1..n /\ n \in Nat
      /\ \A r \in Publishers \ {p} : batch'[r] = batch[r]
  BY <1>3, PipelineAssumption DEF PublisherInv
<1>5. sent[p] = 0
  BY <1>1 DEF PublisherInv
<1>6. \A i \in DOMAIN q : /\ q[i] \in Events /\ q[i] \notin published
                          /\ \A r \in Publishers : \A j \in DOMAIN batch[r] : batch[r][j] # q[i]
  BY <1>4 DEF Unpublished, ToSet
<1>7. ASSUME NEW i \in DOMAIN q, NEW j \in DOMAIN q, q[i] = q[j] PROVE i = j
  <2>1. createdAt[q[i]] \in Int
    BY <1>6 DEF CopiesInv
  <2>2. ~(i < j) /\ ~(j < i)
    BY <1>3, <1>7, <2>1 DEF IsBatch
  <2>3. i \in Int /\ j \in Int
    BY <1>4
  <2> QED
    BY <2>2, <2>3
<1>8. \A r \in Publishers : \A i \in DOMAIN batch'[r] : batch'[r][i] \notin published
  <2> SUFFICES ASSUME NEW r \in Publishers, NEW i \in DOMAIN batch'[r]
               PROVE  batch'[r][i] \notin published
    OBVIOUS
  <2>1. CASE r = p
    BY <1>4, <1>6, <2>1
  <2>2. CASE r # p
    BY <1>4, <2>2 DEF CopiesInv
  <2> QED
    BY <2>1, <2>2
<1>9. ASSUME NEW r \in Publishers, NEW u \in Publishers, NEW i \in DOMAIN batch'[r],
             NEW j \in DOMAIN batch'[u], batch'[r][i] = batch'[u][j]
      PROVE  r = u /\ i = j
  <2>1. CASE r = p /\ u = p
    BY <1>4, <1>7, <1>9, <2>1
  <2>2. CASE r = p /\ u # p
    BY <1>4, <1>6, <1>9, <2>2
  <2>3. CASE r # p /\ u = p
    BY <1>4, <1>6, <1>9, <2>3
  <2>4. CASE r # p /\ u # p
    BY <1>4, <1>9, <2>4 DEF CopiesInv
  <2> QED
    BY <2>1, <2>2, <2>3, <2>4
<1>10. ASSUME NEW e \in Events PROVE CopyBound(e)'
  <2>1. At(e)' = At(e)
    BY <1>1 DEF At
  <2>2. Acknowledged(e) => Acknowledged(e)'
    <3>1. ASSUME NEW r \in Publishers, NEW i \in 1..sent[r], batch[r][i] = e
          PROVE  i \in 1..sent'[r] /\ batch'[r][i] = e
      <4>1. r # p
        BY <1>5, <3>1
      <4> QED
        BY <1>1, <1>4, <3>1, <4>1
    <3> QED
      BY <1>1, <3>1 DEF Acknowledged
  <2>3. faults'.publisher \in Nat /\ faults'.publisher >= faults.publisher
    BY <1>1
  <2>4. log \in Seq(Events \cup Malformed) /\ CopyBound(e)
    BY DEF PublisherInv, CopiesInv
  <2> QED
    BY <2>1, <2>2, <2>3, <2>4, CopyBoundKept
<1>11. \A m \in Malformed : Cardinality(At(m)') <= 1
  BY <1>1 DEF CopiesInv, At
<1> QED
  BY <1>1, <1>8, <1>9, <1>10, <1>11 DEF CopiesInv

(* The row a publisher sends next: an event that is not acknowledged. *)
LEMMA NextRow ==
  ASSUME PublisherInv, CopiesInv, NEW p \in Publishers, Sending(p)
  PROVE  /\ sent[p] + 1 \in DOMAIN batch[p] /\ sent[p] \in Nat
         /\ batch[p][sent[p] + 1] \in Events
         /\ ~Acknowledged(batch[p][sent[p] + 1])
<1>1. /\ batch[p] \in Seq(Events) /\ sent[p] \in Nat /\ sent[p] < Len(batch[p])
      /\ sent[p] + 1 \in DOMAIN batch[p]
  BY DEF PublisherInv, Sending
<1>2. batch[p][sent[p] + 1] \in Events /\ batch[p][sent[p] + 1] \notin published
  BY <1>1 DEF CopiesInv
<1>3. ASSUME NEW r \in Publishers, NEW i \in 1..sent[r] PROVE batch[r][i] # batch[p][sent[p] + 1]
  <2>1. i \in DOMAIN batch[r] /\ sent[r] \in Nat
    BY DEF PublisherInv
  <2>2. ~(r = p /\ i = sent[p] + 1)
    BY <1>1
  <2> QED
    BY <1>1, <2>1, <2>2 DEF CopiesInv
<1> QED
  BY <1>1, <1>2, <1>3 DEF Acknowledged

LEMMA SendCopies ==
  ASSUME PublisherInv, CopiesInv, faults.publisher \in Nat, NEW p \in Publishers, Send(p)
  PROVE  CopiesInv'
<1>x. PICK x : x = batch[p][sent[p] + 1]
  OBVIOUS
<1>1. /\ UNCHANGED <<createdAt, published, batch, faults>> /\ log' = Append(log, x)
      /\ sent' = [sent EXCEPT ![p] = sent[p] + 1] /\ Sending(p)
  BY <1>x DEF Send, tableVars
<1>2. x \in Events /\ ~Acknowledged(x) /\ sent[p] \in Nat
  BY <1>x, <1>1, NextRow
<1>3. log \in Seq(Events \cup Malformed) /\ sent \in [Publishers -> Nat]
  BY DEF PublisherInv
<1>a. batch'[p][sent[p] + 1] = x
  BY <1>x, <1>1
<1>4. /\ \A y : y # x => At(y)' = At(y)
      /\ Cardinality(At(x)') \in Nat /\ Cardinality(At(x)') <= Cardinality(At(x)) + 1
      /\ Cardinality(At(x)) \in Nat
  BY <1>1, <1>2, <1>3, PlaceAdded, PlacesFinite
<1>5. ASSUME NEW e \in Events PROVE CopyBound(e)'
  <2>1. CASE e = x
    <3>1. Acknowledged(x)'
      <4>1. sent[p] + 1 \in 1..sent'[p]
        BY <1>1, <1>2, <1>3
      <4> QED
        BY <1>1, <1>a, <4>1 DEF Acknowledged
    <3>2. Cardinality(At(x)) <= faults.publisher
      BY <1>2, <1>4 DEF CopiesInv, CopyBound
    <3>3. Cardinality(At(x)') <= faults'.publisher + 1
      BY <1>1, <1>4, <3>2
    <3> QED
      BY <2>1, <3>1, <3>3 DEF CopyBound
  <2>2. CASE e # x
    <3>1. Acknowledged(e) => Acknowledged(e)'
      <4>1. \A r \in Publishers : 1..sent[r] \subseteq 1..sent'[r]
        BY <1>1, <1>3
      <4> QED
        BY <1>1, <4>1 DEF Acknowledged
    <3>2. At(e)' = At(e) /\ CopyBound(e) /\ faults'.publisher \in Nat
          /\ faults'.publisher >= faults.publisher
      BY <1>1, <1>4, <2>2 DEF CopiesInv
    <3> QED
      BY <1>3, <3>1, <3>2, CopyBoundKept
  <2> QED
    BY <2>1, <2>2
<1>6. \A m \in Malformed : Cardinality(At(m)') <= 1
  BY <1>2, <1>4, PipelineAssumption DEF CopiesInv
<1> QED
  BY <1>1, <1>5, <1>6 DEF CopiesInv

(* The batches after one of them has ended. *)
LEMMA EndedBatch ==
  ASSUME PublisherInv, NEW p \in Publishers, EndBatch(p)
  PROVE  /\ DOMAIN batch'[p] = {} /\ sent'[p] = 0
         /\ \A r \in Publishers \ {p} : batch'[r] = batch[r] /\ sent'[r] = sent[r]
BY DEF PublisherInv, EndBatch

LEMMA MarkCopies ==
  ASSUME PublisherInv, CopiesInv, faults.publisher \in Nat, NEW p \in Publishers,
         MarkPublished(p)
  PROVE  CopiesInv'
<1>1. /\ UNCHANGED <<createdAt, log, faults>> /\ EndBatch(p)
      /\ published' = published \cup ToSet(batch[p])
  BY DEF MarkPublished
<1>2. /\ DOMAIN batch'[p] = {} /\ sent'[p] = 0
      /\ \A r \in Publishers \ {p} : batch'[r] = batch[r] /\ sent'[r] = sent[r]
  BY <1>1, EndedBatch
<1>3. published' \subseteq Events
  BY <1>1 DEF CopiesInv, PublisherInv, ToSet
<1>4. ASSUME NEW r \in Publishers, NEW i \in DOMAIN batch'[r]
      PROVE  batch'[r][i] \notin published'
  <2>1. r # p /\ batch'[r] = batch[r] /\ i \in DOMAIN batch[r]
    BY <1>2
  <2>2. \A j \in DOMAIN batch[p] : batch[r][i] # batch[p][j]
    BY <2>1 DEF CopiesInv
  <2> QED
    BY <1>1, <2>1, <2>2 DEF CopiesInv, ToSet
<1>5. \A r, u \in Publishers : \A i \in DOMAIN batch'[r], j \in DOMAIN batch'[u] :
        batch'[r][i] = batch'[u][j] => r = u /\ i = j
  BY <1>2 DEF CopiesInv
<1>6. ASSUME NEW e \in Events PROVE CopyBound(e)'
  <2>1. At(e)' = At(e)
    BY <1>1 DEF At
  <2>2. Acknowledged(e) => Acknowledged(e)'
    <3>1. ASSUME NEW r \in Publishers, NEW i \in 1..sent[r], batch[r][i] = e
          PROVE  Acknowledged(e)'
      <4>1. CASE r = p
        <5>1. i \in DOMAIN batch[p]
          BY <4>1 DEF PublisherInv
        <5> QED
          BY <1>1, <3>1, <4>1, <5>1 DEF Acknowledged, ToSet
      <4>2. CASE r # p
        BY <1>2, <3>1, <4>2 DEF Acknowledged
      <4> QED
        BY <4>1, <4>2
    <3> QED
      BY <1>1, <3>1 DEF Acknowledged
  <2>3. faults'.publisher \in Nat /\ faults'.publisher >= faults.publisher
    BY <1>1
  <2>4. log \in Seq(Events \cup Malformed) /\ CopyBound(e)
    BY DEF PublisherInv, CopiesInv
  <2> QED
    BY <2>1, <2>2, <2>3, <2>4, CopyBoundKept
<1>7. \A m \in Malformed : Cardinality(At(m)') <= 1
  BY <1>1 DEF CopiesInv, At
<1> QED
  BY <1>1, <1>3, <1>4, <1>5, <1>6, <1>7 DEF CopiesInv

(* A batch that fails may leave one more copy, of a row that was not       *)
(* acknowledged, and takes the acknowledgement of the others back.         *)
LEMMA AbandonCopies ==
  ASSUME PublisherInv, CopiesInv, faults.publisher \in Nat, NEW p \in Publishers,
         AbandonBatch(p), faults'.publisher = faults.publisher + 1
  PROVE  CopiesInv'
<1>1. UNCHANGED <<createdAt, published>> /\ EndBatch(p)
  BY DEF AbandonBatch, tableVars
<1>2. /\ DOMAIN batch'[p] = {} /\ sent'[p] = 0
      /\ \A r \in Publishers \ {p} : batch'[r] = batch[r] /\ sent'[r] = sent[r]
  BY <1>1, EndedBatch
<1>3. \A r \in Publishers : \A i \in DOMAIN batch'[r] : batch'[r][i] \notin published
  BY <1>2 DEF CopiesInv
<1>5. \A r, u \in Publishers : \A i \in DOMAIN batch'[r], j \in DOMAIN batch'[u] :
        batch'[r][i] = batch'[u][j] => r = u /\ i = j
  BY <1>2 DEF CopiesInv
<1>6. log \in Seq(Events \cup Malformed)
  BY DEF PublisherInv
<1>7. /\ \A e \in Events : Cardinality(At(e)') <= faults.publisher + 1
      /\ \A m \in Malformed : Cardinality(At(m)') <= 1
  <2>0. \A e \in Events : Cardinality(At(e)) <= faults.publisher + 1 /\ Cardinality(At(e)) \in Nat
    BY <1>6, PlacesFinite DEF CopiesInv, CopyBound
  <2>1. CASE log' = log
    <3>1. \A x : At(x)' = At(x)
      BY <2>1 DEF At
    <3> QED
      BY <2>0, <3>1 DEF CopiesInv
  <2>2. CASE Sending(p) /\ log' = Append(log, batch[p][sent[p] + 1])
    <3>x. PICK x : x = batch[p][sent[p] + 1]
      OBVIOUS
    <3>1. x \in Events /\ ~Acknowledged(x) /\ log' = Append(log, x)
      BY <3>x, <2>2, NextRow
    <3>2. /\ \A y : y # x => At(y)' = At(y)
          /\ Cardinality(At(x)') \in Nat /\ Cardinality(At(x)') <= Cardinality(At(x)) + 1
          /\ Cardinality(At(x)) \in Nat
      BY <1>6, <3>1, PlaceAdded, PlacesFinite
    <3>3. Cardinality(At(x)) <= faults.publisher
      BY <3>1, <3>2 DEF CopiesInv, CopyBound
    <3>4. Cardinality(At(x)') <= faults.publisher + 1
      BY <3>2, <3>3
    <3>5. \A m \in Malformed : m # x
      BY <3>1, PipelineAssumption
    <3> QED
      BY <2>0, <3>2, <3>4, <3>5 DEF CopiesInv
  <2> QED
    BY <2>1, <2>2 DEF AbandonBatch
<1>8. ASSUME NEW e \in Events PROVE CopyBound(e)'
  <2>1. Cardinality(At(e)') <= faults'.publisher
    BY <1>7
  <2>2. Cardinality(At(e)') \in Nat
    <3>1. log' \in Seq(Events \cup Malformed)
      BY <1>6, NextRow DEF AbandonBatch
    <3>2. IsFiniteSet(1..Len(log')) /\ At(e)' \subseteq 1..Len(log')
      BY <3>1, FS_Interval DEF At
    <3> QED
      BY <3>2, FS_Subset, FS_CardinalityType
  <2> QED
    BY <2>1, <2>2 DEF CopyBound
<1> QED
  BY <1>1, <1>3, <1>5, <1>7, <1>8 DEF CopiesInv

LEMMA ConsumerCopies ==
  ASSUME PublisherInv, CopiesInv, faults.publisher \in Nat,
         faults'.publisher = faults.publisher, NEW c \in Consumers,
         ConsumerStep(c) \/ ConsumerFails(c) \/ Rebalance(c)
  PROVE  CopiesInv'
<1>1. UNCHANGED <<createdAt, published, batch, sent, log>>
  BY DEF ConsumerStep, ConsumerFails, Rebalance, Poll, CheckDuplicate,
     MarkEventProcessed, WriteComplianceEvent, AnnounceResult, CommitOffset, Backoff,
     SendToDlq, PollErrors, MarkFails, WriteFails, AnnounceFails, CommitFails,
     DlqCommitFails, ConsumerCrash, tableVars, publisherVars
<1> QED
  BY <1>1, CopiesKept DEF PublisherInv, CopiesInv

(* Every count of failures keeps to its bound. *)
FaultsBounded ==
  /\ faults.publisher \in 0..MaxPublisherFaults /\ faults.consumer \in 0..MaxConsumerFaults
  /\ faults.crash \in 0..MaxConsumerCrashes /\ faults.rebalance \in 0..MaxRebalances

LEMMA FaultsStep ==
  ASSUME MemberInv, FaultsBounded, [Next]_vars
  PROVE  /\ FaultsBounded'
         /\ faults'.publisher = faults.publisher
              \/ \E p \in Publishers : AbandonBatch(p) /\ faults'.publisher = faults.publisher + 1
<1>0. /\ faults \in [publisher : Nat, consumer : Nat, crash : Nat, rebalance : Nat]
      /\ {MaxPublisherFaults, MaxConsumerFaults, MaxConsumerCrashes, MaxRebalances} \subseteq Nat
  BY PipelineAssumption DEF MemberInv, GroupTypes
<1>1. CASE faults' = faults
  BY <1>1 DEF FaultsBounded
<1>2. CASE Fault
  BY <1>0, <1>2 DEF FaultsBounded, Fault
<1>3. ASSUME NEW p \in Publishers, AbandonBatch(p)
      PROVE  FaultsBounded' /\ faults'.publisher = faults.publisher + 1
  BY <1>0, <1>3 DEF FaultsBounded, AbandonBatch
<1>4. ASSUME NEW c \in Consumers, ConsumerCrash(c) \/ Rebalance(c)
      PROVE  FaultsBounded' /\ faults'.publisher = faults.publisher
  BY <1>0, <1>4 DEF FaultsBounded, ConsumerCrash, Rebalance
<1>5. CASE \E c \in Consumers : ConsumerStep(c) \/ ConsumerFails(c)
  BY <1>1, <1>2, <1>4, <1>5
  DEF ConsumerStep, ConsumerFails, Poll, CheckDuplicate, MarkEventProcessed,
      WriteComplianceEvent, AnnounceResult, CommitOffset, Backoff, SendToDlq, PollErrors,
      MarkFails, WriteFails, AnnounceFails, CommitFails, DlqCommitFails, Fenced
<1>6. CASE \/ \E e \in Events : WriteEvent(e)
           \/ \E m \in Malformed : ForeignMessage(m)
           \/ \E p \in Publishers : PublisherStep(p)
           \/ UNCHANGED vars
  BY <1>1, <1>6 DEF WriteEvent, ForeignMessage, PublisherStep, FetchRows, Send, MarkPublished,
     vars
<1> QED
  BY <1>3, <1>4, <1>5, <1>6 DEF Next

LEMMA NextCopies ==
  PublisherInv /\ MemberInv /\ FaultsBounded /\ CopiesInv /\ [Next]_vars => CopiesInv'
<1> SUFFICES ASSUME PublisherInv, MemberInv, FaultsBounded, CopiesInv, [Next]_vars
             PROVE  CopiesInv'
  OBVIOUS
<1>1. faults.publisher \in Nat /\ log \in Seq(Events \cup Malformed)
  BY DEF MemberInv, GroupTypes
<1>2. CASE UNCHANGED vars
  <2>1. UNCHANGED <<createdAt, published, batch, sent, log, faults>>
    BY <1>2 DEF vars, tableVars, publisherVars
  <2> QED
    BY <1>1, <2>1, CopiesKept DEF CopiesInv
<1>3. ASSUME NEW p \in Publishers, AbandonBatch(p) PROVE CopiesInv'
  <2>1. faults'.publisher = faults.publisher + 1
    BY <1>3 DEF AbandonBatch, MemberInv, GroupTypes
  <2> QED
    BY <1>1, <1>3, <2>1, AbandonCopies
<1>4. ASSUME NEW c \in Consumers, ConsumerStep(c) \/ ConsumerFails(c) \/ Rebalance(c)
      PROVE  CopiesInv'
  <2>1. faults'.publisher = faults.publisher
    <3>1. CASE faults' = faults \/ Fault
      BY <3>1 DEF Fault, MemberInv, GroupTypes
    <3>2. CASE ConsumerCrash(c) \/ Rebalance(c)
      BY <3>2 DEF ConsumerCrash, Rebalance, MemberInv, GroupTypes
    <3> QED
      BY <1>4, <3>1, <3>2
      DEF ConsumerStep, ConsumerFails, Poll, CheckDuplicate, MarkEventProcessed,
        WriteComplianceEvent, AnnounceResult, CommitOffset, Backoff, SendToDlq, PollErrors,
        MarkFails, WriteFails, AnnounceFails, CommitFails, DlqCommitFails, Fenced
  <2> QED
    BY <1>1, <1>4, <2>1, ConsumerCopies
<1> QED
  BY <1>1, <1>2, <1>3, <1>4, WriteCopies, ForeignCopies, FetchCopies, SendCopies, MarkCopies
  DEF Next, PublisherStep

(* A union of finitely many sets of at most B elements each: every element *)
(* has a set it is in and a number in it.                                  *)
LEMMA UnionBounded ==
  ASSUME NEW S, IsFiniteSet(S), NEW A, NEW B \in Nat,
         \A x \in S : IsFiniteSet(A[x]) /\ Cardinality(A[x]) <= B
  PROVE  /\ IsFiniteSet(UNION {A[x] : x \in S})
         /\ Cardinality(UNION {A[x] : x \in S}) <= Cardinality(S) * B
<1> DEFINE U == UNION {A[x] : x \in S}
           Home == [u \in U |-> CHOOSE x \in S : u \in A[x]]
           Number == [x \in S |-> CHOOSE f \in [A[x] -> 1..B] :
                                    \A u, v \in A[x] : f[u] = f[v] => u = v]
           g == [u \in U |-> <<Home[u], Number[Home[u]][u]>>]
<1>1. \A u \in U : Home[u] \in S /\ u \in A[Home[u]]
  <2> SUFFICES ASSUME NEW u \in U PROVE Home[u] \in S /\ u \in A[Home[u]]
    OBVIOUS
  <2>1. \E x \in S : u \in A[x]
    OBVIOUS
  <2> QED
    BY <2>1
<1>2. ASSUME NEW x \in S
      PROVE  /\ Number[x] \in [A[x] -> 1..B]
             /\ \A u, v \in A[x] : Number[x][u] = Number[x][v] => u = v
  <2> DEFINE n == Cardinality(A[x])
  <2>1. IsFiniteSet(A[x]) /\ n \in Nat /\ n <= B
    BY FS_CardinalityType
  <2>2. IsFiniteSet(1..n) /\ Cardinality(1..n) = n
    BY <2>1, FS_Interval
  <2>3. ExistsBijection(A[x], 1..n)
    BY <2>1, <2>2, FS_SameCardinalityBij
  <2>4. PICK f \in [A[x] -> 1..n] : \A u, v \in A[x] : f[u] = f[v] => u = v
    BY <2>3 DEF ExistsBijection, Bijection, Injection, IsInjective
  <2>5. f \in [A[x] -> 1..B]
    BY <2>1, <2>4
  <2> HIDE DEF n
  <2> QED
    BY <2>4, <2>5
<1> HIDE DEF Home, Number, U
<1>3. g \in [U -> S \X (1..B)]
  BY <1>1, <1>2
<1>4. ASSUME NEW u \in U, NEW v \in U, g[u] = g[v] PROVE u = v
  <2>1. Home[u] = Home[v] /\ Number[Home[u]][u] = Number[Home[v]][v]
    BY <1>4
  <2> QED
    BY <1>1, <1>2, <2>1
<1>5. g \in Injection(U, S \X (1..B))
  BY <1>3, <1>4 DEF Injection, IsInjective
<1>6. IsFiniteSet(1..B) /\ Cardinality(1..B) = B
  BY FS_Interval
<1>7. IsFiniteSet(S \X (1..B)) /\ Cardinality(S \X (1..B)) = Cardinality(S) * B
  BY <1>6, FS_Product
<1>8. IsFiniteSet(U) /\ Cardinality(U) <= Cardinality(S) * B
  BY <1>5, <1>7, FS_Injection
<1> QED
  BY <1>8 DEF U

(* MaxLog is enough: each event once, and once more for each failed batch. *)
LEMMA LogBounded ==
  ASSUME PublisherInv, FaultsBounded, CopiesInv
  PROVE  Len(log) \in Nat /\ MaxLog \in Nat /\ Len(log) <= MaxLog
<1> DEFINE A == [x \in Events \cup Malformed |-> At(x)]
           U == UNION {A[e] : e \in Events}
           V == UNION {A[m] : m \in Malformed}
           n == Len(log)  B == 1 + MaxPublisherFaults
<1>1. log \in Seq(Events \cup Malformed) /\ n \in Nat
  BY DEF PublisherInv
<1>2. \A x \in Events \cup Malformed : IsFiniteSet(A[x]) /\ Cardinality(A[x]) \in Nat
  BY <1>1, PlacesFinite
<1>3. B \in Nat /\ faults.publisher \in Nat /\ faults.publisher + 1 <= B
  BY PipelineAssumption DEF FaultsBounded
<1>4. \A e \in Events : Cardinality(A[e]) <= B
  <2> SUFFICES ASSUME NEW e \in Events PROVE Cardinality(At(e)) <= B
    OBVIOUS
  <2>1. Cardinality(At(e)) \in Nat
    BY <1>1, PlacesFinite
  <2>2. CopyBound(e)
    BY DEF CopiesInv
  <2>3. Cardinality(At(e)) <= faults.publisher + 1 \/ Cardinality(At(e)) <= faults.publisher + 0
    BY <2>2 DEF CopyBound
  <2> HIDE DEF B
  <2> QED
    BY <1>3, <2>1, <2>3
<1>5. \A m \in Malformed : Cardinality(A[m]) <= 1
  BY DEF CopiesInv
<1>6. 1..n \subseteq U \cup V
  <2> SUFFICES ASSUME NEW i \in 1..n PROVE i \in U \cup V
    OBVIOUS
  <2>1. log[i] \in Events \cup Malformed
    BY <1>1
  <2>2. i \in A[log[i]]
    BY <2>1 DEF At
  <2> QED
    BY <2>1, <2>2
<1> HIDE DEF A, B
<1>7. IsFiniteSet(U) /\ Cardinality(U) <= Cardinality(Events) * B
  BY <1>2, <1>3, <1>4, PipelineAssumption, UnionBounded
<1>8. IsFiniteSet(V) /\ Cardinality(V) <= Cardinality(Malformed) * 1
  BY <1>2, <1>5, PipelineAssumption, UnionBounded
<1> HIDE DEF U, V, n
<1>9. /\ IsFiniteSet(U \cup V) /\ Cardinality(U) \in Nat /\ Cardinality(V) \in Nat
      /\ Cardinality(U \cup V) = Cardinality(U) + Cardinality(V) - Cardinality(U \cap V)
      /\ Cardinality(U \cap V) \in Nat /\ Cardinality(U \cup V) \in Nat
  BY <1>7, <1>8, FS_Union, FS_Intersection, FS_CardinalityType
<1>10. IsFiniteSet(1..n) /\ Cardinality(1..n) = n
  BY <1>1, FS_Interval
<1>11. n <= Cardinality(U \cup V)
  BY <1>6, <1>9, <1>10, FS_Subset
<1>12. Cardinality(Events) \in Nat /\ Cardinality(Malformed) \in Nat
  BY PipelineAssumption, FS_CardinalityType
<1>13. /\ Cardinality(Events) * B \in Nat
       /\ MaxLog = Cardinality(Events) * B + Cardinality(Malformed)
  BY <1>3, <1>12 DEF MaxLog, B
<1>14. n <= MaxLog /\ MaxLog \in Nat
  BY <1>1, <1>7, <1>8, <1>9, <1>11, <1>12, <1>13
<1> QED
  BY <1>1, <1>14 DEF n

(* The retry counts, the dead letters and the committed offset. *)
Retries == [1..MaxLog -> 0..(MaxHandlerRetries - 1)]

QueueInv ==
  /\ retries \in [Consumers -> Retries]
  /\ dlq \subseteq 1..Len(log)
  /\ offset <= position[owner]

LEMMA InitQueue == Init => QueueInv /\ CopiesInv /\ FaultsBounded
<1> SUFFICES ASSUME Init PROVE QueueInv /\ CopiesInv /\ FaultsBounded
  OBVIOUS
<1>1. FaultsBounded
  BY PipelineAssumption DEF Init, FaultsBounded
<1>2. QueueInv
  <2>1. retries \in [Consumers -> Retries]
    BY PipelineAssumption DEF Init, Retries
  <2>2. owner \in Consumers /\ offset = 0 /\ position = [c \in Consumers |-> 0] /\ dlq = {}
    BY DEF Init
  <2>3. offset <= position[owner]
    BY <2>2
  <2> QED
    BY <2>1, <2>2, <2>3 DEF QueueInv
<1>3. CopiesInv
  <2>1. \A x : At(x) = {}
    BY DEF Init, At
  <2>2. Cardinality(Events) \in Nat
    BY PipelineAssumption, FS_CardinalityType
  <2>3. createdAt \in [Events -> 0..Cardinality(Events)]
    BY <2>2 DEF Init
  <2>4. \A x : Cardinality(At(x)) = 0
    BY <2>1, FS_EmptySet
  <2>5. \A e \in Events : CopyBound(e)
    <3> SUFFICES ASSUME NEW e \in Events PROVE CopyBound(e)
      OBVIOUS
    <3>1. faults.publisher = 0
      BY DEF Init
    <3>2. 0 <= 0 + (IF Acknowledged(e) THEN 1 ELSE 0)
      OBVIOUS
    <3> QED
      BY <2>4, <3>1, <3>2 DEF CopyBound
  <2>6. \A p \in Publishers : DOMAIN batch[p] = {}
    BY DEF Init
  <2>7. published \subseteq Events
    BY DEF Init
  <2>8. \A m \in Malformed : Cardinality(At(m)) <= 1
    <3>1. 0 <= 1
      OBVIOUS
    <3> QED
      BY <2>4, <3>1
  <2> QED
    BY <2>3, <2>5, <2>6, <2>7, <2>8 DEF CopiesInv
<1> QED
  BY <1>1, <1>2, <1>3

LEMMA RetriesStep ==
  ASSUME retries \in [Consumers -> Retries], NEW c \in Consumers, Forget(c) \/ retries' = retries
  PROVE  retries' \in [Consumers -> Retries]
<1>0. 0 \in 0..(MaxHandlerRetries - 1)
  BY PipelineAssumption
<1>1. CASE Forget(c)
  <2>1. retries' = [retries EXCEPT ![c] = [retries[c] EXCEPT ![position[c]] = 0]]
    BY <1>1 DEF Forget
  <2>2. [retries[c] EXCEPT ![position[c]] = 0] \in Retries
    BY <1>0 DEF Retries
  <2> QED
    BY <2>1, <2>2
<1> QED
  BY <1>1

LEMMA BackoffRetries ==
  ASSUME retries \in [Consumers -> Retries], NEW c \in Consumers, Backoff(c)
  PROVE  retries' \in [Consumers -> Retries]
<1> DEFINE i == position[c]  f == retries[c]
<1>1. f \in Retries /\ MaxHandlerRetries \in Nat
  BY PipelineAssumption
<1>2. retries' = [retries EXCEPT ![c] = [f EXCEPT ![i] = f[i] + 1]] /\ ~(f[i] + 1 >= MaxHandlerRetries)
  BY DEF Backoff, LastTry
<1> HIDE DEF i, f
<1>3. [f EXCEPT ![i] = f[i] + 1] \in Retries
  <2>1. CASE i \in 1..MaxLog
    <3>1. f[i] \in 0..(MaxHandlerRetries - 1)
      BY <1>1, <2>1 DEF Retries
    <3>2. f[i] + 1 \in 0..(MaxHandlerRetries - 1)
      BY <1>1, <1>2, <3>1
    <3> QED
      BY <1>1, <3>2 DEF Retries
  <2>2. CASE i \notin 1..MaxLog
    <3>1. [f EXCEPT ![i] = f[i] + 1] = f
      BY <1>1, <2>2 DEF Retries
    <3> QED
      BY <1>1, <3>1
  <2> QED
    BY <2>1, <2>2
<1> QED
  BY <1>2, <1>3

LEMMA NextQueue ==
  PublisherInv /\ MemberInv /\ QueueInv /\ [Next]_vars => QueueInv'
<1> SUFFICES ASSUME PublisherInv, MemberInv, QueueInv, [Next]_vars PROVE QueueInv'
  OBVIOUS
<1>0. /\ offset \in Nat /\ Len(log) \in Nat
      /\ \A c \in Consumers : position[c] \in Nat /\ position[c] <= Len(log)
      /\ \A c \in Consumers : pc[c] \in Working => position[c] \in 1..Len(log)
      /\ MemberTypes /\ GroupTypes
  <2>1. \A c \in Consumers : MemberOK(c)
    BY DEF MemberInv
  <2> QED
    BY <2>1, PositionTypes DEF MemberInv, MemberOK
<1>1. ASSUME OutsideStep PROVE QueueInv'
  <2>1. /\ UNCHANGED <<offset, owner, position>>
        /\ log' = log \/ \E x \in Events \cup Malformed : log' = Append(log, x)
    BY <1>1, OutsideFacts
  <2>2. UNCHANGED <<retries, dlq>>
    BY <1>1 DEF OutsideStep, WriteEvent, ForeignMessage, PublisherStep, FetchRows, Send,
       MarkPublished, AbandonBatch, vars, consumerVars, workVars, resultVars
  <2>3. Len(log') \in Nat /\ Len(log') >= Len(log)
    BY <2>1 DEF MemberInv
  <2>4. dlq' \subseteq 1..Len(log')
    BY <1>0, <2>2, <2>3 DEF QueueInv
  <2> QED
    BY <2>1, <2>2, <2>4 DEF QueueInv
<1>2. ASSUME NEW c \in Consumers,
             \/ PollErrors(c) \/ CheckDuplicate(c) \/ MarkEventProcessed(c) \/ MarkFails(c)
             \/ WriteComplianceEvent(c) \/ WriteFails(c) \/ AnnounceResult(c)
             \/ AnnounceFails(c) \/ CommitFails(c)
      PROVE  QueueInv'
  <2>1. UNCHANGED <<log, offset, owner, position, retries, dlq>>
    BY <1>2 DEF PollErrors, CheckDuplicate, MarkEventProcessed, MarkFails,
       WriteComplianceEvent, WriteFails, AnnounceResult, AnnounceFails, CommitFails,
       workVars, resultVars
  <2> QED
    BY <2>1 DEF QueueInv
<1>3. ASSUME NEW c \in Consumers, Poll(c) PROVE QueueInv'
  <2>1. /\ UNCHANGED <<log, offset, owner, retries, dlq>> /\ owner = c
        /\ position' = [position EXCEPT ![c] = position[c] + 1]
    BY <1>3 DEF Poll, TakeNext, resultVars
  <2>2. position'[owner] = position[owner] + 1
    BY <1>0, <2>1 DEF MemberTypes
  <2>3. offset \in Nat /\ position[owner] \in Nat /\ offset <= position[owner]
    BY <1>0 DEF QueueInv, GroupTypes
  <2>4. offset <= position[owner] + 1
    BY <2>3
  <2>5. offset' <= position'[owner']
    BY <2>1, <2>2, <2>4
  <2>6. retries' \in [Consumers -> Retries] /\ dlq' \subseteq 1..Len(log')
    BY <2>1 DEF QueueInv
  <2> QED
    BY <2>5, <2>6 DEF QueueInv
<1>4. ASSUME NEW c \in Consumers,
             CommitOffset(c) \/ SendToDlq(c) \/ DlqCommitFails(c) \/ Backoff(c)
      PROVE  QueueInv'
  <2>1. /\ UNCHANGED <<log, owner, position>> /\ pc[c] \in Working
        /\ offset' = offset \/ (owner = c /\ offset' = position[c])
        /\ dlq' \subseteq dlq \cup {position[c]}
        /\ Forget(c) \/ retries' = retries \/ Backoff(c)
    BY <1>4 DEF CommitOffset, SendToDlq, DlqCommitFails, Backoff, Working, resultVars
  <2>2. retries' \in [Consumers -> Retries]
    BY <2>1, RetriesStep, BackoffRetries DEF QueueInv
  <2>3. dlq' \subseteq 1..Len(log')
    BY <1>0, <2>1 DEF QueueInv
  <2>4. offset' <= position'[owner']
    BY <1>0, <2>1 DEF QueueInv
  <2> QED
    BY <2>2, <2>3, <2>4 DEF QueueInv
<1>5. ASSUME NEW c \in Consumers, ConsumerCrash(c) \/ Rebalance(c) PROVE QueueInv'
  <2>1. /\ UNCHANGED <<log, offset, dlq>>
        /\ owner' = owner \/ owner' = c
        /\ position' = [position EXCEPT ![c] = offset]
        /\ \/ retries' = retries
           \/ retries' = [retries EXCEPT ![c] = [i \in DOMAIN retries[c] |-> 0]]
    BY <1>5 DEF ConsumerCrash, Rebalance, workVars, resultVars
  <2>2. position'[c] = offset /\ \A d \in Consumers \ {c} : position'[d] = position[d]
    BY <1>0, <2>1 DEF MemberTypes
  <2>3. offset' <= position'[owner']
    BY <1>0, <2>1, <2>2 DEF QueueInv, GroupTypes
  <2>4. retries' \in [Consumers -> Retries]
    <3>1. [i \in DOMAIN retries[c] |-> 0] \in Retries
      BY PipelineAssumption DEF QueueInv, Retries
    <3> QED
      BY <2>1, <3>1 DEF QueueInv
  <2>5. dlq' \subseteq 1..Len(log')
    BY <2>1 DEF QueueInv
  <2> QED
    BY <2>3, <2>4, <2>5 DEF QueueInv
<1> QED
  BY <1>1, <1>2, <1>3, <1>4, <1>5 DEF Next, OutsideStep, ConsumerStep, ConsumerFails

(* The whole invariant of the pipeline. *)
PipelineInv ==
  /\ PublisherInv /\ MemberInv /\ ScreeningInv /\ LossInv
  /\ FaultsBounded /\ CopiesInv /\ QueueInv

(* The publishers' and the members' invariants together. *)
THEOREM PipelineInvariant == Spec => []PipelineInv
<1>1. Init => PipelineInv
  BY InitPublisherInv, InitMembers, InitScreening, InitLoss, InitQueue DEF PipelineInv
<1>2. PipelineInv /\ [Next]_vars => PipelineInv'
  BY NextPublisherInv, NextKeepsMembers, NextScreening, NextLoss, FaultsStep, NextCopies,
     NextQueue DEF PipelineInv
<1> QED
  BY <1>1, <1>2, PTL DEF Spec

(* Every variable keeps its shape; the log never holds an event more often *)
(* than once and once for each failed batch, no retry count reaches its    *)
(* limit, and the owner of the partition is never behind the committed     *)
(* offset.                                                                 *)
THEOREM PipelineTypeCorrectness == Spec => []PipelineTypeOK
<1>1. ASSUME PipelineInv PROVE PipelineTypeOK
  <2>1. PublisherInv /\ MemberInv /\ FaultsBounded /\ CopiesInv /\ QueueInv
    BY <1>1 DEF PipelineInv
  <2>2. /\ createdAt \in [Events -> 0..Cardinality(Events)] /\ published \subseteq Events
    BY <2>1 DEF CopiesInv
  <2>3. /\ batch \in [Publishers -> Seq(Events)]
        /\ \A p \in Publishers : sent[p] \in 0..Len(batch[p])
        /\ ToSet(log) \subseteq Events \cup Malformed
    BY <2>1 DEF PublisherInv, ToSet
  <2>4. Len(log) <= MaxLog
    BY <2>1, LogBounded
  <2>5. /\ 0 <= offset /\ offset <= position[owner] /\ dlq \subseteq 1..Len(log)
        /\ \A c \in Consumers : position[c] <= Len(log)
    BY <2>1, PositionTypes DEF QueueInv
  <2>6. /\ message \in [Consumers -> Events \cup Malformed \cup {Nothing}]
        /\ processed \subseteq Events
    BY <2>1 DEF MemberInv, MemberTypes, GroupTypes
  <2>7. \A c \in Consumers : \A i \in DOMAIN retries[c] :
          retries[c][i] \in 0..(MaxHandlerRetries - 1)
    BY <2>1 DEF QueueInv, Retries
  <2> QED
    BY <2>2, <2>3, <2>4, <2>5, <2>6, <2>7 DEF PipelineTypeOK
<1> QED
  BY <1>1, PipelineInvariant, PTL

-----------------------------------------------------------------------------
(* A group without failures.                                               *)

(* No transaction of the handler fails, and no member restarts or loses    *)
(* the partition.                                                          *)
Calm == MaxConsumerFaults = 0 /\ MaxConsumerCrashes = 0 /\ MaxRebalances = 0

(* The message at j needs nothing more but the screening by who marked it. *)
Kept(j) == log[j] \in Events => log[j] \in processed

(* The messages that the owner of the partition has let go of. *)
LetGoOf == {j \in 1..position[owner] : j < position[owner] \/ pc[owner] = "poll"}

(* Only the owner works, one message after the other: it leaves none       *)
(* behind it, never screens one that was earlier in the log, and commits   *)
(* last; an unreadable one it commits only after a dead letter.            *)
OrderInv ==
  /\ \A c \in Consumers \ {owner} : pc[c] = "poll"
  /\ pc[owner] = "failed" => message[owner] \in Malformed
  /\ pc[owner] \in {"mark", "screen", "announce"} =>
       \A j \in 1..(position[owner] - 1) : log[j] # message[owner]
  /\ pc[owner] \in {"screen", "announce", "commit"} => message[owner] \in processed
  /\ \A j \in LetGoOf : Kept(j)
  /\ pc[owner] # "poll" => offset < position[owner]
  /\ offset > 0 /\ log[offset] \in Malformed => offset \in dlq

LEMMA InitOrder == Init => OrderInv
<1> SUFFICES ASSUME Init PROVE OrderInv
  OBVIOUS
<1>1. /\ owner \in Consumers /\ position[owner] = 0 /\ offset = 0
      /\ \A c \in Consumers : pc[c] = "poll"
  BY DEF Init
<1>2. LetGoOf = {}
  BY <1>1 DEF LetGoOf
<1> QED
  BY <1>1, <1>2 DEF OrderInv

(* The owner's step that stays on its message. *)
OwnerStep ==
  \/ CheckDuplicate(owner) \/ MarkEventProcessed(owner)
  \/ WriteComplianceEvent(owner) \/ AnnounceResult(owner)

LEMMA NoFailure ==
  ASSUME Calm, MemberInv, FaultsBounded
  PROVE  /\ ~Fault
         /\ \A c \in Consumers : ~ConsumerCrash(c) /\ ~Rebalance(c)
<1>1. faults.consumer \in Nat /\ faults.crash \in Nat /\ faults.rebalance \in Nat
  BY FaultNumbers
<1> QED
  BY <1>1 DEF Calm, Fault, ConsumerCrash, Rebalance

(* Without failures there are only the owner's eight steps. *)
LEMMA CalmSteps ==
  ASSUME Calm, MemberInv, FaultsBounded, OrderInv, [Next]_vars
  PROVE  \/ OutsideStep \/ Poll(owner) \/ OwnerStep \/ CommitOffset(owner)
         \/ SendToDlq(owner) \/ Backoff(owner)
<1>1. CASE \E c \in Consumers : ConsumerStep(c) \/ ConsumerFails(c) \/ Rebalance(c)
  <2>1. PICK c \in Consumers : ConsumerStep(c) \/ ConsumerFails(c) \/ Rebalance(c)
    BY <1>1
  <2>2. ~Fault /\ ~ConsumerCrash(c) /\ ~Rebalance(c)
    BY NoFailure
  <2>3. /\ ~PollErrors(c) /\ ~MarkFails(c) /\ ~WriteFails(c) /\ ~AnnounceFails(c)
    BY <2>2 DEF PollErrors, MarkFails, WriteFails, AnnounceFails
  <2>4. CASE c # owner
    <3>1. pc[c] = "poll"
      BY <2>4 DEF OrderInv
    <3> QED
      BY <2>1, <2>2, <2>3, <2>4, <3>1
      DEF ConsumerStep, ConsumerFails, Poll, TakeNext, CheckDuplicate, MarkEventProcessed,
        WriteComplianceEvent, AnnounceResult, CommitOffset, Backoff, SendToDlq, CommitFails,
        DlqCommitFails
  <2>5. CASE c = owner
    <3>1. ~CommitFails(c) /\ ~DlqCommitFails(c)
      BY <2>2, <2>5 DEF CommitFails, DlqCommitFails, Fenced
    <3> QED
      BY <2>1, <2>2, <2>3, <2>5, <3>1 DEF ConsumerStep, ConsumerFails, OwnerStep
  <2> QED
    BY <2>4, <2>5
<1> QED
  BY <1>1 DEF Next, OutsideStep

LEMMA OwnerFacts ==
  ASSUME MemberInv
  PROVE  /\ owner \in Consumers /\ MemberOK(owner) /\ offset \in Nat /\ Len(log) \in Nat
         /\ position[owner] \in Nat /\ position[owner] <= Len(log)
         /\ \A i \in 1..Len(log) : log[i] \in Events \cup Malformed
         /\ pc \in [Consumers -> Working \cup {"poll", "stopped"}]
         /\ position \in [Consumers -> Nat]
         /\ message \in [Consumers -> Events \cup Malformed \cup {Nothing}]
         /\ Events \cap Malformed = {}
<1>1. /\ log \in Seq(Events \cup Malformed)
      /\ GroupTypes /\ MemberTypes
      /\ \A c \in Consumers : MemberOK(c)
  BY DEF MemberInv
<1>2. owner \in Consumers /\ offset \in Nat
  BY <1>1 DEF GroupTypes
<1>3. Len(log) \in Nat /\ \A i \in 1..Len(log) : log[i] \in Events \cup Malformed
  BY <1>1
<1>4. /\ pc \in [Consumers -> Working \cup {"poll", "stopped"}]
      /\ message \in [Consumers -> Events \cup Malformed \cup {Nothing}]
  BY <1>1 DEF MemberTypes
<1>5. position \in [Consumers -> Nat]
  BY <1>1 DEF MemberTypes
<1>6. position[owner] \in Nat /\ position[owner] <= Len(log)
  BY <1>1, <1>2, <1>5, PositionTypes
<1>7. Events \cap Malformed = {}
  BY PipelineAssumption
<1> QED
  BY <1>1, <1>2, <1>3, <1>4, <1>5, <1>6, <1>7

LEMMA OutsideOrder ==
  ASSUME PublisherInv, MemberInv, QueueInv, OrderInv, OutsideStep
  PROVE  OrderInv'
<1>1. /\ UNCHANGED <<offset, owner, position, pc, message, party, processed, screened>>
      /\ log' = log \/ \E x \in Events \cup Malformed : log' = Append(log, x)
  BY OutsideFacts
<1>2. dlq' = dlq
  BY DEF OutsideStep, WriteEvent, ForeignMessage, PublisherStep, FetchRows, Send,
     MarkPublished, AbandonBatch, vars, resultVars
<1>3. \A i \in 1..Len(log) : log'[i] = log[i]
  BY <1>1 DEF MemberInv
<1>4. position[owner] \in Nat /\ Len(log) \in Nat /\ position[owner] <= Len(log)
  BY OwnerFacts
<1>5. \A j \in 1..position[owner] : log'[j] = log[j]
  BY <1>3, <1>4
<1>6. LetGoOf' = LetGoOf /\ LetGoOf \subseteq 1..position[owner]
  BY <1>1 DEF LetGoOf
<1>7. \A j \in LetGoOf' : Kept(j)'
  BY <1>1, <1>2, <1>5, <1>6 DEF OrderInv, Kept
<1>8. 1..(position[owner] - 1) \subseteq 1..position[owner]
  BY <1>4
<1>9. offset > 0 => log'[offset] = log[offset]
  <2>1. offset \in Nat /\ offset <= position[owner]
    BY OwnerFacts DEF QueueInv
  <2> QED
    BY <1>4, <1>5, <2>1
<1> QED
  BY <1>1, <1>2, <1>5, <1>7, <1>8, <1>9 DEF OrderInv

LEMMA PollOrder ==
  ASSUME MemberInv, QueueInv, OrderInv, Poll(owner)
  PROVE  OrderInv'
<1> DEFINE i == position[owner] + 1
           l == IF log[i] \in Malformed THEN "failed" ELSE "dedupe"
<1>1. /\ UNCHANGED <<log, offset, owner, processed, dlq>> /\ pc[owner] = "poll"
      /\ i <= Len(log)
      /\ position' = [position EXCEPT ![owner] = i]
      /\ message' = [message EXCEPT ![owner] = log[i]]
      /\ pc' = [pc EXCEPT ![owner] = l]
  BY DEF Poll, TakeNext, Goto, resultVars
<1>2. /\ owner \in Consumers /\ position[owner] \in Nat /\ offset \in Nat
      /\ offset <= position[owner]
  BY OwnerFacts DEF QueueInv
<1>3. position'[owner'] = i /\ message'[owner'] = log[i] /\ pc'[owner'] = l
  BY <1>1, OwnerFacts
<1>4. \A c \in Consumers \ {owner} : pc'[c] = pc[c]
  BY <1>1, OwnerFacts
<1>5. l # "poll" /\ offset < i
  BY <1>2
<1>6. LetGoOf' = LetGoOf
  <2>1. LetGoOf = 1..position[owner]
    BY <1>1 DEF LetGoOf
  <2>2. LetGoOf' = {j \in 1..i : j < i}
    BY <1>3, <1>5 DEF LetGoOf
  <2> QED
    BY <1>2, <2>1, <2>2
<1>7. \A j \in LetGoOf' : Kept(j)'
  BY <1>1, <1>6 DEF OrderInv, Kept
<1>8. l = "failed" => log[i] \in Malformed
  OBVIOUS
<1>9. l \notin {"mark", "screen", "announce", "commit"}
  OBVIOUS
<1> HIDE DEF i, l
<1> QED
  BY <1>1, <1>3, <1>4, <1>5, <1>7, <1>8, <1>9 DEF OrderInv

(* The owner stays on its message. *)
LEMMA OwnerMoves ==
  ASSUME MemberInv, OrderInv, NEW l \in Working,
         pc[owner] \in Working, pc' = [pc EXCEPT ![owner] = l],
         UNCHANGED <<log, offset, owner, position, message, dlq>>,
         processed \subseteq processed',
         l # "failed",
         l \in {"mark", "screen", "announce"} =>
           \A j \in 1..(position[owner] - 1) : log[j] # message[owner],
         l \in {"screen", "announce", "commit"} => message[owner] \in processed'
  PROVE  OrderInv'
<1>1. owner \in Consumers /\ pc'[owner] = l
  BY OwnerFacts
<1>2. \A c \in Consumers \ {owner} : pc'[c] = pc[c]
  BY OwnerFacts
<1>3. pc[owner] # "poll" /\ l # "poll"
  BY DEF Working
<1>4. LetGoOf' = LetGoOf
  BY <1>1, <1>3 DEF LetGoOf
<1>5. \A j \in LetGoOf' : Kept(j)'
  BY <1>4 DEF OrderInv, Kept
<1> QED
  BY <1>1, <1>2, <1>3, <1>5 DEF OrderInv

LEMMA OwnerOrder ==
  ASSUME MemberInv, OrderInv, OwnerStep
  PROVE  OrderInv'
<1>0. /\ UNCHANGED <<log, offset, owner, position, message, dlq>>
      /\ pc[owner] \in {"dedupe", "mark", "screen", "announce"}
      /\ processed \subseteq processed'
  BY DEF OwnerStep, CheckDuplicate, MarkEventProcessed, WriteComplianceEvent,
     AnnounceResult, workVars, resultVars
<1>00. pc[owner] \in Working /\ {"mark", "screen", "announce", "commit"} \subseteq Working
  BY <1>0 DEF Working
<1>1. CASE CheckDuplicate(owner)
  <2>1. /\ pc[owner] = "dedupe" /\ processed' = processed
        /\ \/ message[owner] \in processed /\ pc' = [pc EXCEPT ![owner] = "commit"]
           \/ message[owner] \notin processed /\ pc' = [pc EXCEPT ![owner] = "mark"]
    BY <1>1 DEF CheckDuplicate, Goto, resultVars
  <2>2. ASSUME message[owner] \notin processed, NEW j \in 1..(position[owner] - 1)
        PROVE  log[j] # message[owner]
    <3>1. position[owner] \in Nat /\ message[owner] \in Events /\ Events \cap Malformed = {}
      BY <2>1, OwnerFacts DEF MemberOK, Working
    <3>2. j \in LetGoOf
      BY <3>1 DEF LetGoOf
    <3>3. Kept(j)
      BY <3>2 DEF OrderInv
    <3> QED
      BY <2>2, <3>1, <3>3 DEF Kept
  <2> QED
    BY <1>0, <1>00, <2>1, <2>2, OwnerMoves
<1>2. CASE MarkEventProcessed(owner)
  <2>1. /\ pc[owner] = "mark" /\ pc' = [pc EXCEPT ![owner] = "screen"]
        /\ message[owner] \in processed'
    BY <1>2 DEF MarkEventProcessed, Goto
  <2>2. \A j \in 1..(position[owner] - 1) : log[j] # message[owner]
    BY <2>1 DEF OrderInv
  <2> QED
    BY <1>0, <1>00, <2>1, <2>2, OwnerMoves
<1>3. CASE WriteComplianceEvent(owner)
  <2>1. /\ pc[owner] = "screen" /\ pc' = [pc EXCEPT ![owner] = "announce"]
        /\ processed' = processed
    BY <1>3 DEF WriteComplianceEvent, Goto
  <2>2. /\ \A j \in 1..(position[owner] - 1) : log[j] # message[owner]
        /\ message[owner] \in processed'
    BY <2>1 DEF OrderInv
  <2> QED
    BY <1>0, <1>00, <2>1, <2>2, OwnerMoves
<1>4. CASE AnnounceResult(owner)
  <2>1. /\ pc[owner] = "announce" /\ processed' = processed
        /\ \/ pc' = [pc EXCEPT ![owner] = "screen"]
           \/ pc' = [pc EXCEPT ![owner] = "commit"]
    BY <1>4 DEF AnnounceResult, PartyDone, Goto
  <2>2. /\ \A j \in 1..(position[owner] - 1) : log[j] # message[owner]
        /\ message[owner] \in processed'
    BY <2>1 DEF OrderInv
  <2> QED
    BY <1>0, <1>00, <2>1, <2>2, OwnerMoves
<1> QED
  BY <1>1, <1>2, <1>3, <1>4 DEF OwnerStep

(* The owner commits, after a screening or after a dead letter, or goes    *)
(* back to polling without either.                                         *)
LEMMA CommitOrder ==
  ASSUME MemberInv, OrderInv, CommitOffset(owner) \/ SendToDlq(owner) \/ Backoff(owner)
  PROVE  OrderInv'
<1> DEFINE i == position[owner]
<1>1. /\ UNCHANGED <<log, owner, position, processed>>
      /\ pc' = [pc EXCEPT ![owner] = "poll"] /\ dlq \subseteq dlq'
      /\ pc[owner] \in {"commit", "failed"}
      /\ \/ offset' = offset
         \/ offset' = i /\ (pc[owner] = "failed" => i \in dlq')
  BY DEF CommitOffset, SendToDlq, Backoff, Resume, Goto, resultVars
<1>2. /\ owner \in Consumers /\ pc'[owner'] = "poll" /\ i \in Nat
      /\ \A c \in Consumers \ {owner} : pc'[c] = pc[c]
  BY <1>1, OwnerFacts
<1>3. message[owner] = log[i]
  BY <1>1, OwnerFacts DEF MemberOK, Working
<1>4. Kept(i)'
  <2>1. CASE pc[owner] = "commit"
    <3>1. message[owner] \in Events /\ message[owner] \in processed /\ Events \cap Malformed = {}
      BY <2>1, OwnerFacts DEF OrderInv, MemberOK, Working
    <3> QED
      BY <1>1, <1>3, <3>1 DEF Kept
  <2>2. CASE pc[owner] = "failed"
    BY <1>1, <1>3, <2>2, OwnerFacts DEF OrderInv, Kept
  <2> QED
    BY <1>1, <2>1, <2>2
<1>5. ASSUME NEW j \in 1..i PROVE Kept(j)'
  <2>1. CASE j = i
    BY <1>1, <1>4, <2>1 DEF Kept
  <2>2. CASE j < i
    <3>1. j \in LetGoOf
      BY <2>2 DEF LetGoOf
    <3>2. Kept(j)
      BY <3>1 DEF OrderInv
    <3> QED
      BY <1>1, <3>2 DEF Kept
  <2> QED
    BY <1>2, <2>1, <2>2
<1>6. LetGoOf' \subseteq 1..i
  BY <1>1 DEF LetGoOf
<1>7. ASSUME offset' > 0, log'[offset'] \in Malformed PROVE offset' \in dlq'
  <2>1. CASE offset' = offset
    BY <1>1, <1>7, <2>1 DEF OrderInv
  <2>2. CASE offset' = i /\ (pc[owner] = "failed" => i \in dlq')
    <3>1. pc[owner] = "commit" => log[i] \in Events /\ Events \cap Malformed = {}
      BY <1>3, OwnerFacts DEF MemberOK, Working
    <3> QED
      BY <1>1, <1>7, <2>2, <3>1
  <2> QED
    BY <1>1, <2>1, <2>2
<1> QED
  BY <1>1, <1>2, <1>5, <1>6, <1>7 DEF OrderInv

LEMMA NextOrder ==
  ASSUME Calm, PipelineInv, OrderInv, [Next]_vars
  PROVE  OrderInv'
BY CalmSteps, OutsideOrder, PollOrder, OwnerOrder, CommitOrder DEF PipelineInv

(* Without failures nothing is owed, so what the owner has let go of and   *)
(* marked is screened: the one message still being screened is not among   *)
(* the committed ones.                                                     *)
LEMMA CalmHandled ==
  ASSUME Calm, PipelineInv, OrderInv
  PROVE  OnlyUnreadablePassed
<1> SUFFICES ASSUME NEW i \in 1..offset
             PROVE  i \in dlq \/ ScreenedInFull(i) \/ (log[i] \in Malformed /\ i < offset)
  BY DEF OnlyUnreadablePassed
<1>0. MemberInv /\ FaultsBounded /\ LossInv /\ QueueInv
  BY DEF PipelineInv
<1>1. /\ owner \in Consumers /\ offset \in Nat /\ position[owner] \in Nat /\ Len(log) \in Nat
      /\ offset <= position[owner] /\ position[owner] <= Len(log)
  BY <1>0, OwnerFacts DEF QueueInv
<1>2. i \in 1..Len(log) /\ i \in 1..position[owner]
  BY <1>1
<1>3. log[i] \in Events \cup Malformed
  BY <1>0, <1>2, OwnerFacts
<1>4. pc[owner] # "poll" => i < position[owner]
  BY <1>1 DEF OrderInv
<1>5. Kept(i)
  <2>1. i \in LetGoOf
    BY <1>2, <1>4 DEF LetGoOf
  <2> QED
    BY <2>1 DEF OrderInv
<1>6. CASE log[i] \in Malformed
  <2>1. CASE i = offset
    BY <1>1, <1>6, <2>1 DEF OrderInv
  <2>2. CASE i # offset
    BY <1>1, <1>6, <2>2
  <2> QED
    BY <2>1, <2>2
<1>7. CASE log[i] \in Events
  <2> SUFFICES ASSUME NEW k \in DOMAIN Parties[log[i]] PROVE screened[log[i]][k] > 0
    BY <1>7 DEF ScreenedInFull
  <2>1. Cared(log[i])
    <3>1. PICK owed \in SUBSET Events : Owed(owed)
      BY <1>0 DEF LossInv
    <3>2. Cardinality(owed) \in Nat /\ IsFiniteSet(owed)
      BY <3>1, FS_CardinalityType DEF Owed
    <3>3. faults.crash = 0 /\ faults.consumer = 0
      BY <1>0 DEF FaultsBounded, Calm
    <3>4. Cardinality(owed) = 0
      BY <3>1, <3>2, <3>3 DEF Owed
    <3>5. owed = {}
      BY <3>2, <3>4, FS_EmptySet
    <3>6. Dealt(log[i])
      BY <1>2, <1>7 DEF Dealt, Behind
    <3> QED
      BY <1>7, <3>1, <3>5, <3>6 DEF Owed
  <2>2. StillToScreen(log[i], k) = {}
    <3> SUFFICES ASSUME NEW c \in StillToScreen(log[i], k) PROVE FALSE
      OBVIOUS
    <3>1. c \in Consumers /\ message[c] = log[i] /\ pc[c] \in {"screen", "announce"}
      BY DEF StillToScreen
    <3>2. c = owner
      BY <3>1 DEF OrderInv
    <3>3. i < position[owner]
      BY <1>4, <3>1, <3>2
    <3>4. i \in 1..(position[owner] - 1)
      BY <1>1, <3>3
    <3> QED
      BY <3>1, <3>2, <3>4 DEF OrderInv
  <2> QED
    BY <2>1, <2>2 DEF Cared
<1> QED
  BY <1>3, <1>6, <1>7

(* "Manual offset commits only after the handler succeeds", as far as it   *)
(* goes: in a group in which no transaction fails, no member restarts and  *)
(* none loses the partition, whatever the retry count and the publishers,  *)
(* and however often an event is in the log, every committed event was     *)
(* screened for every party; an unreadable message that is not dead-       *)
(* lettered may be passed, but only by the commit of a later one.          *)
THEOREM CalmGroupHandles ==
  ASSUME Calm
  PROVE  Spec => []OnlyUnreadablePassed
<1>1. PipelineInv /\ OrderInv /\ [Next]_vars => OrderInv'
  BY NextOrder
<1>2. PipelineInv /\ OrderInv => OnlyUnreadablePassed
  BY CalmHandled
<1> QED
  BY <1>1, <1>2, InitOrder, PipelineInvariant, PTL DEF Spec

=============================================================================

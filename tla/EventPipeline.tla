---------------------------- MODULE EventPipeline ----------------------------
(***************************************************************************)
(* The way of an event from the transaction that caused it to its          *)
(* screening: the outbox_events table, the outbox publishers               *)
(* (services/outbox-publisher/main.py), one Kafka partition, the consumer  *)
(* loops of a group (shared/kafka_client.py) and the compliance monitor's  *)
(* handler (services/compliance-monitor/main.py).                          *)
(*                                                                         *)
(* A publisher's batch is one database transaction that holds its rows FOR *)
(* UPDATE while it sends them one by one.  A consumer's handler is a chain *)
(* of separate short transactions, so each is an action.  The partition    *)
(* belongs to one member of the group at a time; a member that loses it    *)
(* while it handles a message goes on, and its commit is refused.          *)
(***************************************************************************)
EXTENDS Integers, FiniteSets, SequencesExt

CONSTANTS
  Publishers,         \* outbox publisher instances
  Consumers,          \* members of the consumer group
  Events,             \* events the services write to their outbox
  Malformed,          \* messages of other producers that are not JSON objects
  Parties,            \* the accounts an event has screened, in order
  BatchSize,          \* LIMIT of the publisher's query
  MaxHandlerRetries,  \* max_handler_retries
  MaxPublisherFaults, \* bound on failed publisher batches
  MaxConsumerFaults,  \* bound on failed transactions of the handler
  MaxConsumerCrashes, \* bound on restarts of a consumer
  MaxRebalances,      \* bound on reassignments of the partition
  Nothing             \* "no message"

ASSUME PipelineAssumption ==
  /\ IsFiniteSet(Events) /\ IsFiniteSet(Malformed)
  /\ Events \cap Malformed = {}
  /\ Nothing \notin Events \cup Malformed
  /\ \A e \in Events : Parties[e] \in Seq(STRING) /\ Parties[e] # <<>>
  /\ BatchSize \in Nat \ {0} /\ MaxHandlerRetries \in Nat \ {0}
  /\ {MaxPublisherFaults, MaxConsumerFaults, MaxConsumerCrashes, MaxRebalances}
       \subseteq Nat

VARIABLES
  createdAt,  \* created_at of each event's outbox row (0: no row yet)
  published,  \* events whose row has published_at set
  batch,      \* per publisher, the rows its transaction holds, in order
  sent,       \* per publisher, how many of them Kafka has acknowledged
  log,        \* the partition
  offset,     \* the group's committed offset: messages 1..offset are done
  owner,      \* the member the partition is assigned to
  position,   \* per member: messages 1..position have been polled
  pc,         \* what it does next
  message,    \* the message it handles
  party,      \* which of the message's parties it is screening
  retries,    \* its _retry_tracker: failures per log position
  processed,  \* processed_events
  screened,   \* compliance_events: how often each event's parties are there
  alerts,     \* compliance.event rows the handler put in the outbox
  dlq,        \* log positions sent to the dead-letter topic
  faults      \* failures so far: [publisher, consumer, crash, rebalance]

tableVars == <<createdAt, published>>
publisherVars == <<batch, sent>>
workVars == <<message, party, retries>>
consumerVars == <<offset, owner, position, pc, workVars>>
resultVars == <<processed, screened, alerts, dlq>>
vars == <<tableVars, publisherVars, log, consumerVars, resultVars, faults>>

-----------------------------------------------------------------------------
(* Producers.                                                              *)

(* insert_outbox_event in a service's transaction.  created_at is the      *)
(* start of that transaction, so an older row may appear after a younger.  *)
WriteEvent(e) ==
  /\ createdAt[e] = 0
  /\ \E t \in 1..Cardinality(Events) :
       /\ \A f \in Events : createdAt[f] # t
       /\ createdAt' = [createdAt EXCEPT ![e] = t]
  /\ UNCHANGED <<published, publisherVars, log, consumerVars, resultVars, faults>>

(* Some other producer's message on a consumed topic. *)
ForeignMessage(m) ==
  /\ m \notin ToSet(log)
  /\ log' = Append(log, m)
  /\ UNCHANGED <<tableVars, publisherVars, consumerVars, resultVars, faults>>

-----------------------------------------------------------------------------
(* publish_batch.                                                          *)

(* WHERE published_at IS NULL ... FOR UPDATE SKIP LOCKED *)
Unpublished ==
  {e \in Events : createdAt[e] > 0 /\ e \notin published
                    /\ \A p \in Publishers : e \notin ToSet(batch[p])}

(* ORDER BY created_at LIMIT BatchSize *)
IsBatch(q) ==
  /\ \A i, j \in DOMAIN q : i < j => createdAt[q[i]] < createdAt[q[j]]
  /\ \A e \in Unpublished :
       e \in ToSet(q) \/ (Len(q) = BatchSize /\ createdAt[Last(q)] < createdAt[e])

FetchAndMark(p) ==
  /\ batch[p] = <<>>
  /\ \E n \in 1..BatchSize : \E q \in [1..n -> Unpublished] :
       /\ IsBatch(q)
       /\ batch' = [batch EXCEPT ![p] = q]
       /\ published' = published \cup ToSet(q)
  /\ UNCHANGED <<createdAt, sent, log, consumerVars, resultVars, faults>>

FetchRows(p) ==
  /\ batch[p] = <<>>
  /\ \E n \in 1..BatchSize : \E q \in [1..n -> Unpublished] :
       /\ IsBatch(q)
       /\ batch' = [batch EXCEPT ![p] = q]
  /\ UNCHANGED <<tableVars, sent, log, consumerVars, resultVars, faults>>

Sending(p) == sent[p] < Len(batch[p])

(* send_and_wait, acknowledged *)
Send(p) ==
  /\ Sending(p)
  /\ log' = Append(log, batch[p][sent[p] + 1])
  /\ sent' = [sent EXCEPT ![p] = @ + 1]
  /\ UNCHANGED <<tableVars, batch, consumerVars, resultVars, faults>>

EndBatch(p) ==
  /\ batch' = [batch EXCEPT ![p] = <<>>]
  /\ sent' = [sent EXCEPT ![p] = 0]

MarkPublished(p) ==
  /\ batch[p] # <<>> /\ ~Sending(p)
  /\ published' = published \cup ToSet(batch[p])
  /\ EndBatch(p)
  /\ UNCHANGED <<createdAt, log, consumerVars, resultVars, faults>>

(* A crash, a database error or a failed send ends the transaction without *)
(* marking any row.  A send that timed out may have reached the log.       *)
AbandonBatch(p) ==
  /\ batch[p] # <<>>
  /\ faults.publisher < MaxPublisherFaults
  /\ faults' = [faults EXCEPT !.publisher = @ + 1]
  /\ \/ log' = log
     \/ Sending(p) /\ log' = Append(log, batch[p][sent[p] + 1])
  /\ EndBatch(p)
  /\ UNCHANGED <<tableVars, consumerVars, resultVars>>

-----------------------------------------------------------------------------
(* consume_loop and handle_event.                                          *)

Goto(c, label) == pc' = [pc EXCEPT ![c] = label]

(* Back to poll, whatever became of the message. *)
Resume(c) ==
  /\ Goto(c, "poll")
  /\ message' = [message EXCEPT ![c] = Nothing]

TakeNext(c) ==
  LET i == position[c] + 1
  IN  /\ pc[c] = "poll"
      /\ owner = c
      /\ i <= Len(log)
      /\ position' = [position EXCEPT ![c] = i]
      /\ message' = [message EXCEPT ![c] = log[i]]
      /\ party' = [party EXCEPT ![c] = 1]
      /\ Goto(c, IF log[i] \in Malformed THEN "failed" ELSE "dedupe")

PollCommitting(c) ==
  /\ TakeNext(c)
  /\ offset' = position[c] + 1
  /\ UNCHANGED <<tableVars, publisherVars, log, owner, retries, resultVars, faults>>

(* poll returns the next message, whatever became of the last one. *)
Poll(c) ==
  /\ TakeNext(c)
  /\ UNCHANGED <<tableVars, publisherVars, log, offset, owner, retries, resultVars,
                 faults>>

(* A transaction of the handler, or a call of the broker, fails. *)
Fault ==
  /\ faults.consumer < MaxConsumerFaults
  /\ faults' = [faults EXCEPT !.consumer = @ + 1]

(* max_errors poll errors in a row: the loop raises, closes its consumer   *)
(* and its thread ends.                                                    *)
PollErrors(c) ==
  /\ pc[c] = "poll"
  /\ Fault
  /\ Goto(c, "stopped")
  /\ UNCHANGED <<tableVars, publisherVars, log, offset, owner, position, workVars,
                 resultVars>>

(* is_duplicate_event *)
CheckDuplicate(c) ==
  /\ pc[c] = "dedupe"
  /\ Goto(c, IF message[c] \in processed THEN "commit" ELSE "mark")
  /\ UNCHANGED <<tableVars, publisherVars, log, offset, owner, position, workVars,
                 resultVars, faults>>

MarkLater(c) ==
  /\ pc[c] = "mark"
  /\ Goto(c, "screen")
  /\ UNCHANGED <<tableVars, publisherVars, log, offset, owner, position, workVars,
                 resultVars, faults>>

(* mark_event_processed and the commit.  When another member has marked    *)
(* the event since the check, the primary key refuses the row, the handler *)
(* rolls back and goes on all the same.                                    *)
MarkEventProcessed(c) ==
  /\ pc[c] = "mark"
  /\ processed' = processed \cup {message[c]}
  /\ Goto(c, "screen")
  /\ UNCHANGED <<tableVars, publisherVars, log, offset, owner, position, workVars,
                 screened, alerts, dlq, faults>>

(* So does a failed query or insert. *)
MarkFails(c) ==
  /\ pc[c] \in {"dedupe", "mark"}
  /\ Fault
  /\ Goto(c, "screen")
  /\ UNCHANGED <<tableVars, publisherVars, log, offset, owner, position, workVars,
                 resultVars>>

(* _run_screening for one party: the result row ... *)
WriteComplianceEvent(c) ==
  /\ pc[c] = "screen"
  /\ screened' = [screened EXCEPT ![message[c]][party[c]] = @ + 1]
  /\ Goto(c, "announce")
  /\ UNCHANGED <<tableVars, publisherVars, log, offset, owner, position, workVars,
                 processed, alerts, dlq, faults>>

(* ... whose failure is logged and forgotten. *)
WriteFails(c) ==
  /\ pc[c] = "screen"
  /\ Fault
  /\ Goto(c, "announce")
  /\ UNCHANGED <<tableVars, publisherVars, log, offset, owner, position, workVars,
                 resultVars>>

FirstPartyOnly(c) == Goto(c, "commit") /\ party' = party

(* On to the next party (an RTGS settlement has two), or to the commit. *)
PartyDone(c) ==
  IF party[c] < Len(Parties[message[c]])
  THEN Goto(c, "screen") /\ party' = [party EXCEPT ![c] = @ + 1]
  ELSE Goto(c, "commit") /\ party' = party

AnnounceResult(c) ==
  /\ pc[c] = "announce"
  /\ alerts' = [alerts EXCEPT ![message[c]][party[c]] = @ + 1]
  /\ PartyDone(c)
  /\ UNCHANGED <<tableVars, publisherVars, log, offset, owner, position, message,
                 retries, processed, screened, dlq, faults>>

AnnounceFails(c) ==
  /\ pc[c] = "announce"
  /\ Fault
  /\ PartyDone(c)
  /\ UNCHANGED <<tableVars, publisherVars, log, offset, owner, position, message,
                 retries, resultVars>>

Forget(c) == retries' = [retries EXCEPT ![c][position[c]] = 0]

CommitOneAhead(c) ==
  /\ pc[c] = "commit"
  /\ owner = c
  /\ offset' = position[c] + 1
  /\ Forget(c)
  /\ Resume(c)
  /\ UNCHANGED <<tableVars, publisherVars, log, owner, position, party, resultVars,
                 faults>>

CommitOffset(c) ==
  /\ pc[c] = "commit"
  /\ owner = c
  /\ offset' = position[c]
  /\ Forget(c)
  /\ Resume(c)
  /\ UNCHANGED <<tableVars, publisherVars, log, owner, position, party, resultVars,
                 faults>>

(* The partition belongs to another member: the broker refuses the commit. *)
Fenced(c) == owner # c /\ UNCHANGED faults

(* The commit raises, which counts as a failure of the handler. *)
CommitFails(c) ==
  /\ pc[c] = "commit"
  /\ Fenced(c) \/ Fault
  /\ Goto(c, "failed")
  /\ UNCHANGED <<tableVars, publisherVars, log, offset, owner, position, workVars,
                 resultVars>>

LastTry(c) == retries[c][position[c]] + 1 >= MaxHandlerRetries

(* Backoff: the loop sleeps and polls again. *)
Backoff(c) ==
  /\ pc[c] = "failed"
  /\ ~LastTry(c)
  /\ retries' = [retries EXCEPT ![c][position[c]] = @ + 1]
  /\ Resume(c)
  /\ UNCHANGED <<tableVars, publisherVars, log, offset, owner, position, party,
                 resultVars, faults>>

SendToDlq(c) ==
  /\ pc[c] = "failed"
  /\ LastTry(c)
  /\ owner = c
  /\ dlq' = dlq \cup {position[c]}
  /\ offset' = position[c]
  /\ Forget(c)
  /\ Resume(c)
  /\ UNCHANGED <<tableVars, publisherVars, log, owner, position, party, processed,
                 screened, alerts, faults>>

(* The commit after the dead letter raises too, and nobody catches that:   *)
(* the loop closes its consumer and its thread ends.                       *)
DlqCommitFails(c) ==
  /\ pc[c] = "failed"
  /\ LastTry(c)
  /\ Fenced(c) \/ Fault
  /\ dlq' = dlq \cup {position[c]}
  /\ Goto(c, "stopped")
  /\ message' = [message EXCEPT ![c] = Nothing]
  /\ UNCHANGED <<tableVars, publisherVars, log, offset, owner, position, party,
                 retries, processed, screened, alerts>>

(* A process restarts: its member polls from the committed offset and has  *)
(* forgotten its retry counts.                                             *)
ConsumerCrash(c) ==
  /\ faults.crash < MaxConsumerCrashes
  /\ faults' = [faults EXCEPT !.crash = @ + 1]
  /\ position' = [position EXCEPT ![c] = offset]
  /\ retries' = [retries EXCEPT ![c] = [i \in DOMAIN @ |-> 0]]
  /\ Resume(c)
  /\ party' = [party EXCEPT ![c] = 1]
  /\ UNCHANGED <<tableVars, publisherVars, log, offset, owner, resultVars>>

(* A member joins, leaves or exceeds max.poll.interval.ms: the partition   *)
(* goes to a member that is polling, which starts at the committed offset. *)
Rebalance(c) ==
  /\ owner # c
  /\ pc[c] = "poll"
  /\ faults.rebalance < MaxRebalances
  /\ faults' = [faults EXCEPT !.rebalance = @ + 1]
  /\ owner' = c
  /\ position' = [position EXCEPT ![c] = offset]
  /\ UNCHANGED <<tableVars, publisherVars, log, offset, pc, workVars, resultVars>>

-----------------------------------------------------------------------------

(* An event is sent once, and once more for each failed batch. *)
MaxLog == Cardinality(Events) * (1 + MaxPublisherFaults) + Cardinality(Malformed)

None == [e \in Events |-> [i \in DOMAIN Parties[e] |-> 0]]

Init ==
  /\ createdAt = [e \in Events |-> 0]
  /\ published = {}
  /\ batch = [p \in Publishers |-> <<>>]
  /\ sent = [p \in Publishers |-> 0]
  /\ log = <<>>
  /\ offset = 0
  /\ owner \in Consumers
  /\ position = [c \in Consumers |-> 0]
  /\ pc = [c \in Consumers |-> "poll"]
  /\ message = [c \in Consumers |-> Nothing]
  /\ party = [c \in Consumers |-> 1]
  /\ retries = [c \in Consumers |-> [i \in 1..MaxLog |-> 0]]
  /\ processed = {} /\ screened = None /\ alerts = None
  /\ dlq = {}
  /\ faults = [publisher |-> 0, consumer |-> 0, crash |-> 0, rebalance |-> 0]

PublisherStep(p) == FetchRows(p) \/ Send(p) \/ MarkPublished(p)

ConsumerStep(c) ==
  \/ Poll(c)
  \/ CheckDuplicate(c) \/ MarkEventProcessed(c)
  \/ WriteComplianceEvent(c) \/ AnnounceResult(c)
  \/ CommitOffset(c)
  \/ Backoff(c) \/ SendToDlq(c)

ConsumerFails(c) ==
  \/ PollErrors(c)
  \/ MarkFails(c) \/ WriteFails(c) \/ AnnounceFails(c)
  \/ CommitFails(c) \/ DlqCommitFails(c)
  \/ ConsumerCrash(c)

Next ==
  \/ \E e \in Events : WriteEvent(e)
  \/ \E m \in Malformed : ForeignMessage(m)
  \/ \E p \in Publishers : PublisherStep(p) \/ AbandonBatch(p)
  \/ \E c \in Consumers : ConsumerStep(c) \/ ConsumerFails(c) \/ Rebalance(c)

Spec == Init /\ [][Next]_vars

(* Both loops run forever and both processes are restarted. *)
Fairness ==
  /\ \A p \in Publishers : WF_vars(PublisherStep(p))
  /\ \A c \in Consumers : WF_vars(ConsumerStep(c))

FairSpec == Spec /\ Fairness

-----------------------------------------------------------------------------
(* Properties.                                                             *)

(* Every variable keeps its shape; no member is ahead of the log, and the  *)
(* owner of the partition is never behind the committed offset.            *)
PipelineTypeOK ==
  /\ createdAt \in [Events -> 0..Cardinality(Events)]
  /\ published \subseteq Events
  /\ batch \in [Publishers -> Seq(Events)]
  /\ \A p \in Publishers : sent[p] \in 0..Len(batch[p])
  /\ Len(log) <= MaxLog /\ ToSet(log) \subseteq Events \cup Malformed
  /\ 0 <= offset /\ offset <= position[owner]
  /\ \A c \in Consumers : position[c] <= Len(log)
  /\ message \in [Consumers -> Events \cup Malformed \cup {Nothing}]
  /\ processed \subseteq Events
  /\ dlq \subseteq 1..Len(log)
  /\ \A c \in Consumers : \A i \in DOMAIN retries[c] :
       retries[c][i] \in 0..(MaxHandlerRetries - 1)

(* At-least-once publication: a row marked published is in the topic,      *)
(* however the publishers share the rows and whichever batch is abandoned. *)
PublishedIsInLog == published \subseteq ToSet(log)

(* Duplicates in the topic and redelivery after a restart do not screen a  *)
(* party of an event again.  Only a failed dedupe transaction can, and a   *)
(* rebalance that lets two members check the same message at once; each    *)
(* adds one screening at most.                                             *)
ExtraScreeningsBounded ==
  \A e \in Events : \A i \in DOMAIN Parties[e] :
    screened[e][i] <= 1 + faults.consumer + faults.rebalance

(* Events the group has passed although a party of theirs is unscreened    *)
(* and no member is still at it.                                           *)
GivenUp ==
  {e \in Events :
     /\ \E i \in 1..offset : log[i] = e
     /\ \E k \in DOMAIN Parties[e] : screened[e][k] = 0
     /\ \A c \in Consumers : message[c] # e \/ pc[c] \notin {"screen", "announce"}}

(* What is lost is the doing of restarts and failed transactions, at most  *)
(* one event each: a rebalance alone, or an unreliable publisher, loses    *)
(* nothing.                                                                *)
LossesBounded == Cardinality(GivenUp) <= faults.crash + faults.consumer

(* A message was screened for every party. *)
ScreenedInFull(i) ==
  log[i] \in Events /\ \A k \in DOMAIN Parties[log[i]] : screened[log[i]][k] > 0

(* "Manual offset commits only after the handler succeeds": a message the  *)
(* group has passed for good was screened in full or dead-lettered.  Any   *)
(* failure refutes it: MCPipelineLost.cfg, MCPipelineSwallowed.cfg.        *)
CommittedIsHandled == \A i \in 1..offset : i \in dlq \/ ScreenedInFull(i)

(* What is left of it where no transaction fails, no member restarts and   *)
(* none loses the partition, with the retry count the services use: only   *)
(* an unreadable message is ever passed unhandled, and only because the    *)
(* offset of a later message was committed; its own never is.              *)
OnlyUnreadablePassed ==
  \A i \in 1..offset :
    i \in dlq \/ ScreenedInFull(i) \/ (log[i] \in Malformed /\ i < offset)

(* Every event a service commits is eventually screened, for every party.  *)
EverythingScreened ==
  \A e \in Events :
    createdAt[e] > 0 ~> \A i \in DOMAIN Parties[e] : screened[e][i] > 0

(* "retries up to max_handler_retries ... then routes to the DLQ topic": a *)
(* message no handler can take ends in the dead-letter topic.              *)
PoisonReachesDlq ==
  \A m \in Malformed : m \in ToSet(log) ~> \E i \in dlq : log[i] = m

=============================================================================

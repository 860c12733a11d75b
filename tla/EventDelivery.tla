---------------------------- MODULE EventDelivery ----------------------------
(***************************************************************************)
(* The event path of packages/common/event_bus/kafka_producer.py: one      *)
(* KafkaProducer with its in-memory outbox and relay task, one partition   *)
(* of one topic, and one KafkaConsumer with its retry loop and its set of  *)
(* processed ids.  Each section under _outbox_lock is free of awaits, so a *)
(* producer step runs from one await to the next; the relay can be caught  *)
(* by publish() and by stop() wherever it awaits send_and_wait.            *)
(*                                                                         *)
(* Either process may end, in order or not, and a new one takes its place. *)
(* What it kept in memory is gone: the outbox is a list (line 154), not    *)
(* the table the module's docstring speaks of (lines 16-18).  start() is   *)
(* called once per process; nothing in the repository starts a stopped     *)
(* producer or consumer again.                                             *)
(*                                                                         *)
(* Kafka is external.  While it is down, or out of order for as long as    *)
(* one call, sends and commits fail, and a failed send may have been       *)
(* stored all the same; a record it refuses fails always.  Events have     *)
(* unique ids, so an event is published once.  The statistics are left     *)
(* out.  accepted, lost, successes and dead are history variables.         *)
(***************************************************************************)
EXTENDS Naturals, Sequences, SequencesExt

CONSTANTS
  Events,
  Subscribed,   (* the events whose type has a handler                     *)
  MAX_RETRIES,
  Refused,      (* records no broker takes, such as oversized ones         *)
  MaxOutages,   (* bound: times Kafka goes down                            *)
  MaxEnds,      (* bound: times the producer's process ends                *)
  MaxRestarts,  (* bound: times the consumer's process ends                *)
  MaxLog        (* bound: length of the log an unacknowledged send extends *)

ASSUME DeliveryAssumption ==
  /\ Subscribed \subseteq Events /\ Refused \subseteq Events
  /\ {MAX_RETRIES, MaxOutages, MaxEnds, MaxRestarts, MaxLog} \subseteq Nat

VARIABLES
  relay, connected,     (* producer: not started, running or stopped; and
                           whether _producer is not None                   *)
  _outbox,
  batch,                (* what _drain_outbox has taken and not yet sent;
                           the relay awaits the sending of its head        *)
  up, log,              (* Kafka: reachable, the records it stores         *)
  position, committed,  (* consumer: records fetched, records committed    *)
  loop,                 (* not started, running, stopped, or in stub mode  *)
  at, attempt,          (* where _consume_loop is, and its retry counter   *)
  _processed_ids,
  accepted, lost,       (* events publish() took; that ended with a process*)
  successes, dead,      (* times a handler succeeded; events given up      *)
  outages, ends, restarts

producer == <<relay, connected, _outbox, batch, accepted, lost, ends>>
kafka    == <<up, outages>>
consumer == <<loop, position, committed, at, attempt, _processed_ids,
              successes, dead, restarts>>
vars     == <<producer, kafka, log, consumer>>

TypeOK ==
  /\ relay \in {"none", "running", "stopped"}
  /\ connected \in BOOLEAN /\ up \in BOOLEAN
  /\ _outbox \in Seq(Events) /\ batch \in Seq(Events) /\ log \in Seq(Events)
  /\ position \in 0..Len(log) /\ committed \in 0..position
  /\ loop \in {"none", "stub", "running", "stopped"}
  /\ at \in {"poll", "handle", "commit"}
  /\ attempt \in 0..MAX_RETRIES
  /\ _processed_ids \subseteq Subscribed
  /\ accepted \subseteq Events /\ lost \subseteq accepted
  /\ successes \in [Events -> Nat] /\ dead \subseteq Subscribed
  /\ outages \in 0..MaxOutages /\ ends \in 0..MaxEnds
  /\ restarts \in 0..MaxRestarts

Init ==
  /\ relay = "none" /\ connected = FALSE /\ loop = "none"
  /\ _outbox = <<>> /\ batch = <<>> /\ log = <<>>
  /\ up \in BOOLEAN
  /\ position = 0 /\ committed = 0
  /\ at = "poll" /\ attempt = 0
  /\ _processed_ids = {}
  /\ accepted = {} /\ lost = {}
  /\ successes = [e \in Events |-> 0] /\ dead = {}
  /\ outages = 0 /\ ends = 0 /\ restarts = 0

-----------------------------------------------------------------------------
(* Plausible bugs: each stands in for one action below, to show that the   *)
(* properties notice it.                                                   *)

\* The outbox is copied but not cleared.
DrainKeepsOutbox ==
  /\ relay = "running" /\ connected
  /\ batch = <<>> /\ _outbox # <<>>
  /\ batch' = _outbox
  /\ UNCHANGED <<relay, connected, _outbox, accepted, lost, ends,
                 kafka, log, consumer>>

\* The outbox is cleared when the last send is over, not when it is copied.
SendClearsOutbox ==
  /\ relay = "running" /\ batch # <<>>
  /\ up /\ Head(batch) \notin Refused
  /\ log' = Append(log, Head(batch))
  /\ batch' = Tail(batch)
  /\ _outbox' = IF batch' = <<>> THEN <<>> ELSE _outbox
  /\ UNCHANGED <<relay, connected, accepted, lost, ends, kafka, consumer>>

\* A failed send ends the drain before the event is queued again.
SendFailsUnqueued ==
  /\ relay = "running" /\ batch # <<>>
  /\ ~up \/ Head(batch) \in Refused
  /\ batch' = Tail(batch)
  /\ log' = log
  /\ UNCHANGED <<relay, connected, _outbox, accepted, lost, ends,
                 kafka, consumer>>

\* The offset is committed as soon as a record is fetched.
PollCommits ==
  /\ loop = "running" /\ up
  /\ at = "poll" /\ position < Len(log)
  /\ position' = position + 1
  /\ committed' = position'
  /\ attempt' = 0
  /\ at' = IF log[position'] \in Subscribed \ _processed_ids
           THEN "handle" ELSE "commit"
  /\ UNCHANGED <<loop, _processed_ids, successes, dead, restarts,
                 producer, kafka, log>>

\* The retry test is off by one.
RetryOnceMore ==
  /\ at = "handle"
  /\ attempt < MAX_RETRIES + 1
  /\ attempt' = attempt + 1
  /\ UNCHANGED <<loop, position, committed, at, _processed_ids, successes, dead,
                 restarts, producer, kafka, log>>

\* A success is not remembered.
SucceedForgets ==
  /\ at = "handle"
  /\ successes' = [successes EXCEPT ![log[position]] = @ + 1]
  /\ at' = "commit"
  /\ UNCHANGED <<loop, position, committed, attempt, _processed_ids, dead, restarts,
                 producer, kafka, log>>

-----------------------------------------------------------------------------
(* KafkaProducer.                                                          *)

publish(e) ==
  /\ e \notin accepted
  /\ accepted' = accepted \cup {e}
  /\ _outbox' = Append(_outbox, e)
  /\ UNCHANGED <<relay, connected, batch, lost, ends, kafka, log, consumer>>

(* A producer that cannot connect is dropped, and no later step creates    *)
(* another: for the rest of its process the relay runs in outbox-only mode.*)
start ==
  /\ relay = "none"
  /\ relay' = "running"
  /\ connected' = up
  /\ UNCHANGED <<_outbox, batch, accepted, lost, ends, kafka, log, consumer>>

\* The record whose send is under way, or has failed, is stored.
StoredAnyway ==
  /\ batch # <<>> /\ Head(batch) \notin Refused
  /\ Len(log) < MaxLog
  /\ log' = Append(log, Head(batch))

(* Cancels the relay.  The event it is sending is stored or not; what is   *)
(* left of its batch exists nowhere else.                                  *)
CancelRelay ==
  /\ batch' = <<>>
  /\ \/ log' = log /\ lost' = lost \cup ToSet(batch)
     \/ StoredAnyway /\ lost' = lost \cup ToSet(Tail(batch))

(* The outbox is kept, and publish() goes on adding to it, but the process *)
(* is about to exit and nothing drains it any more.                        *)
stop ==
  /\ relay = "running" /\ ends < MaxEnds
  /\ relay' = "stopped"
  /\ CancelRelay
  /\ UNCHANGED <<connected, _outbox, accepted, ends, kafka, consumer>>

\* The process exits after stop(), or dies anywhere, and a new one begins.
ProducerEnds ==
  /\ ends < MaxEnds
  /\ ends' = ends + 1
  /\ relay' = "none" /\ connected' = FALSE
  /\ _outbox' = <<>> /\ batch' = <<>>
  /\ \/ log' = log /\ lost' = lost \cup ToSet(_outbox \o batch)
     \/ StoredAnyway /\ lost' = lost \cup ToSet(_outbox \o Tail(batch))
  /\ UNCHANGED <<accepted, kafka, consumer>>

(* _drain_outbox, first section.  Without a connection the whole drain has *)
(* no await in it and puts every event back in order: a stuttering step.   *)
Drain ==
  /\ relay = "running" /\ connected
  /\ batch = <<>> /\ _outbox # <<>>
  /\ batch' = _outbox
  /\ _outbox' = <<>>
  /\ UNCHANGED <<relay, connected, accepted, lost, ends, kafka, log, consumer>>

(* _publish_to_kafka returns True.                                         *)
SendSucceeds ==
  /\ relay = "running" /\ batch # <<>>
  /\ up /\ Head(batch) \notin Refused
  /\ log' = Append(log, Head(batch))
  /\ batch' = Tail(batch)
  /\ UNCHANGED <<relay, connected, _outbox, accepted, lost, ends, kafka, consumer>>

(* It returns False: the event goes back to the end of the outbox.         *)
SendFails ==
  /\ relay = "running" /\ batch # <<>>
  /\ ~up \/ Head(batch) \in Refused
  /\ batch' = Tail(batch)
  /\ _outbox' = Append(_outbox, Head(batch))
  /\ log' = log \/ StoredAnyway
  /\ UNCHANGED <<relay, connected, accepted, lost, ends, kafka, consumer>>

-----------------------------------------------------------------------------
(* KafkaConsumer: _consume_loop and _process_message.                      *)

(* A consumer that cannot connect ends in stub mode: its loop returns at   *)
(* once and nothing is consumed for the rest of its process.               *)
ConsumerStart ==
  /\ loop = "none"
  /\ loop' = IF up THEN "running" ELSE "stub"
  /\ UNCHANGED <<position, committed, at, attempt, _processed_ids, successes,
                 dead, restarts, producer, kafka, log>>

(* The handler under way goes on, but what it did is not committed.        *)
ConsumerStop ==
  /\ loop \in {"running", "stub"} /\ restarts < MaxRestarts
  /\ loop' = "stopped"
  /\ UNCHANGED <<position, committed, at, attempt, _processed_ids, successes,
                 dead, restarts, producer, kafka, log>>

(* Fetches the next record; a duplicate, or an event without a handler, is *)
(* passed over.                                                            *)
Poll ==
  /\ loop = "running" /\ up
  /\ at = "poll" /\ position < Len(log)
  /\ position' = position + 1
  /\ attempt' = 0
  /\ at' = IF log[position'] \in Subscribed \ _processed_ids
           THEN "handle" ELSE "commit"
  /\ UNCHANGED <<loop, committed, _processed_ids, successes, dead, restarts,
                 producer, kafka, log>>

HandlerSucceeds ==
  /\ at = "handle"
  /\ _processed_ids' = _processed_ids \cup {log[position]}
  /\ successes' = [successes EXCEPT ![log[position]] = @ + 1]
  /\ at' = "commit"
  /\ UNCHANGED <<loop, position, committed, attempt, dead, restarts,
                 producer, kafka, log>>

\* should_retry, or an exception, and attempts are left.
HandlerRetries ==
  /\ at = "handle"
  /\ attempt < MAX_RETRIES
  /\ attempt' = attempt + 1
  /\ UNCHANGED <<loop, position, committed, at, _processed_ids, successes, dead,
                 restarts, producer, kafka, log>>

(* No retry asked for, or none left.  _send_to_dlq writes a log line; the  *)
(* id is not remembered, so a second copy of the event is tried again.     *)
HandlerGivesUp ==
  /\ at = "handle"
  /\ dead' = dead \cup {log[position]}
  /\ at' = "commit"
  /\ UNCHANGED <<loop, position, committed, attempt, _processed_ids, successes,
                 restarts, producer, kafka, log>>

(* commit() covers every record fetched so far; if it raises, the loop     *)
(* sleeps and goes on with the next record.  On a stopped consumer it      *)
(* raises too, and the loop ends.                                          *)
Commit ==
  /\ at = "commit"
  /\ at' = "poll"
  /\ committed' = IF up /\ loop = "running" THEN position ELSE committed
  /\ UNCHANGED <<loop, position, attempt, _processed_ids, successes, dead, restarts,
                 producer, kafka, log>>

(* The consumer process exits after stop(), or dies anywhere, and a new    *)
(* one begins: the ids were only in memory, and once it has started,       *)
(* fetching resumes from the committed offset.                             *)
ConsumerEnds ==
  /\ restarts < MaxRestarts
  /\ restarts' = restarts + 1
  /\ loop' = "none"
  /\ position' = committed
  /\ at' = "poll"
  /\ attempt' = 0
  /\ _processed_ids' = {}
  /\ UNCHANGED <<committed, successes, dead, producer, kafka, log>>

-----------------------------------------------------------------------------
(* Kafka.                                                                  *)

Outage ==
  /\ up /\ outages < MaxOutages
  /\ up' = FALSE
  /\ outages' = outages + 1
  /\ UNCHANGED <<producer, log, consumer>>

Recover ==
  /\ ~up
  /\ up' = TRUE
  /\ UNCHANGED <<outages, producer, log, consumer>>

Relay   == Drain \/ SendSucceeds \/ SendFails
Handler == HandlerSucceeds \/ HandlerRetries \/ HandlerGivesUp

Next ==
  \/ \E e \in Events : publish(e)
  \/ start
  \/ stop
  \/ ProducerEnds
  \/ Relay
  \/ ConsumerStart
  \/ ConsumerStop
  \/ ConsumerEnds
  \/ Poll
  \/ Handler
  \/ Commit
  \/ Outage
  \/ Recover

(* The relay and the consume loop are tasks of an event loop and awaited   *)
(* calls return; either service calls start(), and Kafka comes back.       *)
(* Nothing is assumed of publish, of stop, of outages or of processes      *)
(* ending.                                                                 *)
Fairness ==
  /\ WF_vars(start) /\ WF_vars(Relay)
  /\ WF_vars(ConsumerStart)
  /\ WF_vars(Poll) /\ WF_vars(Handler) /\ WF_vars(Commit)
  /\ WF_vars(Recover)

Spec == Init /\ [][Next]_vars /\ Fairness

-----------------------------------------------------------------------------
(* A subscribed event is settled once its handler succeeded or gave up;    *)
(* an event without a handler is settled as it is.                         *)
Settled == {e \in Events : successes[e] > 0 \/ e \in dead \/ e \notin Subscribed}

(* The relay itself drops nothing: whatever was published, failed or       *)
(* queued again meanwhile, an accepted event waits in the outbox or in the *)
(* batch or is stored in Kafka, unless it ended with a process.  That is   *)
(* all the code gives: stop() amid a batch, and any end of the process,    *)
(* lose every event still in memory (_drain_outbox, stop).                 *)
RelayDropsNothing ==
  accepted \subseteq ToSet(_outbox) \cup ToSet(batch) \cup ToSet(log) \cup lost

(* The relay never duplicates on its own account: an event is queued at    *)
(* most once, and as long as Kafka has not gone down no event is stored    *)
(* twice, not even across a stop() amid a batch (_drain_outbox, stop).     *)
NoSelfMadeDuplicates ==
  /\ IsInjective(_outbox \o batch)
  /\ outages = 0 => IsInjective(log)

(* "Idempotency check via event_id": however often Kafka stores an event,  *)
(* one consumer process handles it successfully at most once; only its     *)
(* restart can repeat it (_process_message).                               *)
HandledOncePerProcess == \A e \in Events : successes[e] <= 1 + restarts

(* No committed offset runs ahead of the work: every record below it was   *)
(* handled, given up or has no handler, across failed commits and restarts *)
(* of the consumer (_consume_loop).                                        *)
CommittedIsSettled == \A i \in 1..committed : log[i] \in Settled

(* Relay and consumer found Kafka when they were started, and still run.   *)
Attached == relay = "running" /\ connected /\ loop = "running"

(* Once both ends are attached for good, which the code leaves to the      *)
(* order in which processes are started, every event publish() took and no *)
(* process took with it is settled by the consumer; one that Kafka refuses *)
(* goes round for ever and holds up no other (_drain_outbox,               *)
(* _consume_loop).                                                         *)
Delivered ==
  <>[]Attached =>
    \A e \in Events \ Refused : e \in accepted ~> e \in Settled \cup lost

(* "On recovery, the relay drains the outbox": once Kafka is back for      *)
(* good, every accepted event that ended with no process reaches it.       *)
DrainsOnRecovery ==
  \A e \in Events : e \in accepted ~> e \in ToSet(log) \cup lost

=============================================================================

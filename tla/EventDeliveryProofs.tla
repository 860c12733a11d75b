------------------------- MODULE EventDeliveryProofs -------------------------
(***************************************************************************)
(* Safety of the event path, for any set of events, any number of retries  *)
(* and any number of outages and of processes ending on either side.       *)
(*                                                                         *)
(* The producer's half and the consumer's half share only the log, which   *)
(* the one extends and the other reads, so each half has an invariant of   *)
(* its own: ProducerInv says where an accepted event is, ConsumerInv what  *)
(* has been done with the records fetched so far.                          *)
(***************************************************************************)
EXTENDS EventDelivery, SequenceTheorems, TLAPS

-----------------------------------------------------------------------------
(* The producer's half.                                                    *)

\* Nothing is queued, sent or stored but what publish() took.
OnlyAccepted ==
  ToSet(_outbox) \cup ToSet(batch) \cup ToSet(log) \subseteq accepted

\* An event waits in the outbox or in the batch, at one place of it.
QueuedOnce ==
  /\ IsInjective(_outbox) /\ IsInjective(batch)
  /\ ToSet(_outbox) \cap ToSet(batch) = {}

\* Without an outage, what is stored no longer waits, so it is stored once.
StoredOnce ==
  outages = 0 => /\ IsInjective(log)
                 /\ ToSet(log) \cap (ToSet(_outbox) \cup ToSet(batch)) = {}

\* Only a connected relay has a batch, and the first connection is made
\* while Kafka is up.
Connection ==
  /\ batch # <<>> => relay = "running" /\ connected
  /\ outages = 0 /\ ~up => ~connected

ProducerInv ==
  OnlyAccepted /\ QueuedOnce /\ StoredOnce /\ Connection /\ RelayDropsNothing

-----------------------------------------------------------------------------
(* The consumer's half.                                                    *)

\* A success is repeated only by a process that does not remember it.
Remembered ==
  \A e \in Events :
    /\ successes[e] <= restarts + 1
    /\ e \notin _processed_ids => successes[e] <= restarts
    /\ e \in _processed_ids => successes[e] > 0

\* The record in the handler is new to this process and not yet committed.
Handling ==
  at = "handle" => /\ committed < position
                   /\ log[position] \in Subscribed \ _processed_ids

\* Whatever was fetched is settled, but for the record in the handler.
FetchedSettled ==
  \A i \in 1..position : log[i] \in Settled \/ (i = position /\ at = "handle")

ConsumerInv == Remembered /\ Handling /\ FetchedSettled

DeliveryInv == TypeOK /\ ProducerInv /\ ConsumerInv

-----------------------------------------------------------------------------
(* The types of either half.                                               *)

ProducerTyped ==
  /\ relay \in {"none", "running", "stopped"}
  /\ connected \in BOOLEAN /\ up \in BOOLEAN
  /\ _outbox \in Seq(Events) /\ batch \in Seq(Events) /\ log \in Seq(Events)
  /\ accepted \subseteq Events /\ lost \subseteq accepted
  /\ outages \in 0..MaxOutages /\ ends \in 0..MaxEnds

ConsumerTyped ==
  /\ position \in 0..Len(log) /\ committed \in 0..position
  /\ loop \in {"none", "stub", "running", "stopped"}
  /\ at \in {"poll", "handle", "commit"}
  /\ attempt \in 0..MAX_RETRIES
  /\ _processed_ids \subseteq Subscribed
  /\ successes \in [Events -> Nat] /\ dead \subseteq Subscribed
  /\ restarts \in 0..MaxRestarts

(* The type invariant, split along the halves of the system.               *)
LEMMA Typed == TypeOK <=> ProducerTyped /\ ConsumerTyped
  BY Zenon DEF TypeOK, ProducerTyped, ConsumerTyped

-----------------------------------------------------------------------------
(* What appending, taking the head and concatenating do to the elements of *)
(* a sequence and to its being without repetition.                         *)

(* Appending adds one element, and no repetition if it is new.             *)
LEMMA AppendElements ==
  ASSUME NEW S, NEW s \in Seq(S), NEW e \in S
  PROVE  /\ Append(s, e) \in Seq(S)
         /\ ToSet(Append(s, e)) = ToSet(s) \cup {e}
         /\ IsInjective(s) /\ e \notin ToSet(s) => IsInjective(Append(s, e))
<1>1. /\ Append(s, e) \in Seq(S)
      /\ Len(Append(s, e)) = Len(s) + 1
      /\ DOMAIN Append(s, e) = 1..Len(s) + 1
      /\ \A i \in 1..Len(s) : Append(s, e)[i] = s[i]
      /\ Append(s, e)[Len(s) + 1] = e
      /\ Len(s) \in Nat /\ DOMAIN s = 1..Len(s)
  OBVIOUS
<1>2. ToSet(Append(s, e)) = ToSet(s) \cup {e}
  BY <1>1 DEF ToSet
<1>3. ASSUME IsInjective(s), e \notin ToSet(s) PROVE IsInjective(Append(s, e))
  BY <1>1, <1>3 DEF ToSet, IsInjective
<1>4. QED BY <1>1, <1>2, <1>3

(* The head and the tail share out the elements.                           *)
LEMMA HeadTailElements ==
  ASSUME NEW S, NEW s \in Seq(S), s # <<>>
  PROVE  /\ Head(s) \in S /\ Tail(s) \in Seq(S)
         /\ ToSet(s) = ToSet(Tail(s)) \cup {Head(s)}
         /\ IsInjective(s) => /\ IsInjective(Tail(s))
                              /\ Head(s) \notin ToSet(Tail(s))
<1>1. /\ Head(s) \in S /\ Head(s) = s[1] /\ Tail(s) \in Seq(S)
      /\ Len(s) \in Nat \ {0} /\ DOMAIN s = 1..Len(s)
      /\ Len(Tail(s)) = Len(s) - 1 /\ DOMAIN Tail(s) = 1..Len(s) - 1
      /\ \A i \in 1..Len(s) - 1 : Tail(s)[i] = s[i + 1]
  BY HeadTailProperties, EmptySeq
<1>2. ToSet(s) = ToSet(Tail(s)) \cup {Head(s)}
  <2>1. ASSUME NEW i \in 1..Len(s), i # 1 PROVE s[i] \in ToSet(Tail(s))
    <3>1. i - 1 \in 1..Len(s) - 1 /\ Tail(s)[i - 1] = s[i]
      BY <1>1, <2>1
    <3>2. QED BY <1>1, <3>1 DEF ToSet
  <2>2. ASSUME NEW i \in 1..Len(s) - 1 PROVE Tail(s)[i] \in ToSet(s)
    BY <1>1 DEF ToSet
  <2>3. s[1] \in ToSet(s) BY <1>1 DEF ToSet
  <2>4. QED BY <1>1, <2>1, <2>2, <2>3 DEF ToSet
<1>3. ASSUME IsInjective(s)
      PROVE  IsInjective(Tail(s)) /\ Head(s) \notin ToSet(Tail(s))
  BY <1>1, <1>3 DEF ToSet, IsInjective
<1>4. QED BY <1>1, <1>2, <1>3

(* Two disjoint sequences without repetition, one after the other.         *)
LEMMA ConcatInjective ==
  ASSUME NEW S, NEW s \in Seq(S), NEW t \in Seq(S),
         IsInjective(s), IsInjective(t), ToSet(s) \cap ToSet(t) = {}
  PROVE  IsInjective(s \o t)
<1>1. /\ Len(s) \in Nat /\ Len(t) \in Nat
      /\ DOMAIN s = 1..Len(s) /\ DOMAIN t = 1..Len(t)
      /\ DOMAIN (s \o t) = 1..Len(s) + Len(t)
      /\ \A i \in 1..Len(s) : (s \o t)[i] = s[i]
      /\ \A i \in 1..Len(s) + Len(t) :
           i > Len(s) => (s \o t)[i] = t[i - Len(s)] /\ i - Len(s) \in 1..Len(t)
  BY ConcatProperties, LenProperties
<1>2. \A i \in 1..Len(s), j \in 1..Len(t) : s[i] # t[j]
  BY <1>1 DEF ToSet
<1>3. ASSUME NEW a \in 1..Len(s) + Len(t), NEW b \in 1..Len(s) + Len(t),
             (s \o t)[a] = (s \o t)[b]
      PROVE  a = b
  <2>1. CASE a <= Len(s) /\ b <= Len(s)
    BY <1>1, <1>3, <2>1 DEF IsInjective
  <2>2. CASE a > Len(s) /\ b > Len(s)
    BY <1>1, <1>3, <2>2 DEF IsInjective
  <2>3. CASE a <= Len(s) /\ b > Len(s)
    BY <1>1, <1>2, <1>3, <2>3
  <2>4. CASE a > Len(s) /\ b <= Len(s)
    BY <1>1, <1>2, <1>3, <2>4
  <2>5. QED BY <1>1, <2>1, <2>2, <2>3, <2>4
<1>4. QED BY <1>1, <1>3 DEF IsInjective

(* One sequence after the other has the elements of both.                  *)
LEMMA ConcatElements ==
  ASSUME NEW S, NEW s \in Seq(S), NEW t \in Seq(S)
  PROVE  ToSet(s \o t) = ToSet(s) \cup ToSet(t)
<1>1. /\ Len(s) \in Nat /\ Len(t) \in Nat
      /\ DOMAIN s = 1..Len(s) /\ DOMAIN t = 1..Len(t)
      /\ DOMAIN (s \o t) = 1..Len(s) + Len(t)
      /\ \A i \in 1..Len(s) : (s \o t)[i] = s[i]
      /\ \A i \in 1..Len(s) + Len(t) :
           i > Len(s) => (s \o t)[i] = t[i - Len(s)] /\ i - Len(s) \in 1..Len(t)
  BY ConcatProperties, LenProperties
<1>2. ASSUME NEW i \in 1..Len(s) PROVE s[i] \in ToSet(s \o t)
  BY <1>1 DEF ToSet
<1>3. ASSUME NEW i \in 1..Len(t) PROVE t[i] \in ToSet(s \o t)
  <2>1. /\ Len(s) + i \in 1..Len(s) + Len(t)
        /\ (s \o t)[Len(s) + i] = t[i]
    BY <1>1
  <2>2. QED BY <1>1, <2>1 DEF ToSet
<1>4. ASSUME NEW i \in 1..Len(s) + Len(t)
      PROVE  (s \o t)[i] \in ToSet(s) \cup ToSet(t)
  BY <1>1 DEF ToSet
<1>5. QED BY <1>1, <1>2, <1>3, <1>4 DEF ToSet

(* The empty queue.                                                        *)
LEMMA EmptyElements == ToSet(<<>>) = {} /\ IsInjective(<<>>)
  BY DEF ToSet, IsInjective

-----------------------------------------------------------------------------
(* A half that does not move, and a log that is only extended, keep what   *)
(* is known of it.                                                         *)

Extended == log' = log \/ \E e \in Events : log' = Append(log, e)

(* A step of the consumer does not disturb the producer.                   *)
LEMMA ProducerAlone ==
  ASSUME ProducerTyped, ProducerInv, UNCHANGED <<producer, kafka, log>>
  PROVE  ProducerTyped' /\ ProducerInv'
  BY Zenon
  DEF ProducerTyped, ProducerInv, OnlyAccepted, QueuedOnce, StoredOnce,
      Connection, RelayDropsNothing, producer, kafka

(* A step of the producer disturbs the consumer no more than by an event   *)
(* added to the log.                                                       *)
LEMMA ConsumerAlone ==
  ASSUME TypeOK, ConsumerInv, UNCHANGED consumer, Extended
  PROVE  ConsumerTyped' /\ ConsumerInv'
<1> USE DEF consumer
<1>1. /\ Len(log) \in Nat /\ Len(log') \in Nat /\ Len(log) <= Len(log')
      /\ \A i \in 1..Len(log) : log'[i] = log[i]
  <2>1. log \in Seq(Events) BY DEF TypeOK
  <2>2. CASE log' = log BY <2>1, <2>2
  <2>3. ASSUME NEW e \in Events, log' = Append(log, e)
        PROVE  /\ Len(log) \in Nat /\ Len(log') = Len(log) + 1
               /\ \A i \in 1..Len(log) : log'[i] = log[i]
    BY <2>1, <2>3
  <2>4. QED BY <2>2, <2>3 DEF Extended
<1>2. ConsumerTyped' BY <1>1 DEF TypeOK, ConsumerTyped
<1>3. Remembered' BY DEF ConsumerInv, Remembered
<1>4. Handling'
  <2>1. SUFFICES ASSUME at = "handle"
                 PROVE  /\ committed < position
                        /\ log'[position] \in Subscribed \ _processed_ids
    BY DEF Handling
  <2>2. /\ committed < position
        /\ log[position] \in Subscribed \ _processed_ids
    BY <2>1 DEF ConsumerInv, Handling
  <2>3. position \in 1..Len(log) BY <1>1, <2>2 DEF TypeOK
  <2>4. QED BY <1>1, <2>2, <2>3
<1>5. FetchedSettled'
  <2>1. Settled' = Settled BY DEF Settled
  <2>2. 1..position \subseteq 1..Len(log) BY <1>1 DEF TypeOK
  <2>3. QED BY <1>1, <2>1, <2>2 DEF ConsumerInv, FetchedSettled
<1>6. QED BY <1>2, <1>3, <1>4, <1>5 DEF ConsumerInv

-----------------------------------------------------------------------------
(* Steps of the producer.  Each is reduced to what it does to the elements *)
(* of the outbox, the batch and the log.                                   *)

(* publish() puts a new event into the outbox.                             *)
LEMMA PublishKeeps ==
  ASSUME ProducerTyped, ProducerInv, NEW e \in Events, publish(e)
  PROVE  ProducerTyped' /\ ProducerInv' /\ Extended
<1>1. /\ e \notin accepted /\ accepted' = accepted \cup {e}
      /\ _outbox' = Append(_outbox, e)
      /\ UNCHANGED <<relay, connected, batch, lost, ends, up, outages, log>>
  BY DEF publish, kafka
<1>2. /\ _outbox' \in Seq(Events)
      /\ ToSet(_outbox') = ToSet(_outbox) \cup {e}
      /\ IsInjective(_outbox) /\ e \notin ToSet(_outbox) => IsInjective(_outbox')
  BY <1>1, AppendElements, Zenon DEF ProducerTyped
<1>3. e \notin ToSet(_outbox) \cup ToSet(batch) \cup ToSet(log)
  BY <1>1 DEF ProducerInv, OnlyAccepted
<1>4. ProducerTyped'
  <2>1. accepted' \subseteq Events /\ lost' \subseteq accepted'
    BY <1>1 DEF ProducerTyped
  <2>2. QED BY <1>1, <1>2, <2>1, Zenon DEF ProducerTyped
<1>5. OnlyAccepted' /\ RelayDropsNothing'
  BY <1>1, <1>2 DEF ProducerInv, OnlyAccepted, RelayDropsNothing
<1>6. QueuedOnce' /\ StoredOnce' /\ Connection'
  BY <1>1, <1>2, <1>3 DEF ProducerInv, QueuedOnce, StoredOnce, Connection
<1>7. QED BY <1>1, <1>4, <1>5, <1>6 DEF ProducerInv, Extended

(* start() leaves every queue alone.                                       *)
LEMMA StartKeeps ==
  ASSUME ProducerTyped, ProducerInv, start
  PROVE  ProducerTyped' /\ ProducerInv' /\ Extended
<1> USE DEF start, kafka
<1>1. ProducerTyped' BY DEF ProducerTyped
<1>2. OnlyAccepted' /\ RelayDropsNothing' /\ QueuedOnce' /\ StoredOnce'
  BY DEF ProducerInv, OnlyAccepted, RelayDropsNothing, QueuedOnce, StoredOnce
<1>3. Connection' BY DEF ProducerInv, Connection
<1>4. QED BY <1>1, <1>2, <1>3 DEF ProducerInv, Extended

(* The relay takes the whole outbox as its batch.                          *)
LEMMA DrainKeeps ==
  ASSUME ProducerTyped, ProducerInv, Drain
  PROVE  ProducerTyped' /\ ProducerInv' /\ Extended
<1>1. /\ batch = <<>> /\ batch' = _outbox /\ _outbox' = <<>>
      /\ relay = "running" /\ connected
      /\ UNCHANGED <<relay, connected, accepted, lost, ends, up, outages, log>>
  BY DEF Drain, kafka
<1>2. ToSet(batch) = {} /\ ToSet(_outbox') = {} /\ IsInjective(_outbox')
  BY <1>1, EmptyElements
<1>3. ProducerTyped' BY <1>1 DEF ProducerTyped
<1>4. OnlyAccepted' /\ RelayDropsNothing'
  BY <1>1, <1>2 DEF ProducerInv, OnlyAccepted, RelayDropsNothing
<1>5. QueuedOnce' /\ StoredOnce' /\ Connection'
  BY <1>1, <1>2 DEF ProducerInv, QueuedOnce, StoredOnce, Connection
<1>6. QED BY <1>1, <1>3, <1>4, <1>5 DEF ProducerInv, Extended

\* What is known of the head of the batch, and of the log once it is stored.
HeadFacts ==
  /\ Head(batch) \in Events /\ Tail(batch) \in Seq(Events)
  /\ ToSet(batch) = ToSet(Tail(batch)) \cup {Head(batch)}
  /\ IsInjective(Tail(batch)) /\ Head(batch) \notin ToSet(Tail(batch))
  /\ Head(batch) \notin ToSet(_outbox)
  /\ Append(log, Head(batch)) \in Seq(Events)
  /\ ToSet(Append(log, Head(batch))) = ToSet(log) \cup {Head(batch)}
  /\ outages = 0 => IsInjective(Append(log, Head(batch)))

(* The event the relay is about to send is in no other queue.              *)
LEMMA BatchHead ==
  ASSUME ProducerTyped, ProducerInv, batch # <<>>
  PROVE  HeadFacts
<1>1. /\ Head(batch) \in Events /\ Tail(batch) \in Seq(Events)
      /\ ToSet(batch) = ToSet(Tail(batch)) \cup {Head(batch)}
      /\ IsInjective(Tail(batch)) /\ Head(batch) \notin ToSet(Tail(batch))
  BY HeadTailElements, Zenon DEF ProducerTyped, ProducerInv, QueuedOnce
<1>2. Head(batch) \notin ToSet(_outbox)
  BY <1>1 DEF ProducerInv, QueuedOnce
<1>3. /\ Append(log, Head(batch)) \in Seq(Events)
      /\ ToSet(Append(log, Head(batch))) = ToSet(log) \cup {Head(batch)}
      /\ IsInjective(log) /\ Head(batch) \notin ToSet(log)
           => IsInjective(Append(log, Head(batch)))
  BY <1>1, AppendElements, Zenon DEF ProducerTyped
<1>4. outages = 0 => IsInjective(log) /\ Head(batch) \notin ToSet(log)
  BY <1>1 DEF ProducerInv, StoredOnce
<1>5. QED BY <1>1, <1>2, <1>3, <1>4 DEF HeadFacts

(* A sent event leaves the batch for the log.                              *)
LEMMA SendSucceedsKeeps ==
  ASSUME ProducerTyped, ProducerInv, SendSucceeds
  PROVE  ProducerTyped' /\ ProducerInv' /\ Extended
<1>1. /\ batch # <<>> /\ batch' = Tail(batch)
      /\ log' = Append(log, Head(batch))
      /\ UNCHANGED <<relay, connected, _outbox, accepted, lost, ends, up, outages>>
  BY DEF SendSucceeds, kafka
<1>2. HeadFacts BY <1>1, BatchHead
<1> USE DEF HeadFacts
<1>3. ProducerTyped' BY <1>1, <1>2 DEF ProducerTyped
<1>4. OnlyAccepted' /\ RelayDropsNothing'
  BY <1>1, <1>2 DEF ProducerInv, OnlyAccepted, RelayDropsNothing
<1>5. QueuedOnce' /\ StoredOnce'
  BY <1>1, <1>2 DEF ProducerInv, QueuedOnce, StoredOnce
<1>6. Connection' BY <1>1 DEF ProducerInv, Connection
<1>7. QED BY <1>1, <1>2, <1>3, <1>4, <1>5, <1>6 DEF ProducerInv, Extended

(* An event that could not be sent goes back to the end of the outbox.     *)
LEMMA SendFailsKeeps ==
  ASSUME ProducerTyped, ProducerInv, SendFails
  PROVE  ProducerTyped' /\ ProducerInv' /\ Extended
<1>1. /\ batch # <<>> /\ batch' = Tail(batch)
      /\ _outbox' = Append(_outbox, Head(batch))
      /\ log' = log \/ log' = Append(log, Head(batch))
      /\ UNCHANGED <<relay, connected, accepted, lost, ends, up, outages>>
  BY DEF SendFails, StoredAnyway, kafka
<1>2. HeadFacts BY <1>1, BatchHead
\* Without an outage, only a record that is never stored fails.
<1>3. outages = 0 => log' = log
  BY <1>1 DEF SendFails, StoredAnyway, ProducerInv, Connection
<1>4. /\ _outbox' \in Seq(Events)
      /\ ToSet(_outbox') = ToSet(_outbox) \cup {Head(batch)}
      /\ IsInjective(_outbox')
  <2>1. /\ _outbox \in Seq(Events) /\ IsInjective(_outbox)
        /\ Head(batch) \in Events /\ Head(batch) \notin ToSet(_outbox)
    BY <1>2 DEF HeadFacts, ProducerTyped, ProducerInv, QueuedOnce
  <2>2. /\ Append(_outbox, Head(batch)) \in Seq(Events)
        /\ ToSet(Append(_outbox, Head(batch))) = ToSet(_outbox) \cup {Head(batch)}
        /\ IsInjective(Append(_outbox, Head(batch)))
    BY <2>1, AppendElements
  <2>3. QED BY <1>1, <2>2
<1> USE DEF HeadFacts
<1>5. ProducerTyped' BY <1>1, <1>2, <1>4 DEF ProducerTyped
<1>6. OnlyAccepted' /\ RelayDropsNothing'
  BY <1>1, <1>2, <1>4 DEF ProducerInv, OnlyAccepted, RelayDropsNothing
<1>7. QueuedOnce'
  BY <1>1, <1>2, <1>4 DEF ProducerInv, QueuedOnce
<1>8. StoredOnce'
  BY <1>1, <1>2, <1>3, <1>4 DEF ProducerInv, StoredOnce
<1>9. Connection' BY <1>1 DEF ProducerInv, Connection
<1>10. QED BY <1>1, <1>2, <1>5, <1>6, <1>7, <1>8, <1>9 DEF ProducerInv, Extended

(* The batch is gone, sent in part or lost: what stop() and the end of the *)
(* process have in common.                                                 *)
LEMMA CancelKeeps ==
  ASSUME ProducerTyped, ProducerInv, batch' = <<>>,
         UNCHANGED <<accepted, kafka>>,
         \/ _outbox' = _outbox /\ lost \subseteq lost'
         \/ _outbox' = <<>> /\ lost \cup ToSet(_outbox) \subseteq lost',
         lost' \subseteq accepted,
         \/ log' = log /\ ToSet(batch) \subseteq lost'
         \/ StoredAnyway /\ ToSet(Tail(batch)) \subseteq lost',
         outages = 0 /\ ~up => ~connected',
         relay' \in {"none", "running", "stopped"}, connected' \in BOOLEAN,
         ends' \in 0..MaxEnds
  PROVE  ProducerTyped' /\ ProducerInv' /\ Extended
<1>1. /\ ToSet(batch') = {} /\ IsInjective(batch') /\ batch' \in Seq(Events)
      /\ ToSet(_outbox') \subseteq ToSet(_outbox) /\ IsInjective(_outbox')
      /\ _outbox' \in Seq(Events)
      /\ ToSet(_outbox) \subseteq ToSet(_outbox') \cup lost'
      /\ lost \subseteq lost'
      /\ UNCHANGED <<accepted, up, outages>>
  BY EmptyElements, EmptySeq DEF ProducerTyped, ProducerInv, QueuedOnce, kafka
<1>2. Connection' BY <1>1 DEF Connection
<1>3. CASE log' = log /\ ToSet(batch) \subseteq lost'
  <2>1. ProducerTyped' BY <1>1, <1>3, Zenon DEF ProducerTyped
  <2>2. OnlyAccepted' /\ RelayDropsNothing'
    BY <1>1, <1>3 DEF ProducerInv, OnlyAccepted, RelayDropsNothing
  <2>3. QueuedOnce' /\ StoredOnce'
    BY <1>1, <1>3 DEF ProducerInv, QueuedOnce, StoredOnce
  <2>4. QED BY <1>2, <1>3, <2>1, <2>2, <2>3 DEF ProducerInv, Extended
<1>4. CASE StoredAnyway /\ ToSet(Tail(batch)) \subseteq lost'
  <2>1. log' = Append(log, Head(batch)) /\ HeadFacts
    BY <1>4, BatchHead DEF StoredAnyway
  <2> USE DEF HeadFacts
  <2>2. ProducerTyped'
    <3>1. log' \in Seq(Events) BY <2>1
    <3>2. QED BY <1>1, <3>1, Zenon DEF ProducerTyped
  <2>3. OnlyAccepted' /\ RelayDropsNothing'
    BY <1>1, <1>4, <2>1 DEF ProducerInv, OnlyAccepted, RelayDropsNothing
  <2>4. QueuedOnce'
    BY <1>1, <2>1 DEF ProducerInv, QueuedOnce
  <2>5. StoredOnce'
    BY <1>1, <2>1 DEF ProducerInv, StoredOnce
  <2>6. QED BY <1>2, <2>1, <2>2, <2>3, <2>4, <2>5 DEF ProducerInv, Extended
<1>5. QED BY <1>3, <1>4

(* stop() keeps the outbox; the batch is sent in part, or lost.            *)
LEMMA StopKeeps ==
  ASSUME ProducerTyped, ProducerInv, stop
  PROVE  ProducerTyped' /\ ProducerInv' /\ Extended
<1>1. /\ batch' = <<>> /\ relay' = "stopped"
      /\ UNCHANGED <<connected, _outbox, accepted, ends, kafka>>
      /\ \/ log' = log /\ lost' = lost \cup ToSet(batch)
         \/ StoredAnyway /\ lost' = lost \cup ToSet(Tail(batch))
  BY DEF stop, CancelRelay
<1>2. lost \subseteq lost' /\ lost' \subseteq accepted
  <2>1. lost \subseteq accepted /\ ToSet(batch) \subseteq accepted
    BY DEF ProducerTyped, ProducerInv, OnlyAccepted
  <2>2. StoredAnyway => ToSet(Tail(batch)) \subseteq ToSet(batch)
    BY BatchHead DEF StoredAnyway, HeadFacts
  <2>3. QED BY <1>1, <2>1, <2>2
<1>3. connected' \in BOOLEAN /\ ends' \in 0..MaxEnds
  BY <1>1 DEF ProducerTyped
<1>4. outages = 0 /\ ~up => ~connected'
  BY <1>1 DEF ProducerInv, Connection
<1>5. \/ log' = log /\ ToSet(batch) \subseteq lost'
      \/ StoredAnyway /\ ToSet(Tail(batch)) \subseteq lost'
  BY <1>1
<1>6. /\ _outbox' = _outbox /\ relay' \in {"none", "running", "stopped"}
      /\ UNCHANGED <<accepted, kafka>>
  BY <1>1
<1>7. QED BY <1>1, <1>2, <1>3, <1>4, <1>5, <1>6, CancelKeeps

(* The end of the process takes the outbox and the batch with it.          *)
LEMMA ProducerEndsKeeps ==
  ASSUME ProducerTyped, ProducerInv, ProducerEnds
  PROVE  ProducerTyped' /\ ProducerInv' /\ Extended
<1>1. /\ batch' = <<>> /\ _outbox' = <<>> /\ relay' = "none" /\ connected' = FALSE
      /\ UNCHANGED <<accepted, kafka>>
      /\ \/ log' = log /\ lost' = lost \cup ToSet(_outbox \o batch)
         \/ StoredAnyway /\ lost' = lost \cup ToSet(_outbox \o Tail(batch))
  BY DEF ProducerEnds
<1>2. /\ ToSet(_outbox \o batch) = ToSet(_outbox) \cup ToSet(batch)
      /\ StoredAnyway =>
           /\ ToSet(_outbox \o Tail(batch)) = ToSet(_outbox) \cup ToSet(Tail(batch))
           /\ ToSet(Tail(batch)) \subseteq ToSet(batch)
  <2>1. _outbox \in Seq(Events) /\ batch \in Seq(Events) BY DEF ProducerTyped
  <2>2. ToSet(_outbox \o batch) = ToSet(_outbox) \cup ToSet(batch)
    BY <2>1, ConcatElements
  <2>3. ASSUME StoredAnyway
        PROVE  /\ ToSet(_outbox \o Tail(batch)) = ToSet(_outbox) \cup ToSet(Tail(batch))
               /\ ToSet(Tail(batch)) \subseteq ToSet(batch)
    <3>1. HeadFacts BY <2>3, BatchHead DEF StoredAnyway
    <3>2. Tail(batch) \in Seq(Events) /\ ToSet(Tail(batch)) \subseteq ToSet(batch)
      BY <3>1 DEF HeadFacts
    <3>3. QED BY <2>1, <3>2, ConcatElements
  <2>4. QED BY <2>2, <2>3
<1>3. lost \cup ToSet(_outbox) \subseteq lost' /\ lost' \subseteq accepted
  <2>1. lost \subseteq accepted /\ ToSet(_outbox) \cup ToSet(batch) \subseteq accepted
    BY DEF ProducerTyped, ProducerInv, OnlyAccepted
  <2>2. QED BY <1>1, <1>2, <2>1
<1>4. \/ log' = log /\ ToSet(batch) \subseteq lost'
      \/ StoredAnyway /\ ToSet(Tail(batch)) \subseteq lost'
  BY <1>1, <1>2
<1>5. ends' \in 0..MaxEnds
  <2>1. MaxEnds \in Nat BY DeliveryAssumption DEF DeliveryAssumption
  <2>2. QED BY <2>1 DEF ProducerEnds, ProducerTyped
<1>6. relay' \in {"none", "running", "stopped"} /\ connected' \in BOOLEAN /\ ~connected'
  BY <1>1
<1>7. QED BY <1>1, <1>3, <1>4, <1>5, <1>6, CancelKeeps

-----------------------------------------------------------------------------
(* Steps of the consumer, which leave the producer and the log alone.      *)

(* A record is handed on only if its id is not remembered.                 *)
LEMMA PollKeeps ==
  ASSUME TypeOK, ConsumerInv, Poll
  PROVE  ConsumerTyped' /\ ConsumerInv'
<1> USE DEF Poll
<1>1. /\ position \in Nat /\ Len(log) \in Nat /\ committed \in 0..position
      /\ MAX_RETRIES \in Nat
  BY DeliveryAssumption DEF TypeOK, DeliveryAssumption
<1>2. ConsumerTyped'
  <2>1. position' \in 0..Len(log') /\ committed' \in 0..position'
    BY <1>1
  <2>2. at' \in {"poll", "handle", "commit"} /\ attempt' \in 0..MAX_RETRIES
    BY <1>1
  <2>3. QED BY <2>1, <2>2, Zenon DEF TypeOK, ConsumerTyped
<1>3. Remembered' BY DEF ConsumerInv, Remembered
<1>4. Handling' BY <1>1 DEF Handling
<1>5. FetchedSettled'
  <2>1. Settled' = Settled BY DEF Settled
  <2>2. \A i \in 1..position : log[i] \in Settled
    BY DEF ConsumerInv, FetchedSettled
  <2>3. at' = "handle" \/ log[position'] \in Settled
    <3>1. log[position'] \in Events BY <1>1 DEF TypeOK
    <3>2. CASE log[position'] \in _processed_ids
      BY <3>1, <3>2 DEF ConsumerInv, Remembered, Settled
    <3>3. CASE log[position'] \notin Subscribed
      BY <3>1, <3>3 DEF Settled
    <3>4. QED BY <3>2, <3>3
  <2>4. \A i \in 1..position' : i \in 1..position \/ i = position'
    BY <1>1
  <2>5. QED BY <2>1, <2>2, <2>3, <2>4 DEF FetchedSettled
<1>6. QED BY <1>2, <1>3, <1>4, <1>5 DEF ConsumerInv

\* The record in the handler is an event with a handler.
LEMMA Handled ==
  ASSUME TypeOK, ConsumerInv, at = "handle"
  PROVE  /\ log[position] \in Events /\ log[position] \in Subscribed
         /\ log[position] \notin _processed_ids
         /\ \A i \in 1..position : log[i] \in Settled \/ log[i] = log[position]
  BY DeliveryAssumption
  DEF ConsumerInv, Handling, FetchedSettled, DeliveryAssumption

(* A handler returns once, asks for a retry, or gives up.                  *)
LEMMA HandlerKeeps ==
  ASSUME TypeOK, ConsumerInv, Handler, UNCHANGED log
  PROVE  ConsumerTyped' /\ ConsumerInv'
<1> DEFINE e == log[position]
<1>1. at = "handle"
  BY DEF Handler, HandlerSucceeds, HandlerRetries, HandlerGivesUp
<1>2. /\ e \in Events /\ e \in Subscribed /\ e \notin _processed_ids
      /\ \A i \in 1..position : log[i] \in Settled \/ log[i] = e
  BY <1>1, Handled
<1>3. CASE HandlerSucceeds
  <2>1. /\ at' = "commit" /\ _processed_ids' = _processed_ids \cup {e}
        /\ successes' = [successes EXCEPT ![e] = @ + 1]
        /\ UNCHANGED <<loop, position, committed, attempt, dead, restarts, log>>
    BY <1>3 DEF HandlerSucceeds
  <2> HIDE DEF e
  <2>2. ConsumerTyped' BY <1>2, <2>1 DEF TypeOK, ConsumerTyped
  <2>3. Remembered'
    <3>1. restarts \in Nat /\ successes \in [Events -> Nat]
      BY DeliveryAssumption DEF TypeOK, DeliveryAssumption
    <3>2. /\ successes'[e] = successes[e] + 1
          /\ \A d \in Events \ {e} : successes'[d] = successes[d]
      BY <1>2, <2>1, <3>1
    <3>3. QED BY <1>2, <2>1, <3>1, <3>2 DEF ConsumerInv, Remembered
  <2>4. Handling' BY <2>1 DEF Handling
  <2>5. FetchedSettled'
    <3>1. Settled \cup {e} \subseteq Settled'
      BY <1>2, <2>1 DEF Settled, TypeOK
    <3>2. QED BY <1>2, <2>1, <3>1 DEF FetchedSettled
  <2>6. QED BY <2>2, <2>3, <2>4, <2>5 DEF ConsumerInv
<1>4. CASE HandlerRetries
  <2>1. ConsumerTyped'
    BY <1>4, DeliveryAssumption
    DEF HandlerRetries, TypeOK, ConsumerTyped, DeliveryAssumption
  <2>2. ConsumerInv'
    BY <1>4
    DEF HandlerRetries, ConsumerInv, Remembered, Handling, FetchedSettled, Settled
  <2>3. QED BY <2>1, <2>2
<1>5. CASE HandlerGivesUp
  <2>1. /\ at' = "commit" /\ dead' = dead \cup {e}
        /\ UNCHANGED <<loop, position, committed, attempt, _processed_ids, successes,
                       restarts, log>>
    BY <1>5 DEF HandlerGivesUp
  <2> HIDE DEF e
  <2>2. ConsumerTyped' BY <1>2, <2>1 DEF TypeOK, ConsumerTyped
  <2>3. Remembered' /\ Handling'
    BY <2>1 DEF ConsumerInv, Remembered, Handling
  <2>4. FetchedSettled'
    <3>1. Settled \cup {e} \subseteq Settled' BY <1>2, <2>1 DEF Settled
    <3>2. QED BY <1>2, <2>1, <3>1 DEF FetchedSettled
  <2>5. QED BY <2>2, <2>3, <2>4 DEF ConsumerInv
<1>6. QED BY <1>3, <1>4, <1>5 DEF Handler

(* A commit covers settled records only.                                   *)
LEMMA CommitKeeps ==
  ASSUME TypeOK, ConsumerInv, Commit
  PROVE  ConsumerTyped' /\ ConsumerInv'
<1> USE DEF Commit
<1>1. ConsumerTyped' BY DEF TypeOK, ConsumerTyped
<1>2. Remembered' /\ Handling' BY DEF ConsumerInv, Remembered, Handling
<1>3. FetchedSettled' BY DEF ConsumerInv, FetchedSettled, Settled
<1>4. QED BY <1>1, <1>2, <1>3 DEF ConsumerInv

(* Whether the consumer is attached matters to nothing that was done.      *)
LEMMA LoopKeeps ==
  ASSUME TypeOK, ConsumerInv, ConsumerStart \/ ConsumerStop
  PROVE  ConsumerTyped' /\ ConsumerInv'
<1>1. /\ loop' \in {"none", "stub", "running", "stopped"}
      /\ UNCHANGED <<position, committed, at, attempt, _processed_ids, successes,
                     dead, restarts, log>>
  BY DEF ConsumerStart, ConsumerStop
<1>2. ConsumerTyped' BY <1>1, Zenon DEF TypeOK, ConsumerTyped
<1>3. ConsumerInv'
  BY <1>1 DEF ConsumerInv, Remembered, Handling, FetchedSettled, Settled
<1>4. QED BY <1>2, <1>3

(* A new process forgets its set and resumes at the committed        *)
(* offset.                                                                 *)
LEMMA RestartKeeps ==
  ASSUME TypeOK, ConsumerInv, ConsumerEnds
  PROVE  ConsumerTyped' /\ ConsumerInv'
<1> USE DEF ConsumerEnds
<1>0. /\ restarts \in Nat /\ MaxRestarts \in Nat /\ MAX_RETRIES \in Nat
      /\ successes \in [Events -> Nat] /\ position \in Nat
      /\ committed \in 0..position /\ position <= Len(log) /\ Len(log) \in Nat
  BY DeliveryAssumption DEF TypeOK, DeliveryAssumption
<1>1. ConsumerTyped'
  <2>1. /\ position' \in 0..Len(log') /\ committed' \in 0..position'
        /\ restarts' \in 0..MaxRestarts /\ attempt' \in 0..MAX_RETRIES
    BY <1>0
  <2>2. /\ at' \in {"poll", "handle", "commit"} /\ _processed_ids' = {}
        /\ loop' = "none" /\ UNCHANGED <<successes, dead>>
    OBVIOUS
  <2>3. QED BY <2>1, <2>2 DEF TypeOK, ConsumerTyped
<1>2. Remembered' BY <1>0 DEF ConsumerInv, Remembered
<1>3. Handling' BY DEF Handling
<1>4. FetchedSettled'
  \* The record in the handler is above the committed offset.
  <2>1. \A i \in 1..committed : log[i] \in Settled
    BY <1>0 DEF ConsumerInv, Handling, FetchedSettled
  <2>2. QED BY <2>1 DEF FetchedSettled, Settled
<1>5. QED BY <1>1, <1>2, <1>3, <1>4 DEF ConsumerInv

-----------------------------------------------------------------------------
(* The initial state and every step keep the invariant of both halves.     *)

(* Nothing is published and nothing fetched at the start.                  *)
LEMMA InitDeliveryInv == Init => DeliveryInv
<1> SUFFICES ASSUME Init PROVE DeliveryInv
  OBVIOUS
<1> USE DEF Init
<1>1. ToSet(<<>>) = {} /\ IsInjective(<<>>) BY EmptyElements
<1>2. TypeOK
  <2>1. /\ 0 \in 0..MAX_RETRIES /\ 0 \in 0..MaxOutages /\ 0 \in 0..MaxEnds
        /\ 0 \in 0..MaxRestarts /\ 0 \in 0..0
    BY DeliveryAssumption DEF DeliveryAssumption
  <2>2. <<>> \in Seq(Events) /\ Len(<<>>) = 0 BY EmptySeq
  <2>3. successes \in [Events -> Nat] OBVIOUS
  <2>4. QED BY <2>1, <2>2, <2>3 DEF TypeOK
<1>3. ProducerInv
  BY <1>1
  DEF ProducerInv, OnlyAccepted, QueuedOnce, StoredOnce, Connection, RelayDropsNothing
<1>4. ConsumerInv BY DEF ConsumerInv, Remembered, Handling, FetchedSettled
<1>5. QED BY <1>2, <1>3, <1>4 DEF DeliveryInv

(* Each step keeps both halves.                                            *)
LEMMA NextDeliveryInv == DeliveryInv /\ [Next]_vars => DeliveryInv'
<1> SUFFICES ASSUME DeliveryInv, [Next]_vars PROVE DeliveryInv'
  OBVIOUS
<1>1. TypeOK /\ ProducerTyped /\ ProducerInv /\ ConsumerInv
  BY Typed DEF DeliveryInv
<1>2. ASSUME (\E e \in Events : publish(e)) \/ start \/ stop
             \/ ProducerEnds \/ Relay
      PROVE  DeliveryInv'
  <2>1. ProducerTyped' /\ ProducerInv' /\ Extended
    BY <1>1, <1>2, PublishKeeps, StartKeeps, StopKeeps, ProducerEndsKeeps,
       DrainKeeps, SendSucceedsKeeps, SendFailsKeeps DEF Relay
  <2>2. UNCHANGED consumer
    BY <1>2
    DEF publish, start, stop, ProducerEnds, Relay, Drain, SendSucceeds, SendFails
  <2>3. ConsumerTyped' /\ ConsumerInv' BY <1>1, <2>1, <2>2, ConsumerAlone
  <2>4. TypeOK' BY <2>1, <2>3, Zenon DEF TypeOK, ProducerTyped, ConsumerTyped
  <2>5. QED BY <2>1, <2>3, <2>4 DEF DeliveryInv
<1>3. ASSUME ConsumerStart \/ ConsumerStop \/ ConsumerEnds
             \/ Poll \/ Handler \/ Commit
      PROVE  DeliveryInv'
  <2>1. UNCHANGED <<producer, kafka, log>>
    BY <1>3
    DEF Poll, Handler, HandlerSucceeds, HandlerRetries, HandlerGivesUp, Commit,
        ConsumerStart, ConsumerStop, ConsumerEnds
  <2>2. ProducerTyped' /\ ProducerInv' BY <1>1, <2>1, ProducerAlone
  <2>3. ConsumerTyped' /\ ConsumerInv'
    BY <1>1, <1>3, <2>1, PollKeeps, HandlerKeeps, CommitKeeps, LoopKeeps,
       RestartKeeps
  <2>4. TypeOK' BY <2>2, <2>3, Zenon DEF TypeOK, ProducerTyped, ConsumerTyped
  <2>5. QED BY <2>2, <2>3, <2>4 DEF DeliveryInv
<1>4. ASSUME Outage \/ Recover PROVE DeliveryInv'
  <2>1. UNCHANGED <<producer, log, consumer>> /\ up' \in BOOLEAN
    BY <1>4 DEF Outage, Recover
  <2>2. outages' \in 0..MaxOutages /\ (outages' = 0 => outages = 0)
    <3>1. MaxOutages \in Nat BY DeliveryAssumption DEF DeliveryAssumption
    <3>2. QED BY <1>1, <1>4, <3>1 DEF ProducerTyped, Outage, Recover
  <2>3. Connection'
    BY <1>1, <1>4, <2>1, <2>2
    DEF ProducerTyped, ProducerInv, Connection, Outage, Recover, producer
  <2>4. ProducerTyped' BY <1>1, <2>1, <2>2, Zenon DEF ProducerTyped, producer
  <2>5. ProducerInv'
    BY <1>1, <2>1, <2>2, <2>3
    DEF ProducerInv, OnlyAccepted, QueuedOnce, StoredOnce, RelayDropsNothing, producer
  <2>6. ConsumerTyped' /\ ConsumerInv'
    BY <1>1, <2>1, ConsumerAlone DEF Extended
  <2>7. TypeOK' BY <2>4, <2>6, Zenon DEF TypeOK, ProducerTyped, ConsumerTyped
  <2>8. QED BY <2>5, <2>6, <2>7 DEF DeliveryInv
<1>5. CASE UNCHANGED vars
  <2>1. UNCHANGED <<producer, kafka, log, consumer>> BY <1>5 DEF vars
  <2>2. ProducerTyped' /\ ProducerInv' BY <1>1, <2>1, ProducerAlone
  <2>3. ConsumerTyped' /\ ConsumerInv'
    BY <1>1, <2>1, ConsumerAlone DEF Extended
  <2>4. TypeOK' BY <2>2, <2>3, Zenon DEF TypeOK, ProducerTyped, ConsumerTyped
  <2>5. QED BY <2>2, <2>3, <2>4 DEF DeliveryInv
<1>6. QED BY <1>2, <1>3, <1>4, <1>5 DEF Next

-----------------------------------------------------------------------------
(* Every reachable state is well typed; in particular the retry counter    *)
(* stays within MAX_RETRIES and no offset passes the end of the log        *)
(* (_process_message, _consume_loop).                                      *)
THEOREM DeliveryTyped == Spec => []TypeOK
<1>1. DeliveryInv => TypeOK BY DEF DeliveryInv
<1>2. QED BY InitDeliveryInv, NextDeliveryInv, <1>1, PTL DEF Spec

(* Whatever fails, is queued again or is published meanwhile, an accepted  *)
(* event waits, is being sent, or is stored, unless it was in the memory   *)
(* of a process that ended or stopped amid a batch (_drain_outbox, stop).  *)
THEOREM OnlyProcessesLoseEvents == Spec => []RelayDropsNothing
<1>1. DeliveryInv => RelayDropsNothing BY DEF DeliveryInv, ProducerInv
<1>2. QED BY InitDeliveryInv, NextDeliveryInv, <1>1, PTL DEF Spec

(* The relay queues an event at one place only and, as long as Kafka has   *)
(* not gone down, stores it once (_drain_outbox, stop).                    *)
THEOREM NoDuplicatesAreMade == Spec => []NoSelfMadeDuplicates
<1>1. DeliveryInv => NoSelfMadeDuplicates
  <2> SUFFICES ASSUME DeliveryInv PROVE NoSelfMadeDuplicates
    OBVIOUS
  <2>2. _outbox \in Seq(Events) /\ batch \in Seq(Events)
    BY DEF DeliveryInv, TypeOK
  <2>3. /\ IsInjective(_outbox) /\ IsInjective(batch)
        /\ ToSet(_outbox) \cap ToSet(batch) = {}
    BY DEF DeliveryInv, ProducerInv, QueuedOnce
  <2>4. IsInjective(_outbox \o batch) BY <2>2, <2>3, ConcatInjective, Zenon
  <2>5. outages = 0 => IsInjective(log)
    BY DEF DeliveryInv, ProducerInv, StoredOnce
  <2>6. QED BY <2>4, <2>5 DEF NoSelfMadeDuplicates
<1>2. QED BY InitDeliveryInv, NextDeliveryInv, <1>1, PTL DEF Spec

(* However often Kafka stores an event, one consumer process handles it    *)
(* successfully at most once (_process_message).                           *)
THEOREM HandledOnce == Spec => []HandledOncePerProcess
<1>1. DeliveryInv => HandledOncePerProcess
  <2> SUFFICES ASSUME DeliveryInv, NEW e \in Events
                 PROVE  successes[e] <= 1 + restarts
    BY DEF HandledOncePerProcess
  <2>2. successes[e] \in Nat /\ restarts \in Nat
    BY DeliveryAssumption DEF DeliveryInv, TypeOK, DeliveryAssumption
  <2>3. successes[e] <= restarts + 1
    BY DEF DeliveryInv, ConsumerInv, Remembered
  <2>4. QED BY <2>2, <2>3
<1>2. QED BY InitDeliveryInv, NextDeliveryInv, <1>1, PTL DEF Spec

(* No committed offset covers a record that is not settled, across failed  *)
(* commits and the ends of the consumer's process (_consume_loop).         *)
THEOREM CommittedAreSettled == Spec => []CommittedIsSettled
<1>1. DeliveryInv => CommittedIsSettled
  <2> SUFFICES ASSUME DeliveryInv, NEW i \in 1..committed
                 PROVE  log[i] \in Settled
    BY DEF CommittedIsSettled
  <2>2. position \in Nat /\ committed \in 0..position
    BY DEF DeliveryInv, TypeOK
  <2>3. i \in 1..position /\ (at = "handle" => i # position)
    BY <2>2 DEF DeliveryInv, ConsumerInv, Handling
  <2>4. QED BY <2>3 DEF DeliveryInv, ConsumerInv, FetchedSettled
<1>2. QED BY InitDeliveryInv, NextDeliveryInv, <1>1, PTL DEF Spec
=============================================================================

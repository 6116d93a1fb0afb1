------------------------------ MODULE KafkaBus ------------------------------
(***************************************************************************)
(* The three users of Kafka: the event bus of pkg/eventbus (Start, Stop,   *)
(* Publish, Subscribe, Unsubscribe, the consumer loop and the dead         *)
(* letters), the "optimized" bus beside it (batches, parallel consumers),  *)
(* and the outbox's Kafka publisher.  Sarama and the brokers are external: *)
(* a producer is a channel in front of a log that takes or refuses each    *)
(* message later, and a consumer group reads the log from its mark.        *)
(***************************************************************************)
EXTENDS Integers, FiniteSets, Sequences, SequencesExt

CONSTANTS BusEvents,        \* events handed to a bus, each at most once
          BusHandlers,      \* event handlers, all of one event type
          BusConfigs,       \* the configurations a bus may be given
          InputCap,         \* ChannelBufferSize of the producer
          KafkaBatch,       \* BatchSize of the optimized consumer
          OutboxRows,       \* entries the outbox publishes through Kafka
          MaxBusCalls,      \* Start, Stop, Subscribe and Unsubscribe calls
          MaxKafkaFaults    \* refused messages, failed calls and crashes

ASSUME KafkaAssumption ==
    /\ InputCap \in Nat \ {0} /\ KafkaBatch \in Nat \ {0}
    /\ MaxBusCalls \in Nat /\ MaxKafkaFaults \in Nat

VARIABLES kbBus, kbPipe, kbSlots, kbReader, kbMark, kbTried, kbCalls, kbFaults,
          obUp, obPipe, obBatch, obReader, obMark, obTried, obFaults,
          kpPipe, kpRows, kpFaults

kbVars == <<kbBus, kbPipe, kbSlots, kbReader, kbMark, kbTried, kbCalls, kbFaults>>
obVars == <<obUp, obPipe, obBatch, obReader, obMark, obTried, obFaults>>
kpVars == <<kpPipe, kpRows, kpFaults>>

-----------------------------------------------------------------------------
(* Configuration *)

Protocols == {"PLAINTEXT", "SSL", "SASL_PLAINTEXT", "SASL_SSL"}

(* The part of the configurations of the two publishing sides that decides *)
(* whether sarama takes them.  open is Net.MaxOpenRequests, which only the *)
(* optimized bus and a transactional publisher set: sarama's default is 5. *)
KafkaConfig == [protocol : Protocols \union {"other"}, user : BOOLEAN, idempotent : BOOLEAN,
                acks : {"all", "local", "none"}, open : {1, 5}, deadLetterTopic : BOOLEAN]

DefaultKafkaConfig == [protocol |-> "PLAINTEXT", user |-> FALSE, idempotent |-> TRUE,
                       acks |-> "all", open |-> 5, deadLetterTopic |-> TRUE]

(* A known protocol; SASL needs the user name a known mechanism brings. *)
applySecurity(c) == c.protocol \in Protocols
                    /\ (c.protocol \in {"SASL_PLAINTEXT", "SASL_SSL"} => c.user)

(* What sarama's Validate asks of an idempotent producer. *)
ProducerAccepted(c) == c.idempotent => c.open = 1 /\ c.acks = "all"

(* A transactional publisher gets the one open request from the setting    *)
(* of the transaction, so its configuration is accepted where the plain    *)
(* one of the same factory is not.                                         *)
Transactional(c) == [c EXCEPT !.open = 1]

(* The environment asks for SASL only with a user and a password, and      *)
(* passes any protocol on.                                                 *)
FromEnvironment(c) == c.protocol \in {"SASL_PLAINTEXT", "SASL_SSL"} => c.user

(* The topics: the bus has one for each event type, the outbox one for     *)
(* each domain.  An event type is the sequence of its parts.               *)
BusTopic(prefix, type)    == IF prefix = <<>> THEN type ELSE prefix \o type
OutboxTopic(prefix, type) == IF Len(type) >= 2 THEN Append(prefix, Head(type)) ELSE Append(prefix, "system")

-----------------------------------------------------------------------------
(* A producer: what it holds, what the log and the dead-letter topic took. *)
(* failed: errors nobody has dealt with; lost: accepted, and nowhere.      *)

Message == [event : BusEvents \union OutboxRows, letter : BOOLEAN]
Open    == [open |-> TRUE, input |-> <<>>, log |-> <<>>, dead |-> {}, failed |-> {}, lost |-> {}]
Full(p) == Len(p.input) = InputCap
Put(p, m) == [p EXCEPT !.input = Append(@, m)]
Plain(e)  == [event |-> e, letter |-> FALSE]

(* The broker takes the oldest message, or its retries run out. *)
Sent(p) == LET m == Head(p.input) IN
    IF m.letter THEN [p EXCEPT !.input = Tail(@), !.dead = @ \union {m.event}]
                ELSE [p EXCEPT !.input = Tail(@), !.log = Append(@, m.event)]
Refused(p) == [p EXCEPT !.input = Tail(@), !.failed = @ \union {Head(p.input)}]

(* An error becomes a dead letter if there is a topic for it and the       *)
(* channel has room; the letter of a letter is sent the same way.          *)
sendToDeadLetterQueue(p, m, topic) ==
    IF topic /\ ~Full(p) THEN Put([p EXCEPT !.failed = @ \ {m}], [event |-> m.event, letter |-> TRUE])
                         ELSE [p EXCEPT !.failed = @ \ {m}, !.lost = @ \union {m.event}]

Held(p)   == {p.input[i].event : i \in DOMAIN p.input} \union {m.event : m \in p.failed}
Logged(p) == ToSet(p.log)
Crashed(p) == [p EXCEPT !.open = FALSE, !.input = <<>>, !.failed = {}, !.lost = @ \union Held(p)]

(* Close of the producer flushes what the channel holds: each message is   *)
(* taken (keep) or comes back as an error that Close itself swallows.      *)
(* What is taken reaches the log in the order of the channel.              *)
InOrder(places) == {f \in Bijection(1..Cardinality(places), places) : \A i, j \in DOMAIN f : i < j => f[i] < f[j]}
TakenPlaces(p, keep) == {i \in DOMAIN p.input : ~p.input[i].letter /\ p.input[i].event \in keep}
Closed(p, keep, order) ==
    [p EXCEPT !.open = FALSE, !.input = <<>>,
              !.log  = @ \o [i \in DOMAIN order |-> p.input[order[i]].event],
              !.dead = @ \union {e \in keep : \E i \in DOMAIN p.input : p.input[i] = [event |-> e, letter |-> TRUE]},
              !.lost = @ \union ({p.input[i].event : i \in DOMAIN p.input} \ keep)]
Closes(p, new) ==
    \E keep \in SUBSET {p.input[i].event : i \in DOMAIN p.input} :
        \E order \in InOrder(TakenPlaces(p, keep)) : new = Closed(p, keep, order)

-----------------------------------------------------------------------------
(* pkg/eventbus/kafka_event_bus.go, one event type and so one topic.       *)
(* kbBus.stop: how far a Stop that holds the bus's lock has come.          *)
(* kbSlots: the handlers' array, shared with whoever is ranging over it.   *)

Bus    == [config : BusConfigs, up : BOOLEAN, started : BOOLEAN, cancelled : BOOLEAN,
           stop : {"none", "producer", "consumer", "wait"}, consumer : {"none", "open", "closed"},
           calls : 0..MaxBusCalls]
Reader == [pc : {"off", "idle", "lookup", "calling"}, array : Seq(BusHandlers), count : Nat,
           shared : BOOLEAN, next : Nat]
Off    == [pc |-> "off", array |-> <<>>, count |-> 0, shared |-> FALSE, next |-> 1]
NewKafkaEventBus(c) == [config |-> c, up |-> TRUE, started |-> FALSE, cancelled |-> FALSE,
                        stop |-> "none", consumer |-> "none", calls |-> 0]

KbInit == /\ kbBus \in {NewKafkaEventBus(c) : c \in BusConfigs}
          /\ kbPipe = [Open EXCEPT !.open = FALSE]
          /\ kbSlots = [array |-> <<>>, count |-> 0]
          /\ kbReader = Off /\ kbMark = 0
          /\ kbTried = {} /\ kbCalls = <<>> /\ kbFaults = 0

Unlocked == kbBus.up /\ kbBus.stop = "none"
MayCall  == Unlocked /\ kbBus.calls < MaxBusCalls
Called   == [kbBus EXCEPT !.calls = @ + 1]

(* Start opens a producer; it starts no consumer for the handlers that are *)
(* already there, and does not renew a cancelled context.                  *)
Start ==
    /\ MayCall /\ ~kbBus.started
    /\ IF applySecurity(kbBus.config) /\ ProducerAccepted(kbBus.config)
       THEN kbBus' = [Called EXCEPT !.started = TRUE] /\ kbPipe' = [kbPipe EXCEPT !.open = TRUE]
       ELSE kbBus' = Called /\ UNCHANGED kbPipe
    /\ UNCHANGED <<kbSlots, kbReader, kbMark, kbTried, kbCalls, kbFaults>>

(* Publish looks at started without the lock: a Stop that has closed the   *)
(* producer but not yet cleared the flag makes the send panic.  With the   *)
(* context cancelled the select may choose either ready case.              *)
Publish(e) ==
    /\ kbBus.up /\ kbBus.started
    /\ e \notin Logged(kbPipe) \union Held(kbPipe) \union kbPipe.dead \union kbPipe.lost
    /\ IF kbPipe.open
       THEN ~Full(kbPipe) /\ kbPipe' = Put(kbPipe, Plain(e)) /\ UNCHANGED <<kbBus, kbReader, kbFaults>>
       ELSE /\ kbFaults < MaxKafkaFaults /\ kbFaults' = kbFaults + 1
            /\ kbBus' = [kbBus EXCEPT !.up = FALSE] /\ kbReader' = Off
            /\ kbPipe' = Crashed(kbPipe)
    /\ UNCHANGED <<kbSlots, kbMark, kbTried, kbCalls>>

(* Append writes in place while the array has room (Go doubles it). *)
Grown(n) == \E k \in {0, 1, 2, 4} : n = k
Subscribe(h) ==
    /\ MayCall
    /\ LET inPlace == kbSlots.count < Len(kbSlots.array)
           fits    == inPlace \/ ~Grown(kbSlots.count)
           array   == Append(SubSeq(kbSlots.array, 1, kbSlots.count), h)
                      \o SubSeq(kbSlots.array, kbSlots.count + 2, Len(kbSlots.array)) IN
       /\ kbSlots' = [array |-> array, count |-> kbSlots.count + 1]
       /\ IF fits /\ kbReader.shared THEN kbReader' = [kbReader EXCEPT !.array = array]
          ELSE IF kbBus.started /\ kbBus.consumer = "none" /\ ~kbBus.cancelled
          THEN kbReader' = [Off EXCEPT !.pc = "idle"]
          ELSE kbReader' = [kbReader EXCEPT !.shared = FALSE]
    /\ kbBus' = [Called EXCEPT !.consumer = IF kbBus.started /\ @ = "none" THEN "open" ELSE @]
    /\ UNCHANGED <<kbPipe, kbMark, kbTried, kbCalls, kbFaults>>

(* append(handlers[:i], handlers[i+1:]...) moves the tail of the shared    *)
(* array down: a loop in progress over it sees the moved entries.          *)
Unsubscribe(h) ==
    /\ MayCall
    /\ \E i \in 1..kbSlots.count :
        /\ kbSlots.array[i] = h /\ \A j \in 1..(i - 1) : kbSlots.array[j] # h
        /\ LET array == [j \in DOMAIN kbSlots.array |->
                            IF i <= j /\ j < kbSlots.count THEN kbSlots.array[j + 1] ELSE kbSlots.array[j]] IN
           /\ kbSlots' = [array |-> array, count |-> kbSlots.count - 1]
           /\ kbReader' = IF kbReader.shared THEN [kbReader EXCEPT !.array = array] ELSE kbReader
    /\ kbBus' = Called
    /\ UNCHANGED <<kbPipe, kbMark, kbTried, kbCalls, kbFaults>>

(* ConsumeClaim: next message; it may be chosen over a cancelled context. *)
NextMessage ==
    /\ kbReader.pc = "idle" /\ kbMark < Len(kbPipe.log)
    /\ kbReader' = [kbReader EXCEPT !.pc = "lookup"]
    /\ UNCHANGED <<kbBus, kbPipe, kbSlots, kbMark, kbTried, kbCalls, kbFaults>>

Message0 == kbPipe.log[kbMark + 1]

(* A topic is anybody's: what another producer writes there (the outbox    *)
(* publisher's message is the bare payload) is not JSON or has no          *)
(* event_type.  Each such message is written once at most.                 *)
ForeignMessage(r) ==
    /\ r \notin Logged(kbPipe)
    /\ kbPipe' = [kbPipe EXCEPT !.log = Append(@, r)]
    /\ UNCHANGED <<kbBus, kbSlots, kbReader, kbMark, kbTried, kbCalls, kbFaults>>

(* handleEvent reads the slice under the read lock, and ranges over it     *)
(* after giving the lock back.  Stop keeps the write lock until the end.   *)
HandleEvent ==
    /\ kbReader.pc = "lookup" /\ Message0 \in BusEvents /\ Unlocked
    /\ kbReader' = [pc |-> "calling", array |-> kbSlots.array, count |-> kbSlots.count,
                    shared |-> TRUE, next |-> 1]
    /\ kbTried' = IF kbSlots.count = 0 THEN kbTried \union {Message0} ELSE kbTried
    /\ UNCHANGED <<kbBus, kbPipe, kbSlots, kbMark, kbCalls, kbFaults>>

(* What does not decode, or has no event_type, meets no lock and no        *)
(* handler, and is marked.                                                 *)
NotAnEvent ==
    /\ kbReader.pc = "lookup" /\ Message0 \notin BusEvents
    /\ kbMark' = kbMark + 1
    /\ kbReader' = [Off EXCEPT !.pc = "idle"]
    /\ UNCHANGED <<kbBus, kbPipe, kbSlots, kbTried, kbCalls, kbFaults>>

(* handleEventSafely: an error or a panic of a handler is counted and      *)
(* logged, and the next handler is called.                                 *)
CallHandler ==
    /\ kbReader.pc = "calling" /\ kbReader.next <= kbReader.count
    /\ kbCalls' = Append(kbCalls, <<kbReader.array[kbReader.next], Message0>>)
    /\ kbReader' = [kbReader EXCEPT !.next = @ + 1]
    /\ kbTried' = IF kbReader.next = kbReader.count THEN kbTried \union {Message0} ELSE kbTried
    /\ UNCHANGED <<kbBus, kbPipe, kbSlots, kbMark, kbFaults>>

(* The message is marked whatever its handlers returned. *)
MarkMessage ==
    /\ kbReader.pc = "calling" /\ kbReader.next > kbReader.count
    /\ kbMark' = kbMark + 1
    /\ kbReader' = [Off EXCEPT !.pc = "idle"]
    /\ UNCHANGED <<kbBus, kbPipe, kbSlots, kbTried, kbCalls, kbFaults>>

(* The session ends with the context, and runConsumer with it. *)
SessionEnds ==
    /\ kbReader.pc = "idle" /\ (kbBus.cancelled \/ kbBus.consumer = "closed")
    /\ kbReader' = Off
    /\ UNCHANGED <<kbBus, kbPipe, kbSlots, kbMark, kbTried, kbCalls, kbFaults>>

(* The producer's side; the error loop stops with the context. *)
BrokerAnswers ==
    /\ kbPipe.input # <<>>
    /\ \/ kbPipe' = Sent(kbPipe) /\ UNCHANGED kbFaults
       \/ kbFaults < MaxKafkaFaults /\ kbFaults' = kbFaults + 1 /\ kbPipe' = Refused(kbPipe)
    /\ UNCHANGED <<kbBus, kbSlots, kbReader, kbMark, kbTried, kbCalls>>
handleProducerErrors ==
    \E m \in kbPipe.failed :
        /\ IF kbPipe.open
           THEN kbPipe' = sendToDeadLetterQueue(kbPipe, m, kbBus.config.deadLetterTopic)
                /\ UNCHANGED <<kbBus, kbReader>>
           ELSE /\ kbBus' = [kbBus EXCEPT !.up = FALSE] /\ kbReader' = Off
                /\ kbPipe' = Crashed(kbPipe)
        /\ UNCHANGED <<kbSlots, kbMark, kbTried, kbCalls, kbFaults>>

(* Stop takes the lock, cancels, closes the producer, then the consumer    *)
(* (which waits for its session), then waits for every goroutine.          *)
Stop ==
    /\ MayCall /\ kbBus.started
    /\ kbBus' = [Called EXCEPT !.stop = "producer", !.cancelled = TRUE]
    /\ UNCHANGED <<kbPipe, kbSlots, kbReader, kbMark, kbTried, kbCalls, kbFaults>>
CloseProducer ==
    /\ kbBus.stop = "producer"
    /\ Closes(kbPipe, kbPipe')
    /\ kbBus' = [kbBus EXCEPT !.stop = "consumer"]
    /\ UNCHANGED <<kbSlots, kbReader, kbMark, kbTried, kbCalls, kbFaults>>
CloseConsumer ==
    /\ kbBus.stop = "consumer" /\ kbReader.pc = "off"
    /\ kbBus' = [kbBus EXCEPT !.stop = "wait", !.consumer = IF @ = "open" THEN "closed" ELSE @]
    /\ UNCHANGED <<kbPipe, kbSlots, kbReader, kbMark, kbTried, kbCalls, kbFaults>>
Stopped ==
    /\ kbBus.stop = "wait" /\ kbReader.pc = "off"
    /\ kbBus' = [kbBus EXCEPT !.stop = "none", !.started = FALSE]
    /\ UNCHANGED <<kbPipe, kbSlots, kbReader, kbMark, kbTried, kbCalls, kbFaults>>

(* The process dies; a new one has a new bus, the brokers keep their logs. *)
Crash ==
    /\ kbBus.up /\ kbFaults < MaxKafkaFaults /\ kbFaults' = kbFaults + 1
    /\ kbBus' = [kbBus EXCEPT !.up = FALSE, !.stop = "none"]
    /\ kbPipe' = Crashed(kbPipe) /\ kbReader' = Off
    /\ UNCHANGED <<kbSlots, kbMark, kbTried, kbCalls>>
Reboot ==
    /\ ~kbBus.up
    /\ kbBus' = [NewKafkaEventBus(kbBus.config) EXCEPT !.calls = kbBus.calls]
    /\ kbSlots' = [array |-> <<>>, count |-> 0]
    /\ UNCHANGED <<kbPipe, kbReader, kbMark, kbTried, kbCalls, kbFaults>>

KbNext == \/ Start \/ Stop \/ CloseProducer \/ CloseConsumer \/ Stopped \/ Crash \/ Reboot
          \/ \E e \in BusEvents : Publish(e)
          \/ \E h \in BusHandlers : Subscribe(h) \/ Unsubscribe(h)
          \/ \E r \in OutboxRows : ForeignMessage(r)
          \/ NextMessage \/ HandleEvent \/ NotAnEvent \/ CallHandler \/ MarkMessage \/ SessionEnds
          \/ BrokerAnswers \/ handleProducerErrors

-----------------------------------------------------------------------------
(* pkg/eventbus/optimized_kafka.go.  Nothing registers a handler in the    *)
(* code, so a handler here is one a caller put into the map.  obUp: the    *)
(* process; "ready" once a session has closed the channel of that name.    *)

ObInit == /\ obUp = "fresh" /\ obPipe = Open /\ obBatch = <<>> /\ obReader = "off"
          /\ obMark = 0 /\ obTried = {} /\ obFaults = 0

(* PublishBatch gives each event to the channel and waits where it is      *)
(* full; an event that cannot be serialized is skipped without an error.   *)
(* After Close the send panics, unless the select sees the cancelled       *)
(* context first and the caller gets an error.                             *)
PublishBatch(e) ==
    /\ obUp # "down" /\ e \notin Logged(obPipe) \union Held(obPipe) \union obPipe.dead \union obPipe.lost
    /\ \/ /\ obUp \in {"fresh", "ready"} /\ obPipe.open /\ ~Full(obPipe)
          /\ \/ obPipe' = Put(obPipe, Plain(e)) /\ UNCHANGED obFaults
             \/ obFaults < MaxKafkaFaults /\ obFaults' = obFaults + 1
                /\ obPipe' = [obPipe EXCEPT !.lost = @ \union {e}]
          /\ UNCHANGED <<obUp, obReader, obBatch>>
       \/ /\ obUp = "closing" /\ UNCHANGED obFaults
          /\ obUp' = "down" /\ obPipe' = Crashed(obPipe) /\ obReader' = "off" /\ obBatch' = <<>>
    /\ UNCHANGED <<obMark, obTried>>

(* Errors of this producer are counted, and that is all. *)
ObBrokerAnswers ==
    /\ obPipe.input # <<>>
    /\ \/ obPipe' = Sent(obPipe) /\ UNCHANGED obFaults
       \/ obFaults < MaxKafkaFaults /\ obFaults' = obFaults + 1
          /\ obPipe' = [obPipe EXCEPT !.input = Tail(@), !.lost = @ \union {Head(obPipe.input).event}]
    /\ UNCHANGED <<obUp, obBatch, obReader, obMark, obTried>>

(* Setup closes the channel ready: the first session reports that the bus  *)
(* consumes, the second (a rebalance, or the next of the parallel          *)
(* consumers) closes it again, which panics and takes the process down.    *)
Setup ==
    /\ obReader = "off" /\ obPipe.open
    /\ \/ obUp = "fresh" /\ obUp' = "ready" /\ obReader' = "idle" /\ UNCHANGED obPipe
       \/ obUp = "ready" /\ obUp' = "down" /\ UNCHANGED obReader /\ obPipe' = Crashed(obPipe)
    /\ UNCHANGED <<obBatch, obMark, obTried, obFaults>>

Fetched == obMark + Len(obBatch)

(* ConsumeClaim: a message joins the batch; a full batch or the timer      *)
(* starts processing; a closed claim drops the batch, unmarked; the end of *)
(* the session's context processes what is there first.                    *)
Collect ==
    /\ obReader = "idle" /\ Fetched < Len(obPipe.log) /\ Len(obBatch) < KafkaBatch
    /\ obBatch' = Append(obBatch, obPipe.log[Fetched + 1])
    /\ obReader' = IF Len(obBatch') = KafkaBatch THEN "batch" ELSE "idle"
    /\ UNCHANGED <<obUp, obPipe, obMark, obTried, obFaults>>
BatchTimer ==
    /\ obReader = "idle" /\ obBatch # <<>> /\ obReader' = "batch"
    /\ UNCHANGED <<obUp, obPipe, obBatch, obMark, obTried, obFaults>>
ClaimClosed ==
    /\ obReader = "idle" /\ obFaults < MaxKafkaFaults /\ obFaults' = obFaults + 1
    /\ obReader' = "off" /\ obBatch' = <<>>
    /\ UNCHANGED <<obUp, obPipe, obMark, obTried>>
SessionDone ==
    /\ obReader = "idle" /\ (obUp = "closing" \/ obFaults < MaxKafkaFaults)
    /\ obFaults' = IF obUp = "closing" THEN obFaults ELSE obFaults + 1
    /\ obReader' = IF obBatch = <<>> THEN "off" ELSE "last"
    /\ UNCHANGED <<obUp, obPipe, obBatch, obMark, obTried>>

(* processBatch, one message at a time: all handlers run side by side and  *)
(* are waited for; a failure becomes a dead letter if the channel has room *)
(* (a send to the closed producer panics); the message is marked anyway.   *)
MarkNext ==
    /\ obBatch' = Tail(obBatch) /\ obMark' = obMark + 1 /\ UNCHANGED obUp
    /\ obReader' = IF Len(obBatch) > 1 THEN obReader ELSE IF obReader = "last" THEN "off" ELSE "idle"
ProcessMessage ==
    /\ obReader \in {"batch", "last"} /\ obBatch # <<>>
    /\ obTried' = obTried \union {Head(obBatch)}
    /\ \/ MarkNext /\ UNCHANGED <<obPipe, obFaults>>
       \/ /\ obFaults < MaxKafkaFaults /\ obFaults' = obFaults + 1
          /\ \/ obPipe.open /\ MarkNext /\ obPipe' = sendToDeadLetterQueue(obPipe, Plain(Head(obBatch)), TRUE)
             \/ ~obPipe.open /\ obUp' = "down" /\ obReader' = "off" /\ obBatch' = <<>>
                /\ UNCHANGED <<obPipe, obMark>>

(* Close cancels, closes the producer and only then the consumer group. *)
CloseOptimized ==
    /\ obUp = "ready" /\ obUp' = "closing"
    /\ Closes(obPipe, obPipe')
    /\ UNCHANGED <<obBatch, obReader, obMark, obTried, obFaults>>
ObCrash ==
    /\ obUp = "ready" /\ obFaults < MaxKafkaFaults /\ obFaults' = obFaults + 1
    /\ obUp' = "down" /\ obPipe' = Crashed(obPipe) /\ obReader' = "off" /\ obBatch' = <<>>
    /\ UNCHANGED <<obMark, obTried>>
ObReboot ==
    /\ obUp = "down" \/ (obUp = "closing" /\ obReader = "off")
    /\ obUp' = "fresh" /\ obPipe' = [obPipe EXCEPT !.open = TRUE] /\ obBatch' = <<>>
    /\ UNCHANGED <<obReader, obMark, obTried, obFaults>>

ObNext == \/ \E e \in BusEvents : PublishBatch(e)
          \/ ObBrokerAnswers \/ Setup \/ Collect \/ BatchTimer \/ ClaimClosed \/ SessionDone
          \/ ProcessMessage \/ CloseOptimized \/ ObCrash \/ ObReboot

-----------------------------------------------------------------------------
(* pkg/outbox/kafka_publisher.go: Publish returns nil once the channel     *)
(* took the message, and the outbox then marks the entry processed.        *)

KpInit == /\ kpPipe = Open /\ kpFaults = 0 /\ kpRows = [r \in OutboxRows |-> "pending"]

(* After Close a send panics (or the context ends first); so does a dead   *)
(* letter that was still to be sent.  The entry is then as it was.         *)

\* Mutant: an entry that the full channel did not take is marked processed.
KpPublishDropping(r) ==
    /\ kpRows[r] = "pending"
    /\ \/ kpPipe.open /\ ~Full(kpPipe) /\ kpPipe' = Put(kpPipe, Plain(r)) /\ UNCHANGED kpFaults
          /\ kpRows' = [kpRows EXCEPT ![r] = "processed"]
       \/ (kpPipe.open => Full(kpPipe)) /\ kpFaults < MaxKafkaFaults /\ kpFaults' = kpFaults + 1
          /\ kpRows' = [kpRows EXCEPT ![r] = "processed"] /\ UNCHANGED kpPipe
       \/ ~kpPipe.open /\ kpPipe' = Crashed(kpPipe) /\ UNCHANGED <<kpRows, kpFaults>>
KpPublish(r) ==
    /\ kpRows[r] = "pending"
    /\ \/ kpPipe.open /\ ~Full(kpPipe) /\ kpPipe' = Put(kpPipe, Plain(r)) /\ UNCHANGED kpFaults
          /\ kpRows' = [kpRows EXCEPT ![r] = "processed"]
       \/ (kpPipe.open => Full(kpPipe)) /\ kpFaults < MaxKafkaFaults /\ kpFaults' = kpFaults + 1  \* the context ends
          /\ kpRows' = [kpRows EXCEPT ![r] = "failed"] /\ UNCHANGED kpPipe
       \/ ~kpPipe.open /\ kpPipe' = Crashed(kpPipe) /\ UNCHANGED <<kpRows, kpFaults>>
KpBrokerAnswers ==
    /\ kpPipe.input # <<>>
    /\ \/ kpPipe' = Sent(kpPipe) /\ UNCHANGED kpFaults
       \/ kpFaults < MaxKafkaFaults /\ kpFaults' = kpFaults + 1 /\ kpPipe' = Refused(kpPipe)
    /\ UNCHANGED kpRows
handleProducerMessages ==
    /\ \E m \in kpPipe.failed :
          kpPipe' = IF kpPipe.open THEN sendToDeadLetterQueue(kpPipe, m, TRUE) ELSE Crashed(kpPipe)
    /\ UNCHANGED <<kpRows, kpFaults>>
KpClose ==
    /\ kpPipe.open
    /\ Closes(kpPipe, kpPipe')
    /\ UNCHANGED <<kpRows, kpFaults>>
(* The process that closed it, or whose send panicked, is started again. *)
KpRestart ==
    /\ ~kpPipe.open
    /\ kpPipe' = [Crashed(kpPipe) EXCEPT !.open = TRUE]
    /\ UNCHANGED <<kpRows, kpFaults>>

KpNext == \/ \E r \in OutboxRows : KpPublish(r)
          \/ KpBrokerAnswers \/ handleProducerMessages \/ KpClose \/ KpRestart

-----------------------------------------------------------------------------
(* Properties *)

PipeOK(p) == /\ p.open \in BOOLEAN /\ p.input \in Seq(Message) /\ Len(p.input) <= InputCap
             /\ p.log \in Seq(BusEvents \union OutboxRows) /\ p.failed \subseteq Message
             /\ p.dead \union p.lost \subseteq BusEvents \union OutboxRows

(* The types of the three publishers' states. *)
KafkaTypeOK ==
    /\ kbBus \in Bus /\ kbReader \in Reader /\ PipeOK(kbPipe) /\ PipeOK(obPipe) /\ PipeOK(kpPipe)
    /\ kbSlots.array \in Seq(BusHandlers) /\ kbSlots.count \in 0..Len(kbSlots.array)
    /\ kbMark \in 0..Len(kbPipe.log) /\ obMark \in 0..Len(obPipe.log)
    /\ obUp \in {"fresh", "ready", "down", "closing"} /\ obReader \in {"off", "idle", "batch", "last"}
    /\ kpRows \in [OutboxRows -> {"pending", "processed", "failed"}]

(* A Stop that has come back leaves nobody inside a handler and no         *)
(* consumer: runConsumer is waited for (kafka_event_bus.go, Stop).         *)
StoppedIsQuiet == kbBus.cancelled /\ ~kbBus.started => kbReader.pc = "off"

(* The mark of a consumer group never passes an event before the loop over *)
(* its handlers was through (the bus) or its processing was begun (the     *)
(* optimized bus), across crashes, stops, rebalances and batches that are  *)
(* dropped.  A message that is no event of the bus is marked with no       *)
(* handler called (kafka_event_bus.go, ConsumeClaim).                      *)
MarkedWasTried == /\ \A i \in 1..kbMark : kbPipe.log[i] \in kbTried \union OutboxRows
                  /\ \A i \in 1..obMark : obPipe.log[i] \in obTried

(* A handler meets the events for the first time in the order of the log. *)
FirstCallsInOrder ==
    \A h \in BusHandlers : \A i, j \in DOMAIN kbCalls :
        (/\ i < j /\ kbCalls[i][1] = h /\ kbCalls[j][1] = h
         /\ \A k \in 1..(j - 1) : kbCalls[k] # kbCalls[j])
            => \E a, b \in DOMAIN kbPipe.log : a < b /\ kbPipe.log[a] = kbCalls[i][2] /\ kbPipe.log[b] = kbCalls[j][2]

(* An entry the outbox marked processed is on its way, delivered, dead     *)
(* lettered or given up by a producer that refused it and had no room.     *)
ProcessedWasAccepted ==
    \A r \in OutboxRows : kpRows[r] = "processed" =>
        r \in Held(kpPipe) \union Logged(kpPipe) \union kpPipe.dead \union kpPipe.lost

KafkaSafety == StoppedIsQuiet /\ MarkedWasTried /\ FirstCallsInOrder /\ ProcessedWasAccepted
=============================================================================

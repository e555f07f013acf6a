------------------------------ MODULE Producer ------------------------------
(***************************************************************************)
(* BaseKafkaProducerRepository (share/kafka/producer.py) in one process:   *)
(* several coroutines call create or bulk_create, the first of them makes  *)
(* and starts the class-level AIOKafkaProducer, and what they send reaches *)
(* one partition of the topic some time later.                             *)
(*                                                                         *)
(* aiokafka is external.  send waits for metadata, which a producer has    *)
(* only when it has been started, then stamps the record with the current  *)
(* time and puts it into the producer's buffer.  A sender task delivers    *)
(* the buffer in order, one batch of a partition at a time; when an answer *)
(* is lost it delivers again, and a record that has waited for             *)
(* request_timeout_ms is given up: its future gets an exception, which     *)
(* nobody awaits.  A producer whose start has failed has no sender task    *)
(* and never gets metadata.                                                *)
(***************************************************************************)
EXTENDS Naturals, Sequences, FiniteSets

CONSTANTS
    Senders,    \* coroutines, each of which sends once
    Bulk,       \* how many events each sends: one is create, more are bulk_create
    MaxTime,    \* bound: clock
    MaxFaults   \* bound: failures, of the consumer below too

ASSUME ProducerAssumption ==
    /\ {MaxTime, MaxFaults} \subseteq Nat
    /\ Bulk \in [Senders -> Nat \ {0}]

VARIABLES
    now,        \* clock
    faults,     \* how much has failed
    producer,   \* the class attribute _producer
    made,       \* history: AIOKafkaProducers made by the process that runs
    sender,     \* where a coroutine is
    sent,       \* how many of its events it has handed over
    buffer,     \* the records the producer has not delivered
    dropped,    \* history: events the producer gave up or took with it
    log         \* the records of the partition; offset o is log[o + 1]

sendingVars == <<producer, made, sender, sent, buffer, dropped>>
producerVars == <<now, faults, sendingVars, log>>

Event(s, i) == [by |-> s, number |-> i]
Events == UNION {{Event(s, i) : i \in 1 .. Bulk[s]} : s \in Senders}
Records == [event : Events, at : 0 .. MaxTime]

Contents(records) == {records[i].event : i \in DOMAIN records}

ProducerTypeOK ==
    /\ now \in 0 .. MaxTime
    /\ faults \in 0 .. MaxFaults
    /\ producer \in {"none", "starting", "started", "broken"}
    /\ made \in Nat
    /\ sender \in [Senders -> {"new", "starting", "sending", "ended"}]
    /\ sent \in [Senders -> Nat]
    /\ \A s \in Senders : sent[s] <= Bulk[s]
    /\ buffer \in Seq(Records) /\ log \in Seq(Records)
    /\ dropped \subseteq Events

ProducerInit ==
    /\ now = 0 /\ faults = 0
    /\ producer = "none" /\ made = 0
    /\ sender = [s \in Senders |-> "new"]
    /\ sent = [s \in Senders |-> 0]
    /\ buffer = <<>> /\ dropped = {}
    /\ log = <<>>

Fault == faults < MaxFaults /\ faults' = faults + 1

Advance(s, from, to) == sender[s] = from /\ sender' = [sender EXCEPT ![s] = to]

\* Mutant: the class attribute is set when the producer has been started.
GetProducerUnset(s) ==
    /\ IF producer = "started"
       THEN Advance(s, "new", "sending") /\ UNCHANGED made
       ELSE Advance(s, "new", "starting") /\ made' = made + 1
    /\ UNCHANGED <<now, faults, producer, sent, buffer, dropped, log>>

\* _get_producer: whoever comes first makes the producer, sets it, and then awaits its start.
GetProducer(s) ==
    /\ IF producer = "none"
       THEN Advance(s, "new", "starting") /\ producer' = "starting" /\ made' = made + 1
       ELSE Advance(s, "new", "sending") /\ UNCHANGED <<producer, made>>
    /\ UNCHANGED <<now, faults, sent, buffer, dropped, log>>

Started(s) ==
    /\ Advance(s, "starting", "sending")
    /\ producer' = "started"
    /\ UNCHANGED <<now, faults, made, sent, buffer, dropped, log>>

\* No broker answers, or the coroutine is cancelled: the attribute stays set.
StartFails(s) ==
    /\ Advance(s, "starting", "ended")
    /\ producer' = "broken"
    /\ Fault
    /\ UNCHANGED <<now, made, sent, buffer, dropped, log>>

\* The events of s that are left to send.
Left(s) == {i \in 1 .. Bulk[s] : Event(s, i) \notin Contents(buffer) \cup Contents(log) \cup dropped}

HandOver(s, i) ==
    /\ sender[s] = "sending"
    /\ producer = "started"
    /\ buffer' = Append(buffer, [event |-> Event(s, i), at |-> now])
    /\ sent' = [sent EXCEPT ![s] = @ + 1]
    /\ sender' = [sender EXCEPT ![s] = IF sent'[s] = Bulk[s] THEN "ended" ELSE @]
    /\ UNCHANGED <<now, faults, producer, made, dropped, log>>

\* Mutant: asyncio.gather over the events.
SendGathered(s) == \E i \in Left(s) : HandOver(s, i)

\* One send of create or bulk_create; it waits while the producer is not started.
Send(s) == HandOver(s, sent[s] + 1)

\* A send raises, the coroutine is cancelled: the rest of its events is not sent.
SendFails(s) ==
    /\ Advance(s, "sending", "ended")
    /\ Fault
    /\ UNCHANGED <<now, producer, made, sent, buffer, dropped, log>>

\* A record arrives, and its answer, or only the record.
Deliver ==
    /\ buffer # <<>>
    /\ log' = Append(log, Head(buffer))
    /\ \/ buffer' = Tail(buffer) /\ UNCHANGED faults
       \/ UNCHANGED buffer /\ Fault
    /\ UNCHANGED <<now, producer, made, sender, sent, dropped>>

GiveUp ==
    /\ buffer # <<>>
    /\ buffer' = Tail(buffer)
    /\ dropped' = dropped \cup {Head(buffer).event}
    /\ Fault
    /\ UNCHANGED <<now, producer, made, sender, sent, log>>

\* The process dies with its buffer; another one takes its place.
ProcessDies ==
    /\ producer # "none"
    /\ producer' = "none" /\ made' = 0
    /\ sender' = [s \in Senders |-> IF sender[s] = "new" THEN "new" ELSE "ended"]
    /\ dropped' = dropped \cup Contents(buffer)
    /\ buffer' = <<>>
    /\ Fault
    /\ UNCHANGED <<now, sent, log>>

Sending(s) == GetProducer(s) \/ Started(s) \/ StartFails(s) \/ Send(s) \/ SendFails(s)

ProducerNext == Deliver \/ GiveUp \/ ProcessDies \/ \E s \in Senders : Sending(s)
-----------------------------------------------------------------------------
(***************************************************************************)
(* However many coroutines find no producer at the same time, a process    *)
(* makes one AIOKafkaProducer: a second one would leak its connections and *)
(* its sender task, and break the order of events (producer.py:59-70).     *)
(***************************************************************************)
OneProducer == made <= 1

(***************************************************************************)
(* What one call sends arrives in the order of the list: no event of it is *)
(* in the partition before an earlier one, unless the producer gave the    *)
(* earlier one up (producer.py:76-79).                                     *)
(***************************************************************************)
BulkInOrder ==
    \A p \in DOMAIN log : \A i \in 1 .. log[p].event.number - 1 :
        LET earlier == [log[p].event EXCEPT !.number = i]
        IN  earlier \in dropped \cup Contents(SubSeq(log, 1, p - 1))
=============================================================================

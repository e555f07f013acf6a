---------------------------- MODULE DirectConsumer ----------------------------
(***************************************************************************)
(* BaseKafkaConsumerRepository (share/kafka/consumer.py) used without the  *)
(* maker, with a threshold:                                                *)
(*                                                                         *)
(*     repo = SomeConsumerRepository(partition); await repo.start()        *)
(*     async for batch in repo.get_batches(timestamp_threshold_minutes=T): *)
(*         await do_something(batch); await repo.commit()                  *)
(*     await repo.commit(); await repo.stop()                              *)
(*                                                                         *)
(* one task at a time, again and again, while records are produced and     *)
(* the clock goes on.  The commit inside the loop is optional, the one     *)
(* behind it is not, and every started repository is iterated once: a      *)
(* second get_batches would go on behind the records the first one         *)
(* filtered out.                                                           *)
(*                                                                         *)
(* The records come from Producer: they carry the time at which they were  *)
(* sent and arrive later.  Kafka and aiokafka are external:                *)
(* offsets_for_times answers the offset of the first record that is not    *)
(* older than a time, or nothing.                                          *)
(***************************************************************************)
EXTENDS Producer

CONSTANTS
    Age,        \* timestamp_threshold_minutes, in clock ticks
    BatchSize,  \* batch_size
    FillRatio,  \* min_batch_fill_ratio, in hundredths
    NoLimit     \* offset_limit is None

\* What __init_subclass__ accepts; a negative batch_size passes as well.
AcceptedAttributes == BatchSize # 0 /\ FillRatio \in 0 .. 100

ASSUME ParameterAssumption ==
    /\ AcceptedAttributes
    /\ {Age, BatchSize} \subseteq Nat
    /\ NoLimit \notin Nat

\* The fewest records that do not make should_break true.
MinFill == (BatchSize * FillRatio + 99) \div 100

VARIABLES
    committed,  \* the group's committed offset
    handled,    \* history: offsets the caller has finished with
    pc,         \* where the task is
    threshold,  \* threshold_ms of the task
    limit,      \* offset_limit
    first,      \* offset of the first record of the last poll
    position,   \* fetch position
    processed   \* _processed_offsets[partition], 0 when the dict is empty

taskVars == <<pc, threshold, limit, first, position, processed>>
consumerVars == <<committed, handled, taskVars>>
vars == <<producerVars, consumerVars>>

Offsets == 0 .. Len(log) - 1
Stamp(o) == log[o + 1].at

\* An event that was sent, and is older than the threshold before the clock stops.
OldEnough(e) ==
    \E r \in {buffer[i] : i \in DOMAIN buffer} \cup {log[i] : i \in DOMAIN log} :
        r.event = e /\ r.at < MaxTime - Age

TypeOK ==
    /\ ProducerTypeOK
    /\ handled \subseteq Offsets
    /\ pc \in {"idle", "asking", "polling", "body", "resuming", "leaving"}
    /\ threshold \in 0 .. now
    /\ limit \in Offsets \cup {NoLimit}
    /\ committed \in 0 .. Len(log)
    /\ position \in 0 .. Len(log)
    /\ first \in 0 .. position
    /\ processed \in 0 .. position

Init ==
    /\ ProducerInit
    /\ committed = 0
    /\ handled = {}
    /\ pc = "idle" /\ threshold = 0 /\ limit = NoLimit
    /\ first = 0 /\ position = 0 /\ processed = 0

Goto(from, to) == pc = from /\ pc' = to

\* The task is over, and its repository with it.
EndTask ==
    /\ pc' = "idle" /\ threshold' = 0 /\ limit' = NoLimit
    /\ first' = 0 /\ position' = 0 /\ processed' = 0

\* Time passes.
Tick ==
    /\ now < MaxTime
    /\ now' = now + 1
    /\ UNCHANGED <<faults, sendingVars, log, consumerVars>>

\* Mutant: without the group's offset the repository begins with the first record.
StartAtBeginning ==
    /\ Goto("idle", "asking")
    /\ first' = 0
    /\ position' = 0
    /\ UNCHANGED <<producerVars, committed, handled, threshold, limit, processed>>

\* A repository is made and started: it begins at the committed offset.
Start ==
    /\ Goto("idle", "asking")
    /\ first' = committed
    /\ position' = committed
    /\ UNCHANGED <<producerVars, committed, handled, threshold, limit, processed>>

FirstSince(time) ==
    LET young == {o \in Offsets : Stamp(o) >= time}
    IN  IF young = {} THEN NoLimit ELSE CHOOSE o \in young : \A p \in young : o <= p

\* The threshold and the offset limit are found once, before the first poll.
Ask ==
    /\ Goto("asking", "polling")
    /\ threshold' = IF now > Age THEN now - Age ELSE 0
    /\ limit' = FirstSince(threshold')
    /\ UNCHANGED <<producerVars, committed, handled, first, position, processed>>

\* Mutant: the filter lets the first young record pass.
AdmittedInclusive(o) == limit = NoLimit \/ o <= limit

\* r.offset < offset_limit; without a limit everything passes.
Admitted(o) == limit = NoLimit \/ o < limit

\* The records of the last poll that are yielded.
Batch == {o \in first .. position - 1 : Admitted(o)}

\* getmany returns records; a batch is yielded unless all of them are filtered out.
Poll ==
    /\ pc = "polling"
    /\ \E n \in 1 .. BatchSize :
          /\ position + n <= Len(log)
          /\ first' = position
          /\ position' = position + n
    /\ pc' = IF \E o \in first' .. position' - 1 : Admitted(o) THEN "body" ELSE "leaving"
    /\ UNCHANGED <<producerVars, committed, handled, threshold, limit, processed>>

\* getmany returns nothing within poll_timeout_ms.
PollEmpty ==
    /\ Goto("polling", "leaving")
    /\ position = Len(log)
    /\ UNCHANGED <<producerVars, committed, handled, threshold, limit, first, position, processed>>

\* The caller is done with the batch.
HandleBatch ==
    /\ Goto("body", "resuming")
    /\ handled' = handled \cup Batch
    /\ UNCHANGED <<producerVars, committed, threshold, limit, first, position, processed>>

\* commit(): an empty _processed_offsets is not committed, and any other is cleared afterwards.
CommitOffset == IF processed = 0 THEN committed ELSE processed

\* The commit in the body, which the caller makes before it asks for the next batch, or does not.
Commit ==
    /\ pc = "resuming"
    /\ processed # 0
    /\ committed' = CommitOffset
    /\ processed' = 0
    /\ UNCHANGED <<producerVars, handled, pc, threshold, limit, first, position>>

AfterLast == CHOOSE o \in Batch : \A p \in Batch : p <= o

ShouldBreak == position - first < MinFill

\* Mutant: the offset of the last polled record is tracked, filtered out or not.
ResumePastFilter ==
    /\ pc = "resuming"
    /\ processed' = position
    /\ pc' = IF ShouldBreak THEN "leaving" ELSE "polling"
    /\ UNCHANGED <<producerVars, committed, handled, threshold, limit, first, position>>

\* Mutant: a small batch ends the loop before its offset is tracked.
ResumeBreaksFirst ==
    /\ pc = "resuming"
    /\ processed' = IF ShouldBreak THEN processed ELSE AfterLast + 1
    /\ pc' = IF ShouldBreak THEN "leaving" ELSE "polling"
    /\ UNCHANGED <<producerVars, committed, handled, threshold, limit, first, position>>

\* The generator is resumed: it tracks the offset behind the batch and goes on or breaks.
Resume ==
    /\ pc = "resuming"
    /\ processed' = AfterLast + 1
    /\ pc' = IF ShouldBreak THEN "leaving" ELSE "polling"
    /\ UNCHANGED <<producerVars, committed, handled, threshold, limit, first, position>>

\* The commit behind the loop, and stop().
Leave ==
    /\ pc = "leaving"
    /\ committed' = CommitOffset
    /\ EndTask
    /\ UNCHANGED <<producerVars, handled>>

\* The task dies, its body raises, or Kafka fails, anywhere.
Die ==
    /\ pc # "idle"
    /\ Fault
    /\ EndTask
    /\ UNCHANGED <<now, sendingVars, log, committed, handled>>

TaskStep == Start \/ Ask \/ Poll \/ PollEmpty \/ HandleBatch \/ Commit \/ Resume \/ Leave

Produce == ProducerNext /\ UNCHANGED consumerVars

Next == Tick \/ Produce \/ TaskStep \/ Die

Spec == Init /\ [][Next]_vars

(***************************************************************************)
(* Time passes, the producer's sender task delivers what it has, and the   *)
(* job that runs the consuming task runs it again and again.               *)
(***************************************************************************)
FairSpec ==
    /\ Spec
    /\ WF_vars(Tick)
    /\ WF_vars(TaskStep)
    /\ WF_vars(Deliver /\ UNCHANGED consumerVars)
-----------------------------------------------------------------------------
(***************************************************************************)
(* A record behind which the group has committed has been handled: the     *)
(* records a threshold filters out stay for a later run                    *)
(* (consumer.py:173-190).                                                  *)
(***************************************************************************)
NothingSkipped == 0 .. committed - 1 \subseteq handled

(***************************************************************************)
(* As long as Kafka knew a young record when the loop began, only records  *)
(* older than the threshold reach the caller, however long the loop goes   *)
(* on and whatever is produced meanwhile (consumer.py:148-153, 174-176).   *)
(***************************************************************************)
OlderBelowLimit ==
    (pc = "body" /\ limit # NoLimit) => \A o \in Batch : Stamp(o) < threshold

(***************************************************************************)
(* Only records older than the threshold reach the caller (get_batches,    *)
(* consumer.py:145: "Only messages OLDER than this threshold (in           *)
(* minutes) are included.").                                               *)
(***************************************************************************)
OnlyOlder == pc = "body" => \A o \in Batch : Stamp(o) < threshold

(***************************************************************************)
(* An event whose send has returned is handled and committed some day,     *)
(* once it is old enough, though younger ones follow it and tasks die; the *)
(* exceptions are what the producer gave up or took with it, which nobody  *)
(* is told (producer.py:72-79, consumer.py:148-193).                       *)
(***************************************************************************)
EventuallyHandled ==
    \A e \in Events :
        OldEnough(e) ~> \/ e \in dropped
                        \/ \E o \in handled : o < committed /\ log[o + 1].event = e

\* Nothing here bounds what a failure makes come again: the caller may leave every commit to the end.
Delivery == INSTANCE PartitionDelivery WITH logEnd <- Len(log), Window <- BatchSize

(***************************************************************************)
(* With a threshold, too, the records of the partition are delivered in    *)
(* order and at least once, none skipped for a younger one in front of it, *)
(* and the group's offset only moves on, whoever dies in between           *)
(* (consumer.py:143-207).                                                  *)
(***************************************************************************)
ImplementsDelivery == Delivery!ForwardSpec
=============================================================================

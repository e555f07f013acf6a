---------------------------- MODULE ConsumerMaker ----------------------------
(***************************************************************************)
(* KafkaConsumerRepositoryMaker (share/kafka/consumer_maker.py) over       *)
(* BaseKafkaConsumerRepository (share/kafka/consumer.py), for one          *)
(* partition: the workers whose tasks run                                  *)
(*                                                                         *)
(*     async with KafkaConsumerRepositoryMaker(...) as maker:              *)
(*         async for batch in maker.get_batches():                         *)
(*             await do_something(batch)                                   *)
(*                                                                         *)
(* contend for the partition's RedisLock, poll batches, hand them to the   *)
(* task's body and commit.  A worker's pc names the await it is at; every  *)
(* await is a point where another worker, the clock, a failure or a        *)
(* cancellation can come between.                                          *)
(*                                                                         *)
(* Offsets start at 0 (auto_offset_reset is 'earliest' and the log is not  *)
(* truncated).  processed = 0 stands for an empty _processed_offsets: the  *)
(* offset stored there is the one after a record, never 0.                 *)
(***************************************************************************)
EXTENDS RedisLock

CONSTANTS
    BatchSize,  \* batch_size, getmany's max_records
    MinFill,    \* the fewest records that do not make should_break true
    Poison,     \* offsets whose value the value_deserializer rejects
    MaxLog,     \* bound: records produced
    MaxFaults   \* bound: failures, cancellations, crashes and early exits

ASSUME BatchAssumption == /\ BatchSize \in Nat \ {0}
                          /\ MinFill \in 0..BatchSize
ASSUME LogAssumption == /\ MaxLog \in Nat
                        /\ MaxFaults \in Nat
                        /\ Poison \subseteq Nat

VARIABLES
    logEnd,     \* the partition's next offset
    committed,  \* the consumer group's committed offset
    handled,    \* history: offsets the body has finished with
    faults,     \* how many of the MaxFaults have happened
    pc,         \* the await each worker's task is at
    first,      \* offset of the first record of the worker's batch
    position,   \* the worker's fetch position: the offset after its batch
    processed   \* _processed_offsets[partition], 0 when the dict is empty

taskVars == <<pc, first, position, processed>>
vars == <<lockVars, logEnd, committed, handled, faults, taskVars>>

Batch(w) == first[w]..(position[w] - 1)

\* len(records) < batch_size * min_batch_fill_ratio
ShouldBreak(w) == position[w] - first[w] < MinFill

PC == {"idle", "starting", "positioning", "polling", "body", "extending",
       "committing", "resuming", "exiting", "stopping", "releasing"}

\* The task holds what its session believes is the lock.
InSession(w) == pc[w] # "idle"

TypeOK ==
    /\ LockTypeOK
    /\ logEnd \in 0..MaxLog
    /\ committed \in 0..logEnd
    /\ handled \subseteq 0..(logEnd - 1)
    /\ faults \in 0..MaxFaults
    /\ pc \in [Workers -> PC]
    /\ first \in [Workers -> 0..logEnd]
    /\ position \in [Workers -> 0..logEnd]
    /\ processed \in [Workers -> 0..logEnd]
    /\ \A w \in Workers : first[w] =< position[w]

Init ==
    /\ LockInit
    /\ logEnd = 0
    /\ committed = 0
    /\ handled = {}
    /\ faults = 0
    /\ pc = [w \in Workers |-> "idle"]
    /\ first = [w \in Workers |-> 0]
    /\ position = [w \in Workers |-> 0]
    /\ processed = [w \in Workers |-> 0]

(***************************************************************************)
(* Steps shared by the actions.                                            *)
(***************************************************************************)
Goto(w, place) == pc' = [pc EXCEPT ![w] = place]

AtTo(w, from, to) == pc[w] = from /\ Goto(w, to)

\* The task is over: its consumer object, and with it all local state, goes.
EndTask(w) ==
    /\ Goto(w, "idle")
    /\ first' = [first EXCEPT ![w] = 0]
    /\ position' = [position EXCEPT ![w] = 0]
    /\ processed' = [processed EXCEPT ![w] = 0]

Fault ==
    /\ faults < MaxFaults
    /\ faults' = faults + 1

\* What consumer_repo.commit() makes of the group's offset.
CommitOffset(w) ==
    committed' = IF processed[w] > 0 THEN processed[w] ELSE committed

\* The outcome of a commit whose await raises: the broker may have applied it.
CommitRaises(w) ==
    /\ processed[w] > 0
    /\ \/ CommitOffset(w)
       \/ UNCHANGED committed

(***************************************************************************)
(* The producer side, external: some event is appended.                    *)
(***************************************************************************)
Produce ==
    /\ logEnd < MaxLog
    /\ logEnd' = logEnd + 1
    /\ UNCHANGED <<lockVars, committed, handled, faults, taskVars>>

(***************************************************************************)
(* __aenter__                                                              *)
(***************************************************************************)

\* The scheduler starts the task on w.  With the key taken it ends at once
\* with AlreadyAcquiredError, which changes nothing.
Acquire(w) ==
    /\ AtTo(w, "idle", "starting")
    /\ SetKey(w)
    /\ UNCHANGED <<logEnd, committed, handled, faults,
                   first, position, processed>>

\* SET was applied, its reply was lost or the await cancelled: the token is
\* dropped, and acquire() raises before there is anything to close.
AcquireReplyLost(w) ==
    /\ pc[w] = "idle"
    /\ Fault
    /\ SetKey(Orphan)
    /\ UNCHANGED <<logEnd, committed, handled, taskVars>>

Start(w) ==
    /\ AtTo(w, "starting", "positioning")
    /\ UNCHANGED <<lockVars, logEnd, committed, handled, faults,
                   first, position, processed>>

\* except Exception: close, then raise ConsumerStartError
StartFails(w) ==
    /\ AtTo(w, "starting", "stopping")
    /\ Fault
    /\ UNCHANGED <<lockVars, logEnd, committed, handled,
                   first, position, processed>>

\* CancelledError is no Exception: nothing is closed, the lock is left behind.
StartCancelled(w) ==
    /\ pc[w] = "starting"
    /\ Fault
    /\ EndTask(w)
    /\ AbandonKey(w)
    /\ UNCHANGED <<logEnd, committed, handled>>

(***************************************************************************)
(* BaseKafkaConsumerRepository.get_batches, without a threshold            *)
(***************************************************************************)

\* Mutant: the position starts at the end of the log (auto_offset_reset latest).
ResetToLatest(w) ==
    /\ AtTo(w, "positioning", "polling")
    /\ position' = [position EXCEPT ![w] = logEnd]
    /\ first' = [first EXCEPT ![w] = logEnd]
    /\ UNCHANGED <<lockVars, logEnd, committed, handled, faults, processed>>

\* Mutant: the committed offset is not looked up.
ResetToEarliest(w) ==
    /\ AtTo(w, "positioning", "polling")
    /\ position' = [position EXCEPT ![w] = 0]
    /\ first' = [first EXCEPT ![w] = 0]
    /\ UNCHANGED <<lockVars, logEnd, committed, handled, faults, processed>>

\* The consumer fetches from the committed offset of its group.
ResetPosition(w) ==
    /\ AtTo(w, "positioning", "polling")
    /\ position' = [position EXCEPT ![w] = committed]
    /\ first' = [first EXCEPT ![w] = committed]
    /\ UNCHANGED <<lockVars, logEnd, committed, handled, faults, processed>>

\* Mutant: the offset is tracked before the yield instead of behind it.
PollTracks(w) ==
    /\ AtTo(w, "polling", "body")
    /\ \E n \in 1..BatchSize :
          /\ position[w] + n =< logEnd
          /\ position' = [position EXCEPT ![w] = @ + n]
          /\ processed' = [processed EXCEPT ![w] = position[w] + n]
    /\ first' = [first EXCEPT ![w] = position[w]]
    /\ UNCHANGED <<lockVars, logEnd, committed, handled, faults>>

\* Mutant: max_records is not passed on.
PollUnlimited(w) ==
    /\ AtTo(w, "polling", "body")
    /\ \E n \in 1..logEnd :
          /\ position[w] + n =< logEnd
          /\ position' = [position EXCEPT ![w] = @ + n]
    /\ first' = [first EXCEPT ![w] = position[w]]
    /\ UNCHANGED <<lockVars, logEnd, committed, handled, faults, processed>>

\* getmany returns some of the records that follow the position, in order.
PollRecords(w) ==
    /\ AtTo(w, "polling", "body")
    /\ \E n \in 1..BatchSize :
          /\ position[w] + n =< logEnd
          /\ (position[w]..(position[w] + n - 1)) \cap Poison = {}
          /\ position' = [position EXCEPT ![w] = @ + n]
    /\ first' = [first EXCEPT ![w] = position[w]]
    /\ UNCHANGED <<lockVars, logEnd, committed, handled, faults, processed>>

\* poll_timeout_ms passed without a record: the generator ends.
PollEmpty(w) ==
    /\ AtTo(w, "polling", "exiting")
    /\ UNCHANGED <<lockVars, logEnd, committed, handled, faults,
                   first, position, processed>>

\* Mutant: a record that cannot be deserialized is skipped.
PollSkips(w) ==
    /\ AtTo(w, "polling", "resuming")
    /\ position[w] \in Poison /\ position[w] < logEnd
    /\ position' = [position EXCEPT ![w] = @ + 1]
    /\ first' = [first EXCEPT ![w] = position[w]]
    /\ UNCHANGED <<lockVars, logEnd, committed, handled, faults, processed>>

\* The deserializer raises out of getmany for a record within reach.
PollPoison(w) ==
    /\ AtTo(w, "polling", "exiting")
    /\ \E o \in Poison : position[w] =< o /\ o < position[w] + BatchSize
                         /\ o < logEnd
    /\ UNCHANGED <<lockVars, logEnd, committed, handled, faults,
                   first, position, processed>>

(***************************************************************************)
(* The body of the async for                                               *)
(***************************************************************************)
HandleBatch(w) ==
    /\ AtTo(w, "body", "extending")
    /\ handled' = handled \cup Batch(w)
    /\ UNCHANGED <<lockVars, logEnd, committed, faults,
                   first, position, processed>>

\* The body raises, breaks or is cancelled part of the way through its batch.
LeaveBody(w) ==
    /\ AtTo(w, "body", "exiting")
    /\ Fault
    /\ \E o \in first[w]..position[w] :
          handled' = handled \cup (first[w]..(o - 1))
    /\ UNCHANGED <<lockVars, logEnd, committed, first, position, processed>>

(***************************************************************************)
(* checkpoint(): extend the lock, then commit                              *)
(***************************************************************************)
CheckpointExtend(w) ==
    /\ AtTo(w, "extending", "committing")
    /\ ExtendKey(w)
    /\ UNCHANGED <<logEnd, committed, handled, faults,
                   first, position, processed>>

CheckpointNotOwned(w) ==
    /\ AtTo(w, "extending", "exiting")
    /\ owner # w
    /\ UNCHANGED <<lockVars, logEnd, committed, handled, faults,
                   first, position, processed>>

CheckpointExtendRaises(w) ==
    /\ AtTo(w, "extending", "exiting")
    /\ Fault
    /\ ExtendKey(w) \/ UNCHANGED lockVars
    /\ UNCHANGED <<logEnd, committed, handled, first, position, processed>>

\* Mutant: the offsets are cleared without having been committed.
CheckpointClears(w) ==
    /\ AtTo(w, "committing", "resuming")
    /\ processed' = [processed EXCEPT ![w] = 0]
    /\ UNCHANGED <<lockVars, logEnd, committed, handled, faults,
                   first, position>>

\* What is committed is what was processed BEFORE the batch just handled: the
\* generator records a batch only when it is resumed.
CheckpointCommit(w) ==
    /\ AtTo(w, "committing", "resuming")
    /\ CommitOffset(w)
    /\ processed' = [processed EXCEPT ![w] = 0]
    /\ UNCHANGED <<lockVars, logEnd, handled, faults, first, position>>

CheckpointCommitRaises(w) ==
    /\ AtTo(w, "committing", "exiting")
    /\ Fault
    /\ CommitRaises(w)
    /\ UNCHANGED <<lockVars, logEnd, handled, first, position, processed>>

\* Mutant: one too many is added to the last record's offset.
ResumeOffByOne(w) ==
    /\ AtTo(w, "resuming", IF ShouldBreak(w) THEN "exiting" ELSE "polling")
    /\ processed' = [processed EXCEPT ![w] = position[w] + 1]
    /\ UNCHANGED <<lockVars, logEnd, committed, handled, faults,
                   first, position>>

\* The generator goes on behind its yield.
Resume(w) ==
    /\ AtTo(w, "resuming", IF ShouldBreak(w) THEN "exiting" ELSE "polling")
    /\ processed' = [processed EXCEPT ![w] = position[w]]
    /\ UNCHANGED <<lockVars, logEnd, committed, handled, faults,
                   first, position>>

(***************************************************************************)
(* __aexit__: commit, finally stop, finally release.  The commit does not  *)
(* look at the lock.                                                       *)
(***************************************************************************)
\* Mutant: __aexit__ only closes.
ExitWithoutCommit(w) ==
    /\ AtTo(w, "exiting", "stopping")
    /\ UNCHANGED <<lockVars, logEnd, committed, handled, faults,
                   first, position, processed>>

ExitCommit(w) ==
    /\ AtTo(w, "exiting", "stopping")
    /\ CommitOffset(w)
    /\ processed' = [processed EXCEPT ![w] = 0]
    /\ UNCHANGED <<lockVars, logEnd, handled, faults, first, position>>

ExitCommitRaises(w) ==
    /\ AtTo(w, "exiting", "stopping")
    /\ Fault
    /\ CommitRaises(w)
    /\ UNCHANGED <<lockVars, logEnd, handled, first, position, processed>>

\* A stop() that raises takes the same way: the release is in a finally.
Stop(w) ==
    /\ AtTo(w, "stopping", "releasing")
    /\ UNCHANGED <<lockVars, logEnd, committed, handled, faults,
                   first, position, processed>>

Release(w) ==
    /\ pc[w] = "releasing"
    /\ DeleteKey(w)
    /\ EndTask(w)
    /\ UNCHANGED <<logEnd, committed, handled, faults>>

\* release() raised before Redis saw it; the token is dropped all the same.
ReleaseRaises(w) ==
    /\ pc[w] = "releasing"
    /\ Fault
    /\ AbandonKey(w)
    /\ EndTask(w)
    /\ UNCHANGED <<logEnd, committed, handled>>

(***************************************************************************)
(* The worker process dies.                                                *)
(***************************************************************************)
Crash(w) ==
    /\ InSession(w)
    /\ Fault
    /\ AbandonKey(w)
    /\ EndTask(w)
    /\ UNCHANGED <<logEnd, committed, handled>>

\* The Redis clock; the tasks do not notice.
Clock(step) ==
    /\ step
    /\ UNCHANGED <<logEnd, committed, handled, faults, taskVars>>

Enter(w) == Acquire(w) \/ AcquireReplyLost(w) \/ Start(w) \/ StartFails(w)
            \/ StartCancelled(w)
Poll(w) == ResetPosition(w) \/ PollRecords(w) \/ PollEmpty(w) \/ PollPoison(w)
Body(w) == HandleBatch(w) \/ LeaveBody(w)
Checkpoint(w) == CheckpointExtend(w) \/ CheckpointNotOwned(w)
                 \/ CheckpointExtendRaises(w) \/ CheckpointCommit(w)
                 \/ CheckpointCommitRaises(w) \/ Resume(w)
Exit(w) == ExitCommit(w) \/ ExitCommitRaises(w) \/ Stop(w) \/ Release(w)
           \/ ReleaseRaises(w) \/ Crash(w)

Task(w) == Enter(w) \/ Poll(w) \/ Body(w) \/ Checkpoint(w) \/ Exit(w)

Next ==
    \/ Produce
    \/ Clock(Tick)
    \/ Clock(Expire(Owners))
    \/ \E w \in Workers : Task(w)

Spec == Init /\ [][Next]_vars

(***************************************************************************)
(* The assumption the design needs of its deployment: a batch is handled   *)
(* and checkpointed within the lock's timeout, so that the key of a live   *)
(* session never expires.  Keys that are left behind still do.             *)
(***************************************************************************)
PromptNext ==
    \/ Produce
    \/ Clock(Tick)
    \/ Clock(Expire({Orphan}))
    \/ \E w \in Workers : Task(w)

PromptSpec == Init /\ [][PromptNext]_vars

(***************************************************************************)
(* Fairness.  The event loop runs a task that can run, cron starts it over *)
(* and over, the Redis clock runs.  getmany waits poll_timeout_ms, longer  *)
(* than a fetch takes, so records that are there are not missed for ever   *)
(* (SF).  No fault is fair: nothing has to fail.                           *)
(***************************************************************************)
Progress(w) ==
    \/ Start(w) \/ ResetPosition(w) \/ PollEmpty(w) \/ HandleBatch(w)
    \/ CheckpointExtend(w) \/ CheckpointNotOwned(w) \/ CheckpointCommit(w)
    \/ Resume(w) \/ ExitCommit(w) \/ Stop(w) \/ Release(w)

Fairness ==
    /\ \A w \in Workers : WF_vars(Progress(w)) /\ SF_vars(PollRecords(w))
    /\ WF_vars(\E w \in Workers : Acquire(w))
    /\ WF_vars(Clock(Tick) \/ Clock(Expire({Orphan})))

PromptFairSpec == PromptSpec /\ Fairness

(***************************************************************************)
(* Properties                                                              *)
(***************************************************************************)

\* No record is lost: whatever the group's committed offset has passed, and
\* so no later session will poll again, some body has handled.  It holds with
\* expiring locks, failing commits and crashes (commit() only ever sees offsets
\* that get_batches recorded after its yield).
AtLeastOnce == 0..(committed - 1) \subseteq handled

\* A record the deserializer rejects is never skipped: no body sees it and no
\* commit passes it, so the partition stands still there (consumer.py:122).
PoisonBlocks == \A o \in Poison : o \notin handled /\ committed =< o

\* extend() adds to what is left of the key, so a session that dies can leave a key
\* behind that blocks the partition for much longer than one timeout (lock.py:34);
\* one timeout per checkpoint of a session, each at least a record, is the most.
LockHoldBound == ttl =< Timeout * (1 + logEnd)

\* KAFKA.md: "Distributed lock prevents duplicate processing across workers".
\* No two bodies are given the same record at the same time.
NoConcurrentDuplicates ==
    \A v, w \in Workers :
        (v # w /\ pc[v] = "body" /\ pc[w] = "body")
            => Batch(v) \cap Batch(w) = {}

\* With prompt bodies, a task between its acquire and its release owns the key,
\* so at most one consumer of the group polls the partition.
MutualExclusion == \A w \in Workers : InSession(w) => owner = w

\* With prompt bodies the committed offset never goes back, whatever failed
\* commits are repeated in __aexit__ and whichever worker comes next.
CommitMonotone == [][committed' >= committed]_vars

\* With prompt bodies a crash, a failed commit or an early exit makes the next
\* session repeat at most two batches: the commit of a batch is one checkpoint
\* late (consumer.py:190 runs after consumer_maker.py:55 of the NEXT batch).
RedeliveryWindow ==
    \A o \in handled : o < committed + 2 * BatchSize

\* With prompt bodies, and once failures cease, every record that is produced
\* is handled and its offset committed: no orphaned lock blocks the partition
\* for ever, and a batch given back by a failed session comes round again.
EventuallyCommitted ==
    \A o \in 0..(MaxLog - 1) : (o < logEnd) ~> (o < committed)

\* The maker implements at-least-once, in-order delivery of the partition in all
\* circumstances: a crash, an expired lock or a stale commit moves the group's
\* offset only to places all of whose records have been handled.
Delivery == INSTANCE PartitionDelivery WITH Window <- 2 * BatchSize

ImplementsDelivery == Delivery!Spec

\* With prompt bodies it implements delivery whose offset never goes back and
\* that never runs more than two batches ahead of it.
ImplementsWindow == Delivery!WindowSpec
=============================================================================

------------------------- MODULE ConsumerMakerProofs -------------------------
(***************************************************************************)
(* Theorems about ConsumerMaker, for any set of workers, batch size, lock  *)
(* timeout, log and number of faults.                                      *)
(***************************************************************************)
EXTENDS ConsumerMaker, TLAPS

(***************************************************************************)
(* Type correctness, one lemma per part of a task.                         *)
(***************************************************************************)

LEMMA TypeInit == Init => TypeOK
  BY LogAssumption DEF Init, TypeOK, LockInit, LockTypeOK, Owners, PC

LEMMA TypeEnter ==
  ASSUME TypeOK, NEW w \in Workers, Enter(w) PROVE TypeOK'
  <1> USE TimeoutAssumption, OwnerAssumption, LogAssumption
          DEF TypeOK, LockTypeOK, Owners, PC, Goto, AtTo, Fault, lockVars,
              taskVars, SetKey, EndTask, AbandonKey
  <1>1. CASE Acquire(w)
    BY <1>1 DEF Acquire
  <1>2. CASE AcquireReplyLost(w)
    BY <1>2 DEF AcquireReplyLost
  <1>3. CASE Start(w)
    BY <1>3 DEF Start
  <1>4. CASE StartFails(w)
    BY <1>4 DEF StartFails
  <1>5. CASE StartCancelled(w)
    BY <1>5 DEF StartCancelled
  <1>. QED
    BY <1>1, <1>2, <1>3, <1>4, <1>5 DEF Enter

LEMMA TypePoll ==
  ASSUME TypeOK, NEW w \in Workers, Poll(w) PROVE TypeOK'
  <1> USE LogAssumption, BatchAssumption
          DEF TypeOK, LockTypeOK, Owners, PC, Goto, AtTo, lockVars
  <1>1. CASE ResetPosition(w)
    BY <1>1 DEF ResetPosition
  <1>2. CASE PollRecords(w)
    BY <1>2 DEF PollRecords
  <1>3. CASE PollEmpty(w)
    BY <1>3 DEF PollEmpty
  <1>4. CASE PollPoison(w)
    BY <1>4 DEF PollPoison
  <1>. QED
    BY <1>1, <1>2, <1>3, <1>4 DEF Poll

LEMMA TypeBody ==
  ASSUME TypeOK, NEW w \in Workers, Body(w) PROVE TypeOK'
  <1>a. /\ logEnd \in Nat
        /\ first[w] \in 0..logEnd
        /\ position[w] \in 0..logEnd
    BY LogAssumption DEF TypeOK
  <1>b. first[w]..(position[w] - 1) \subseteq 0..(logEnd - 1)
    BY <1>a
  <1>c. handled \subseteq 0..(logEnd - 1)
    BY DEF TypeOK
  <1> USE LogAssumption
          DEF TypeOK, LockTypeOK, Owners, PC, Goto, AtTo, Fault, lockVars
  <1>1. CASE HandleBatch(w)
    <2>1. handled' \subseteq 0..(logEnd' - 1)
      BY <1>1, <1>b, <1>c DEF HandleBatch, Batch
    <2>. QED
      BY <1>1, <2>1 DEF HandleBatch
  <1>2. CASE LeaveBody(w)
    <2>1. PICK o \in first[w]..position[w] :
             handled' = handled \cup (first[w]..(o - 1))
      BY <1>2 DEF LeaveBody
    <2>2. first[w]..(o - 1) \subseteq 0..(logEnd - 1)
      BY <1>a, <2>1
    <2>3. handled' \subseteq 0..(logEnd' - 1)
      BY <1>2, <1>c, <2>1, <2>2 DEF LeaveBody
    <2>. QED
      BY <1>2, <2>3 DEF LeaveBody
  <1>. QED
    BY <1>1, <1>2 DEF Body

LEMMA TypeCheckpoint ==
  ASSUME TypeOK, NEW w \in Workers, Checkpoint(w) PROVE TypeOK'
  <1> USE TimeoutAssumption, OwnerAssumption, LogAssumption
          DEF TypeOK, LockTypeOK, Owners, PC, Goto, AtTo, Fault, lockVars,
              ExtendKey, CommitOffset, CommitRaises
  <1>1. CASE CheckpointExtend(w)
    BY <1>1 DEF CheckpointExtend
  <1>2. CASE CheckpointNotOwned(w)
    BY <1>2 DEF CheckpointNotOwned
  <1>3. CASE CheckpointExtendRaises(w)
    BY <1>3 DEF CheckpointExtendRaises
  <1>4. CASE CheckpointCommit(w)
    BY <1>4 DEF CheckpointCommit
  <1>5. CASE CheckpointCommitRaises(w)
    BY <1>5 DEF CheckpointCommitRaises
  <1>6. CASE Resume(w)
    BY <1>6 DEF Resume
  <1>. QED
    BY <1>1, <1>2, <1>3, <1>4, <1>5, <1>6 DEF Checkpoint

LEMMA TypeExit ==
  ASSUME TypeOK, NEW w \in Workers, Exit(w) PROVE TypeOK'
  <1> USE OwnerAssumption, LogAssumption
          DEF TypeOK, LockTypeOK, Owners, PC, Goto, AtTo, Fault, lockVars,
              CommitOffset, CommitRaises, EndTask, DeleteKey, AbandonKey
  <1>1. CASE ExitCommit(w)
    BY <1>1 DEF ExitCommit
  <1>2. CASE ExitCommitRaises(w)
    BY <1>2 DEF ExitCommitRaises
  <1>3. CASE Stop(w)
    BY <1>3 DEF Stop
  <1>4. CASE Release(w)
    BY <1>4 DEF Release
  <1>5. CASE ReleaseRaises(w)
    BY <1>5 DEF ReleaseRaises
  <1>6. CASE Crash(w)
    BY <1>6 DEF Crash
  <1>. QED
    BY <1>1, <1>2, <1>3, <1>4, <1>5, <1>6 DEF Exit

LEMMA TypeStep == TypeOK /\ [Next]_vars => TypeOK'
  <1> SUFFICES ASSUME TypeOK, [Next]_vars PROVE TypeOK'
    OBVIOUS
  <1>1. CASE Produce
    BY <1>1, LogAssumption
    DEF Produce, TypeOK, LockTypeOK, lockVars, taskVars
  <1>2. ASSUME Clock(Tick) \/ Clock(Expire(Owners)) PROVE TypeOK'
    <2>1. LockTypeOK'
      BY <1>2 DEF Clock, Tick, Expire, TypeOK, LockTypeOK, Owners
    <2>. QED
      BY <1>2, <2>1 DEF Clock, TypeOK, taskVars
  <1>3. ASSUME NEW w \in Workers, Task(w) PROVE TypeOK'
    BY <1>3, TypeEnter, TypePoll, TypeBody, TypeCheckpoint, TypeExit DEF Task
  <1>4. CASE UNCHANGED vars
    BY <1>4 DEF vars, TypeOK, LockTypeOK, lockVars, taskVars
  <1>. QED
    BY <1>1, <1>2, <1>3, <1>4 DEF Next

\* TypeOK of the runs: every variable keeps its type, the committed offset and
\* the positions stay inside the log, and the key has an owner exactly as long
\* as it has time to live.
THEOREM TypeCorrect == Spec => []TypeOK
  BY TypeInit, TypeStep, PTL DEF Spec

(***************************************************************************)
(* At-least-once delivery.                                                 *)
(*                                                                         *)
(* That the committed offset has only handled records below it is not      *)
(* inductive: a commit takes its offset from processed, processed takes it *)
(* from the fetch position, and the position comes from an earlier commit. *)
(* DeliveredInv says of each of these that everything below it is handled, *)
(* and of the position only where no batch is waiting for its body.        *)
(***************************************************************************)
Done(n) == 0..(n - 1) \subseteq handled

DeliveredInv ==
    /\ Done(committed)
    /\ \A w \in Workers :
          /\ Done(processed[w])
          /\ Done(first[w])
          /\ pc[w] \in {"polling", "extending", "committing", "resuming"}
                => Done(position[w])

LEMMA DeliveredInit == Init => DeliveredInv
  BY DEF Init, DeliveredInv, Done

LEMMA DeliveredEnter ==
  ASSUME TypeOK, DeliveredInv, NEW w \in Workers, Enter(w)
  PROVE  DeliveredInv'
  <1> USE DEF TypeOK, DeliveredInv, Done, Goto, AtTo, EndTask, taskVars
  <1>1. CASE Acquire(w)
    BY <1>1 DEF Acquire
  <1>2. CASE AcquireReplyLost(w)
    BY <1>2 DEF AcquireReplyLost
  <1>3. CASE Start(w)
    BY <1>3 DEF Start
  <1>4. CASE StartFails(w)
    BY <1>4 DEF StartFails
  <1>5. CASE StartCancelled(w)
    BY <1>5 DEF StartCancelled
  <1>. QED
    BY <1>1, <1>2, <1>3, <1>4, <1>5 DEF Enter

LEMMA DeliveredPoll ==
  ASSUME TypeOK, DeliveredInv, NEW w \in Workers, Poll(w)
  PROVE  DeliveredInv'
  <1> USE DEF TypeOK, DeliveredInv, Done, Goto, AtTo
  <1>1. CASE ResetPosition(w)
    BY <1>1 DEF ResetPosition
  <1>2. CASE PollRecords(w)
    BY <1>2 DEF PollRecords
  <1>3. CASE PollEmpty(w)
    BY <1>3 DEF PollEmpty
  <1>4. CASE PollPoison(w)
    BY <1>4 DEF PollPoison
  <1>. QED
    BY <1>1, <1>2, <1>3, <1>4 DEF Poll

LEMMA DeliveredBody ==
  ASSUME TypeOK, DeliveredInv, NEW w \in Workers, Body(w)
  PROVE  DeliveredInv'
  <1> USE DEF DeliveredInv, Done, Goto, AtTo
  <1>1. CASE HandleBatch(w)
    <2>1. 0..(position[w] - 1) \subseteq handled'
      <3>1. /\ first[w] \in Nat /\ position[w] \in Nat
            /\ 0..(first[w] - 1) \subseteq handled
        BY LogAssumption DEF TypeOK
      <3>2. handled' = handled \cup (first[w]..(position[w] - 1))
        BY <1>1 DEF HandleBatch, Batch
      <3>. QED
        BY <3>1, <3>2
    <2>2. handled \subseteq handled'
      BY <1>1 DEF HandleBatch
    <2>. QED
      BY <1>1, <2>1, <2>2 DEF HandleBatch, TypeOK
  <1>2. CASE LeaveBody(w)
    <2>1. handled \subseteq handled'
      BY <1>2 DEF LeaveBody
    <2>. QED
      BY <1>2, <2>1 DEF LeaveBody, TypeOK
  <1>. QED
    BY <1>1, <1>2 DEF Body

LEMMA DeliveredCheckpoint ==
  ASSUME TypeOK, DeliveredInv, NEW w \in Workers, Checkpoint(w)
  PROVE  DeliveredInv'
  <1> USE DEF TypeOK, DeliveredInv, Done, Goto, AtTo, CommitOffset,
              CommitRaises
  <1>1. CASE CheckpointExtend(w)
    BY <1>1 DEF CheckpointExtend
  <1>2. CASE CheckpointNotOwned(w)
    BY <1>2 DEF CheckpointNotOwned
  <1>3. CASE CheckpointExtendRaises(w)
    BY <1>3 DEF CheckpointExtendRaises
  <1>4. CASE CheckpointCommit(w)
    BY <1>4 DEF CheckpointCommit
  <1>5. CASE CheckpointCommitRaises(w)
    BY <1>5 DEF CheckpointCommitRaises
  <1>6. CASE Resume(w)
    BY <1>6 DEF Resume
  <1>. QED
    BY <1>1, <1>2, <1>3, <1>4, <1>5, <1>6 DEF Checkpoint

LEMMA DeliveredExit ==
  ASSUME TypeOK, DeliveredInv, NEW w \in Workers, Exit(w)
  PROVE  DeliveredInv'
  <1> USE DEF TypeOK, DeliveredInv, Done, Goto, AtTo, CommitOffset,
              CommitRaises, EndTask
  <1>1. CASE ExitCommit(w)
    BY <1>1 DEF ExitCommit
  <1>2. CASE ExitCommitRaises(w)
    BY <1>2 DEF ExitCommitRaises
  <1>3. CASE Stop(w)
    BY <1>3 DEF Stop
  <1>4. CASE Release(w)
    BY <1>4 DEF Release
  <1>5. CASE ReleaseRaises(w)
    BY <1>5 DEF ReleaseRaises
  <1>6. CASE Crash(w)
    BY <1>6 DEF Crash
  <1>. QED
    BY <1>1, <1>2, <1>3, <1>4, <1>5, <1>6 DEF Exit

LEMMA DeliveredStep == TypeOK /\ DeliveredInv /\ [Next]_vars => DeliveredInv'
  <1> SUFFICES ASSUME TypeOK, DeliveredInv, [Next]_vars PROVE DeliveredInv'
    OBVIOUS
  <1>1. CASE Produce
    BY <1>1 DEF Produce, DeliveredInv, Done, taskVars
  <1>2. CASE Clock(Tick) \/ Clock(Expire(Owners))
    BY <1>2 DEF Clock, DeliveredInv, Done, taskVars
  <1>3. ASSUME NEW w \in Workers, Task(w) PROVE DeliveredInv'
    BY <1>3, DeliveredEnter, DeliveredPoll, DeliveredBody,
       DeliveredCheckpoint, DeliveredExit DEF Task
  <1>4. CASE UNCHANGED vars
    BY <1>4 DEF vars, DeliveredInv, Done, taskVars
  <1>. QED
    BY <1>1, <1>2, <1>3, <1>4 DEF Next

\* AtLeastOnce of the runs: no commit, whenever and by whomever it is sent, moves
\* the group's offset past a record that no body has handled; with expiring
\* locks, failing calls and crashes, for any number of workers.
THEOREM NothingLost == Spec => []AtLeastOnce
  <1>1. Init => TypeOK /\ DeliveredInv
    BY TypeInit, DeliveredInit
  <1>2. TypeOK /\ DeliveredInv /\ [Next]_vars => (TypeOK /\ DeliveredInv)'
    BY TypeStep, DeliveredStep
  <1>3. DeliveredInv => AtLeastOnce
    BY DEF DeliveredInv, Done, AtLeastOnce
  <1>. QED
    BY <1>1, <1>2, <1>3, PTL DEF Spec

(***************************************************************************)
(* Mutual exclusion and the window of redelivery, under prompt bodies.     *)
(*                                                                         *)
(* MutualExclusion is inductive together with TypeOK.  WindowInv needs it: *)
(* only because no other session commits can a session rely on the offset  *)
(* it found.  It places processed at most one batch ahead of committed, and*)
(* the batch in hand right behind what the session has processed.          *)
(***************************************************************************)
Behind(w) == IF processed[w] > 0 THEN processed[w] ELSE committed

WindowInv ==
    /\ handled \subseteq 0..(committed + 2 * BatchSize - 1)
    /\ \A w \in Workers :
          /\ pc[w] \in {"idle", "starting", "positioning", "resuming"}
                => processed[w] = 0
          /\ (pc[w] \in {"polling", "body", "extending", "committing",
                         "exiting"} /\ processed[w] > 0)
                => processed[w] \in committed..(committed + BatchSize)
          /\ pc[w] = "polling" => position[w] = Behind(w)
          /\ pc[w] \in {"body", "extending", "committing", "resuming"}
                => /\ first[w] = Behind(w)
                   /\ position[w] =< first[w] + BatchSize

LEMMA PromptIsNext == [PromptNext]_vars => [Next]_vars
  <1>1. Clock(Expire({Orphan})) => Clock(Expire(Owners))
    BY DEF Clock, Expire, Owners
  <1>. QED
    BY <1>1 DEF PromptNext, Next

LEMMA MutexInit == Init => MutualExclusion
  BY DEF Init, MutualExclusion, InSession

LEMMA MutexTask ==
  ASSUME TypeOK, MutualExclusion, NEW w \in Workers, Task(w)
  PROVE  MutualExclusion'
  <1> USE OwnerAssumption
          DEF TypeOK, MutualExclusion, InSession, Goto, AtTo, EndTask,
              lockVars, taskVars
  <1>1. CASE Enter(w)
    BY <1>1 DEF Enter, Acquire, AcquireReplyLost, Start, StartFails,
                StartCancelled, SetKey, AbandonKey
  <1>2. CASE Poll(w)
    BY <1>2 DEF Poll, ResetPosition, PollRecords, PollEmpty, PollPoison
  <1>3. CASE Body(w)
    BY <1>3 DEF Body, HandleBatch, LeaveBody
  <1>4. CASE Checkpoint(w)
    BY <1>4 DEF Checkpoint, CheckpointExtend, CheckpointNotOwned,
                CheckpointExtendRaises, CheckpointCommit,
                CheckpointCommitRaises, Resume, ExtendKey
  <1>5. CASE Exit(w)
    BY <1>5 DEF Exit, ExitCommit, ExitCommitRaises, Stop, Release,
                ReleaseRaises, Crash, DeleteKey, AbandonKey
  <1>. QED
    BY <1>1, <1>2, <1>3, <1>4, <1>5 DEF Task

LEMMA MutexStep ==
  TypeOK /\ MutualExclusion /\ [PromptNext]_vars => MutualExclusion'
  <1> SUFFICES ASSUME TypeOK, MutualExclusion, [PromptNext]_vars
               PROVE  MutualExclusion'
    OBVIOUS
  <1>1. CASE Produce
    BY <1>1 DEF Produce, MutualExclusion, InSession, lockVars, taskVars
  <1>2. CASE Clock(Tick)
    BY <1>2 DEF Clock, Tick, MutualExclusion, InSession, taskVars
  <1>3. CASE Clock(Expire({Orphan}))
    BY <1>3, OwnerAssumption
    DEF Clock, Expire, MutualExclusion, InSession, taskVars
  <1>4. ASSUME NEW w \in Workers, Task(w) PROVE MutualExclusion'
    BY <1>4, MutexTask
  <1>5. CASE UNCHANGED vars
    BY <1>5 DEF vars, MutualExclusion, InSession, lockVars, taskVars
  <1>. QED
    BY <1>1, <1>2, <1>3, <1>4, <1>5 DEF PromptNext

\* MutualExclusion of the runs: as long as no live session's key expires, a task
\* between its acquire and its release owns the key, and so is alone.
THEOREM Exclusive == PromptSpec => []MutualExclusion
  <1>1. Init => TypeOK /\ MutualExclusion
    BY TypeInit, MutexInit
  <1>2. TypeOK /\ MutualExclusion /\ [PromptNext]_vars
           => (TypeOK /\ MutualExclusion)'
    BY TypeStep, MutexStep, PromptIsNext
  <1>. QED
    BY <1>1, <1>2, PTL DEF PromptSpec

LEMMA Alone ==
  ASSUME MutualExclusion, NEW w \in Workers, InSession(w)
  PROVE  \A v \in Workers \ {w} : pc[v] = "idle"
  BY DEF MutualExclusion, InSession

LEMMA WindowInit == Init => WindowInv
  BY BatchAssumption DEF Init, WindowInv

LEMMA WindowTask ==
  ASSUME TypeOK, MutualExclusion, WindowInv, NEW w \in Workers, Task(w)
  PROVE  WindowInv' /\ committed' >= committed
  <1> USE BatchAssumption, LogAssumption
          DEF TypeOK, WindowInv, Behind, Goto, AtTo
  <1>1. CASE Enter(w)
    <2>1. CASE Acquire(w)
      BY <2>1 DEF Acquire
    <2>2. CASE AcquireReplyLost(w)
      BY <2>2 DEF AcquireReplyLost, taskVars
    <2>3. CASE Start(w)
      BY <2>3 DEF Start
    <2>4. CASE StartFails(w)
      BY <2>4 DEF StartFails
    <2>5. CASE StartCancelled(w)
      BY <2>5 DEF StartCancelled, EndTask
    <2>. QED
      BY <1>1, <2>1, <2>2, <2>3, <2>4, <2>5 DEF Enter
  <1>2. CASE Poll(w)
    <2>1. CASE ResetPosition(w)
      BY <2>1 DEF ResetPosition
    <2>2. CASE PollRecords(w)
      BY <2>2 DEF PollRecords
    <2>3. CASE PollEmpty(w)
      BY <2>3 DEF PollEmpty
    <2>4. CASE PollPoison(w)
      BY <2>4 DEF PollPoison
    <2>. QED
      BY <1>2, <2>1, <2>2, <2>3, <2>4 DEF Poll
  <1>3. CASE Body(w)
    <2>1. pc[w] = "body"
      BY <1>3 DEF Body, HandleBatch, LeaveBody
    <2>2. /\ committed \in Nat /\ first[w] \in Nat /\ position[w] \in Nat
          /\ first[w] =< committed + BatchSize
          /\ position[w] =< first[w] + BatchSize
      BY <2>1
    <2>3. handled' \subseteq 0..(committed + 2 * BatchSize - 1)
      <3>1. CASE HandleBatch(w)
        <4>1. handled' = handled \cup (first[w]..(position[w] - 1))
          BY <3>1 DEF HandleBatch, Batch
        <4>2. first[w]..(position[w] - 1)
                 \subseteq 0..(committed + 2 * BatchSize - 1)
          BY <2>2
        <4>. QED
          BY <4>1, <4>2
      <3>2. CASE LeaveBody(w)
        <4>1. PICK o \in first[w]..position[w] :
                 handled' = handled \cup (first[w]..(o - 1))
          BY <3>2 DEF LeaveBody
        <4>2. first[w]..(o - 1) \subseteq 0..(committed + 2 * BatchSize - 1)
          BY <2>2, <4>1
        <4>. QED
          BY <4>1, <4>2
      <3>. QED
        BY <1>3, <3>1, <3>2 DEF Body
    <2>. QED
      BY <1>3, <2>3 DEF Body, HandleBatch, LeaveBody
  <1>4. CASE Checkpoint(w)
    <2>1. \A v \in Workers \ {w} : pc[v] = "idle"
      BY <1>4, Alone
      DEF InSession, Checkpoint, CheckpointExtend, CheckpointNotOwned,
          CheckpointExtendRaises, CheckpointCommit, CheckpointCommitRaises,
          Resume
    <2>2. CASE CheckpointExtend(w)
      BY <2>2 DEF CheckpointExtend
    <2>3. CASE CheckpointNotOwned(w)
      BY <2>3 DEF CheckpointNotOwned
    <2>4. CASE CheckpointExtendRaises(w)
      BY <2>4 DEF CheckpointExtendRaises
    <2>5. CASE CheckpointCommit(w)
      BY <2>1, <2>5 DEF CheckpointCommit, CommitOffset
    <2>6. CASE CheckpointCommitRaises(w)
      BY <2>1, <2>6 DEF CheckpointCommitRaises, CommitRaises, CommitOffset
    <2>7. CASE Resume(w)
      BY <2>7 DEF Resume, ShouldBreak
    <2>. QED
      BY <1>4, <2>2, <2>3, <2>4, <2>5, <2>6, <2>7 DEF Checkpoint
  <1>5. CASE Exit(w)
    <2>1. \A v \in Workers \ {w} : pc[v] = "idle"
      BY <1>5, Alone
      DEF InSession, Exit, ExitCommit, ExitCommitRaises, Stop, Release,
          ReleaseRaises, Crash
    <2>2. CASE ExitCommit(w)
      BY <2>1, <2>2 DEF ExitCommit, CommitOffset
    <2>3. CASE ExitCommitRaises(w)
      BY <2>1, <2>3 DEF ExitCommitRaises, CommitRaises, CommitOffset
    <2>4. CASE Stop(w)
      BY <2>4 DEF Stop
    <2>5. CASE Release(w)
      BY <2>5 DEF Release, EndTask
    <2>6. CASE ReleaseRaises(w)
      BY <2>6 DEF ReleaseRaises, EndTask
    <2>7. CASE Crash(w)
      BY <2>7 DEF Crash, EndTask
    <2>. QED
      BY <1>5, <2>2, <2>3, <2>4, <2>5, <2>6, <2>7 DEF Exit
  <1>. QED
    BY <1>1, <1>2, <1>3, <1>4, <1>5 DEF Task

LEMMA WindowStep ==
  TypeOK /\ MutualExclusion /\ WindowInv /\ [PromptNext]_vars
     => WindowInv' /\ committed' >= committed
  <1> SUFFICES ASSUME TypeOK, MutualExclusion, WindowInv, [PromptNext]_vars
               PROVE  WindowInv' /\ committed' >= committed
    OBVIOUS
  <1>1. ASSUME UNCHANGED <<committed, handled, taskVars>>
        PROVE  WindowInv' /\ committed' >= committed
    BY <1>1, LogAssumption DEF WindowInv, Behind, TypeOK, taskVars
  <1>2. ASSUME NEW w \in Workers, Task(w)
        PROVE  WindowInv' /\ committed' >= committed
    BY <1>2, WindowTask
  <1>. QED
    BY <1>1, <1>2 DEF PromptNext, Produce, Clock, vars

PromptInv == TypeOK /\ MutualExclusion /\ WindowInv

LEMMA PromptInvariance == PromptSpec => []PromptInv
  <1>1. Init => PromptInv
    BY TypeInit, MutexInit, WindowInit DEF PromptInv
  <1>2. PromptInv /\ [PromptNext]_vars => PromptInv'
    BY TypeStep, MutexStep, WindowStep, PromptIsNext DEF PromptInv
  <1>. QED
    BY <1>1, <1>2, PTL DEF PromptSpec

\* RedeliveryWindow of the runs: whatever fails, at most two batches beyond the
\* committed offset have been handled and will be handled again.
THEOREM AtMostTwoBatchesAgain == PromptSpec => []RedeliveryWindow
  <1>1. PromptInv => RedeliveryWindow
    BY LogAssumption, BatchAssumption
    DEF PromptInv, WindowInv, RedeliveryWindow, TypeOK
  <1>. QED
    BY <1>1, PromptInvariance, PTL

\* CommitMonotone of the runs: the offset the group has committed never goes back.
THEOREM OffsetNeverBack == PromptSpec => CommitMonotone
  <1>1. PromptInv /\ [PromptNext]_vars => [committed' >= committed]_vars
    BY WindowStep DEF PromptInv
  <1>. QED
    BY <1>1, PromptInvariance, PTL DEF PromptSpec, CommitMonotone
(***************************************************************************)
(* A record that cannot be deserialized: nothing ever gets past it, neither*)
(* a position nor, through it, an offset that is processed or committed.   *)
(***************************************************************************)
BlockedInv ==
    \A o \in Poison :
        /\ o \notin handled /\ committed =< o
        /\ \A w \in Workers : first[w] =< o /\ position[w] =< o /\ processed[w] =< o

LEMMA BlockedTask ==
  ASSUME TypeOK, BlockedInv, NEW w \in Workers, Task(w)
  PROVE  BlockedInv'
  <1>. SUFFICES ASSUME NEW o \in Poison
                PROVE  /\ o \notin handled' /\ committed' =< o
                       /\ \A v \in Workers : /\ first'[v] =< o /\ position'[v] =< o
                                             /\ processed'[v] =< o
    BY DEF BlockedInv
  <1>1. /\ o \in Nat /\ committed \in Nat /\ committed =< o /\ o \notin handled
        /\ first \in [Workers -> Nat] /\ position \in [Workers -> Nat]
        /\ processed \in [Workers -> Nat]
        /\ \A v \in Workers : first[v] =< o /\ position[v] =< o /\ processed[v] =< o
    <2>1. 0 .. logEnd \subseteq Nat
      OBVIOUS
    <2>. QED
      BY <2>1, LogAssumption DEF TypeOK, BlockedInv
  <1>2. CASE PollRecords(w)
    <2>1. PICK n \in 1 .. BatchSize :
             /\ (position[w] .. (position[w] + n - 1)) \cap Poison = {}
             /\ position' = [position EXCEPT ![w] = @ + n]
      BY <1>2 DEF PollRecords
    <2>2. n \in Nat /\ position[w] + n =< o
      <3>1. n \in Nat /\ o \notin position[w] .. (position[w] + n - 1)
        BY <2>1, BatchAssumption
      <3>. QED
        BY <1>1, <3>1
    <2>3. /\ first' = [first EXCEPT ![w] = position[w]]
          /\ UNCHANGED <<committed, handled, processed>>
      BY <1>2 DEF PollRecords
    <2>. QED
      BY <1>1, <2>1, <2>2, <2>3
  <1>3. CASE Body(w)
    <2>1. /\ UNCHANGED <<committed, first, position, processed>>
          /\ \E u \in Nat : u =< position[w] /\ handled' = handled \cup (first[w] .. (u - 1))
      BY <1>1, <1>3 DEF Body, HandleBatch, LeaveBody, Batch
    <2>2. PICK u \in Nat : u =< position[w] /\ handled' = handled \cup (first[w] .. (u - 1))
      BY <2>1
    <2>3. o \notin first[w] .. (u - 1)
      BY <1>1, <2>2
    <2>. QED
      BY <1>1, <2>1, <2>2, <2>3
  <1>4. CASE Enter(w) \/ ResetPosition(w) \/ PollEmpty(w) \/ PollPoison(w)
    BY <1>1, <1>4
       DEF Enter, Acquire, AcquireReplyLost, Start, StartFails, StartCancelled, ResetPosition,
           PollEmpty, PollPoison, EndTask, taskVars
  <1>5. CASE Checkpoint(w)
    BY <1>1, <1>5
       DEF Checkpoint, CheckpointExtend, CheckpointNotOwned, CheckpointExtendRaises,
           CheckpointCommit, CheckpointCommitRaises, Resume, CommitOffset, CommitRaises
  <1>6. CASE Exit(w)
    BY <1>1, <1>6
       DEF Exit, ExitCommit, ExitCommitRaises, Stop, Release, ReleaseRaises, Crash, EndTask,
           CommitOffset, CommitRaises
  <1>. QED
    BY <1>2, <1>3, <1>4, <1>5, <1>6 DEF Task, Poll

\* PoisonBlocks of the runs: no body is given a record the deserializer rejects, and no
\* commit of any session passes it.
THEOREM PoisonStops == Spec => []PoisonBlocks
  <1>1. Init => BlockedInv
    BY LogAssumption DEF Init, BlockedInv
  <1>2. TypeOK /\ BlockedInv /\ [Next]_vars => BlockedInv'
    <2>. SUFFICES ASSUME TypeOK, BlockedInv, [Next]_vars PROVE BlockedInv'
      OBVIOUS
    <2>1. UNCHANGED <<committed, handled, taskVars>> => BlockedInv'
      BY DEF BlockedInv, taskVars
    <2>. QED
      BY <2>1, BlockedTask DEF Next, Produce, Clock, vars
  <1>3. BlockedInv => PoisonBlocks
    BY DEF BlockedInv, PoisonBlocks
  <1>. QED
    BY <1>1, <1>2, <1>3, TypeCorrect, PTL DEF Spec

(***************************************************************************)
(* How long a key can live: a session extends it once for each batch, and  *)
(* each batch moves its position on, so that what is left of the key is    *)
(* bounded by the position, which is in the log.                           *)
(***************************************************************************)
Budget(n) == Timeout * (1 + n)

LEMMA BudgetFacts ==
  ASSUME NEW m \in Nat, NEW n \in Nat
  PROVE  /\ Budget(m) \in Nat /\ Timeout =< Budget(m)
         /\ m =< n => Budget(m) =< Budget(n)
         /\ m < n => Budget(m) + Timeout =< Budget(n)
  <1>1. Timeout \in Nat
    BY TimeoutAssumption
  <1>2. \A k \in Nat : Timeout * k \in Nat
    BY <1>1
  <1>3. Budget(m) = Timeout + Timeout * m /\ Budget(n) = Timeout + Timeout * n
    BY <1>1 DEF Budget
  <1>4. ASSUME m =< n PROVE Timeout * n = Timeout * m + Timeout * (n - m)
    BY <1>1, <1>4
  <1>5. m =< n => Timeout * m =< Timeout * n
    <2>. SUFFICES ASSUME m =< n PROVE Timeout * m =< Timeout * n
      OBVIOUS
    <2>1. n - m \in Nat
      OBVIOUS
    <2>2. Timeout * (n - m) \in Nat /\ Timeout * m \in Nat
      BY <1>2, <2>1
    <2>. QED
      BY <1>4, <2>2
  <1>6. m < n => Timeout * m + Timeout =< Timeout * n
    <2>. SUFFICES ASSUME m < n PROVE Timeout * m + Timeout =< Timeout * n
      OBVIOUS
    <2>1. n - m - 1 \in Nat
      OBVIOUS
    <2>2. Timeout * (n - m) = Timeout * (n - m - 1) + Timeout
      BY <1>1
    <2>3. Timeout * (n - m - 1) \in Nat /\ Timeout * m \in Nat
      BY <1>2, <2>1
    <2>. QED
      BY <1>1, <1>4, <2>2, <2>3
  <1>. QED
    BY <1>1, <1>2, <1>3, <1>5, <1>6

HoldInv ==
    /\ ttl =< Budget(logEnd)
    /\ \A w \in Workers :
          /\ pc[w] \in {"body", "extending"} => first[w] < position[w]
          /\ owner = w =>
                /\ pc[w] \in {"starting", "positioning"} => ttl =< Timeout
                /\ pc[w] \in {"body", "extending"} => ttl =< Budget(first[w])
                /\ pc[w] \in {"polling", "committing", "resuming"} => ttl =< Budget(position[w])

LEMMA HoldTask ==
  ASSUME TypeOK, HoldInv, NEW w \in Workers, Task(w)
  PROVE  HoldInv'
  <1>1. /\ ttl \in Nat /\ logEnd \in Nat /\ logEnd' = logEnd /\ Timeout \in Nat
        /\ committed \in Nat /\ committed =< logEnd
        /\ first \in [Workers -> Nat] /\ position \in [Workers -> Nat] /\ pc \in [Workers -> PC]
        /\ \A v \in Workers : first[v] =< position[v] /\ position[v] =< logEnd
    <2>1. logEnd' = logEnd
      BY DEF Task, Enter, Acquire, AcquireReplyLost, Start, StartFails, StartCancelled, Poll,
             ResetPosition, PollRecords, PollEmpty, PollPoison, Body, HandleBatch, LeaveBody,
             Checkpoint, CheckpointExtend, CheckpointNotOwned, CheckpointExtendRaises,
             CheckpointCommit, CheckpointCommitRaises, Resume, Exit, ExitCommit,
             ExitCommitRaises, Stop, Release, ReleaseRaises, Crash
    <2>. QED
      BY <2>1, LogAssumption, TimeoutAssumption DEF TypeOK, LockTypeOK
  <1>2. \A m, n \in Nat : /\ Budget(m) \in Nat /\ Timeout =< Budget(m)
                          /\ m =< n => Budget(m) =< Budget(n)
                          /\ m < n => Budget(m) + Timeout =< Budget(n)
    BY BudgetFacts
  <1>. USE OwnerAssumption DEF HoldInv, Goto, AtTo, PC
  <1>3. CASE Enter(w)
    <2>1. CASE Acquire(w)
      BY <1>1, <1>2, <2>1 DEF Acquire, SetKey
    <2>2. CASE AcquireReplyLost(w)
      BY <1>1, <1>2, <2>2 DEF AcquireReplyLost, SetKey, taskVars
    <2>3. CASE Start(w) \/ StartFails(w)
      BY <1>1, <1>2, <2>3 DEF Start, StartFails, lockVars
    <2>4. CASE StartCancelled(w)
      BY <1>1, <1>2, <2>4 DEF StartCancelled, EndTask, AbandonKey
    <2>. QED
      BY <1>3, <2>1, <2>2, <2>3, <2>4 DEF Enter
  <1>4. CASE Poll(w)
    <2>1. CASE ResetPosition(w)
      BY <1>1, <1>2, <2>1 DEF ResetPosition, lockVars
    <2>2. CASE PollRecords(w)
      <3>1. PICK n \in 1 .. BatchSize : position' = [position EXCEPT ![w] = @ + n]
        BY <2>2 DEF PollRecords
      <3>2. n \in Nat \ {0}
        BY <3>1, BatchAssumption
      <3>3. /\ pc[w] = "polling" /\ pc' = [pc EXCEPT ![w] = "body"]
            /\ first' = [first EXCEPT ![w] = position[w]]
            /\ owner' = owner /\ ttl' = ttl
        BY <2>2 DEF PollRecords, lockVars
      <3>. QED
        BY <1>1, <1>2, <3>1, <3>2, <3>3
    <2>3. CASE PollEmpty(w) \/ PollPoison(w)
      BY <1>1, <1>2, <2>3 DEF PollEmpty, PollPoison, lockVars
    <2>. QED
      BY <1>4, <2>1, <2>2, <2>3 DEF Poll
  <1>5. CASE Body(w)
    BY <1>1, <1>2, <1>5 DEF Body, HandleBatch, LeaveBody, lockVars
  <1>6. CASE Checkpoint(w)
    <2>1. CASE CheckpointExtend(w) \/ CheckpointExtendRaises(w)
      <3>1. /\ pc[w] = "extending"
            /\ \E to \in {"committing", "exiting"} : pc' = [pc EXCEPT ![w] = to]
            /\ first' = first /\ position' = position /\ owner' = owner
            /\ \/ owner = w /\ ttl' = ttl + Timeout
               \/ ttl' = ttl /\ pc' = [pc EXCEPT ![w] = "exiting"]
        BY <2>1 DEF CheckpointExtend, CheckpointExtendRaises, ExtendKey, lockVars
      <3>2. Budget(first[w]) + Timeout =< Budget(position[w])
        BY <1>1, <1>2, <3>1
      <3>3. Budget(position[w]) =< Budget(logEnd)
        BY <1>1, <1>2
      <3>. QED
        BY <1>1, <1>2, <3>1, <3>2, <3>3
    <2>2. CASE CheckpointNotOwned(w)
      BY <1>1, <1>2, <2>2 DEF CheckpointNotOwned, lockVars
    <2>3. CASE CheckpointCommit(w) \/ CheckpointCommitRaises(w)
      BY <1>1, <1>2, <2>3 DEF CheckpointCommit, CheckpointCommitRaises, lockVars
    <2>4. CASE Resume(w)
      BY <1>1, <1>2, <2>4 DEF Resume, lockVars
    <2>. QED
      BY <1>6, <2>1, <2>2, <2>3, <2>4 DEF Checkpoint
  <1>7. CASE Exit(w)
    <2>1. CASE ExitCommit(w) \/ ExitCommitRaises(w) \/ Stop(w)
      BY <1>1, <1>2, <2>1 DEF ExitCommit, ExitCommitRaises, Stop, lockVars
    <2>2. CASE Release(w)
      BY <1>1, <1>2, <2>2 DEF Release, DeleteKey, EndTask, lockVars
    <2>3. CASE ReleaseRaises(w) \/ Crash(w)
      BY <1>1, <1>2, <2>3 DEF ReleaseRaises, Crash, AbandonKey, EndTask
    <2>. QED
      BY <1>7, <2>1, <2>2, <2>3 DEF Exit
  <1>. QED
    BY <1>3, <1>4, <1>5, <1>6, <1>7 DEF Task

LEMMA HoldStep == TypeOK /\ HoldInv /\ [Next]_vars => HoldInv'
  <1>. SUFFICES ASSUME TypeOK, HoldInv, [Next]_vars PROVE HoldInv'
    OBVIOUS
  <1>1. CASE Produce
    <2>1. logEnd \in Nat /\ ttl \in Nat /\ logEnd' = logEnd + 1
      BY <1>1, LogAssumption DEF Produce, TypeOK, LockTypeOK
    <2>2. Budget(logEnd) =< Budget(logEnd + 1) /\ Budget(logEnd) \in Nat
          /\ Budget(logEnd + 1) \in Nat
      BY <2>1, BudgetFacts
    <2>. QED
      BY <1>1, <2>1, <2>2 DEF Produce, HoldInv, Budget, lockVars, taskVars
  <1>2. CASE Clock(Tick) \/ Clock(Expire(Owners))
    <2>1. ttl \in Nat /\ ttl' \in Nat /\ ttl' =< ttl /\ (owner' = owner \/ owner' = NoOne)
      BY <1>2 DEF Clock, Tick, Expire, TypeOK, LockTypeOK
    <2>2. logEnd' = logEnd /\ logEnd \in Nat /\ UNCHANGED taskVars
      BY <1>2, LogAssumption DEF Clock, TypeOK
    <2>3. \A m \in Nat : Budget(m) \in Nat
      BY BudgetFacts
    <2>4. \A w \in Workers : first[w] \in Nat /\ position[w] \in Nat
      BY <2>2 DEF TypeOK
    <2>. QED
      BY <2>1, <2>2, <2>3, <2>4, OwnerAssumption, TimeoutAssumption DEF HoldInv, taskVars
  <1>3. ASSUME NEW w \in Workers, Task(w) PROVE HoldInv'
    BY <1>3, HoldTask
  <1>4. CASE UNCHANGED vars
    BY <1>4 DEF vars, HoldInv, Budget, lockVars, taskVars
  <1>. QED
    BY <1>1, <1>2, <1>3, <1>4 DEF Next

\* LockHoldBound of the runs: whatever is extended, lost or left behind, the key never has
\* more left to live than one timeout for its acquire and one for each record of the log.
THEOREM HoldIsBounded == Spec => []LockHoldBound
  <1>1. Init => HoldInv
    <2>1. Timeout \in Nat
      BY TimeoutAssumption
    <2>. QED
      BY <2>1, OwnerAssumption DEF Init, LockInit, HoldInv, Budget
  <1>2. HoldInv => LockHoldBound
    BY DEF HoldInv, Budget, LockHoldBound
  <1>. QED
    BY <1>1, <1>2, HoldStep, TypeCorrect, PTL DEF Spec

(***************************************************************************)
(* ConsumerMaker implements PartitionDelivery: every step of a task, the   *)
(* lock's clock or the producer is an append, an in-order delivery or a    *)
(* commit of what has been delivered, or leaves the abstract state alone.  *)
(***************************************************************************)

AbstractSame == UNCHANGED <<logEnd, committed, handled>>

\* A body that gets through its batch up to some record.
LEMMA HandlingDelivers ==
  ASSUME TypeOK, DeliveredInv, NEW w \in Workers,
         NEW n \in first[w]..position[w],
         handled' = handled \cup (first[w]..(n - 1)),
         UNCHANGED <<logEnd, committed>>
  PROVE  Delivery!Deliver \/ AbstractSame
  <1>1. /\ logEnd \in Nat /\ first[w] \in 0..logEnd /\ position[w] \in 0..logEnd
        /\ 0..(first[w] - 1) \subseteq handled
    BY LogAssumption DEF TypeOK, DeliveredInv, Done
  <1>2. CASE n = first[w]
    <2>1. first[w]..(n - 1) = {}
      BY <1>1, <1>2
    <2>. QED
      BY <2>1 DEF AbstractSame
  <1>3. CASE n # first[w]
    <2>1. n \in 1..logEnd
      BY <1>1, <1>3
    <2>2. handled \cup (first[w]..(n - 1)) = handled \cup (0..(n - 1))
      BY <1>1, <2>1
    <2>. QED
      BY <2>1, <2>2 DEF Delivery!Deliver
  <1>. QED
    BY <1>2, <1>3

LEMMA BodyDelivers ==
  ASSUME TypeOK, DeliveredInv, NEW w \in Workers, Body(w)
  PROVE  Delivery!Deliver \/ AbstractSame
  <1>1. position[w] \in first[w]..position[w]
    BY LogAssumption DEF TypeOK
  <1>2. CASE HandleBatch(w)
    BY <1>1, <1>2, HandlingDelivers DEF HandleBatch, Batch
  <1>3. CASE LeaveBody(w)
    BY <1>3, HandlingDelivers DEF LeaveBody
  <1>. QED
    BY <1>2, <1>3 DEF Body

\* A commit call that reaches the broker, from a checkpoint or from __aexit__.
LEMMA CommitCommits ==
  ASSUME TypeOK, DeliveredInv, NEW w \in Workers,
         CommitOffset(w) \/ UNCHANGED committed,
         UNCHANGED <<logEnd, handled>>
  PROVE  Delivery!Commit \/ AbstractSame
  <1>1. /\ processed[w] \in 0..logEnd
        /\ 0..(processed[w] - 1) \subseteq handled
    BY DEF TypeOK, DeliveredInv, Done
  <1>. QED
    BY <1>1 DEF CommitOffset, Delivery!Commit, AbstractSame

\* Every step but a body's and a producer's.
LEMMA OtherTaskStep ==
  ASSUME TypeOK, DeliveredInv, NEW w \in Workers,
         Enter(w) \/ Poll(w) \/ Checkpoint(w) \/ Exit(w)
  PROVE  Delivery!Commit \/ AbstractSame
  <1>1. CASE Enter(w) \/ Poll(w)
    BY <1>1 DEF Enter, Acquire, AcquireReplyLost, Start, StartFails,
                StartCancelled, Poll, ResetPosition, PollRecords, PollEmpty,
                PollPoison, AbstractSame
  <1>2. CASE Checkpoint(w)
    BY <1>2, CommitCommits
    DEF Checkpoint, CheckpointExtend, CheckpointNotOwned,
        CheckpointExtendRaises, CheckpointCommit, CheckpointCommitRaises,
        CommitRaises, Resume, AbstractSame
  <1>3. CASE Exit(w)
    BY <1>3, CommitCommits
    DEF Exit, ExitCommit, ExitCommitRaises, CommitRaises, Stop, Release,
        ReleaseRaises, Crash, AbstractSame
  <1>. QED
    BY <1>1, <1>2, <1>3

LEMMA ProducerAppends == Produce => Delivery!Append
  BY DEF Produce, Delivery!Append

LEMMA SameIsStutter == AbstractSame => UNCHANGED Delivery!vars
  BY DEF AbstractSame, Delivery!vars

LEMMA DeliveryStep ==
  TypeOK /\ DeliveredInv /\ [Next]_vars => [Delivery!Next]_(Delivery!vars)
  <1> SUFFICES ASSUME TypeOK, DeliveredInv, [Next]_vars
               PROVE  Delivery!Next \/ AbstractSame
    BY SameIsStutter
  <1>1. CASE Produce
    BY <1>1, ProducerAppends DEF Delivery!Next
  <1>2. CASE Clock(Tick) \/ Clock(Expire(Owners)) \/ UNCHANGED vars
    BY <1>2 DEF Clock, vars, AbstractSame
  <1>3. ASSUME NEW w \in Workers, Task(w)
        PROVE  Delivery!Next \/ AbstractSame
    BY <1>3, BodyDelivers, OtherTaskStep DEF Task, Delivery!Next
  <1>. QED
    BY <1>1, <1>2, <1>3 DEF Next

\* ImplementsDelivery of the runs: in all circumstances the maker's behaviour is
\* one of in-order at-least-once delivery.
THEOREM DeliversAtLeastOnce == Spec => ImplementsDelivery
  <1>1. Init => Delivery!Init
    BY DEF Init, Delivery!Init
  <1>2. Init => TypeOK /\ DeliveredInv
    BY TypeInit, DeliveredInit
  <1>3. TypeOK /\ DeliveredInv /\ [Next]_vars => (TypeOK /\ DeliveredInv)'
    BY TypeStep, DeliveredStep
  <1>. QED
    BY <1>1, <1>2, <1>3, DeliveryStep, PTL
    DEF Spec, ImplementsDelivery, Delivery!Spec

(***************************************************************************)
(* The windowed specification, under prompt bodies.                        *)
(***************************************************************************)

LEMMA WindowedStep ==
  DeliveredInv /\ PromptInv /\ [PromptNext]_vars
     => [Delivery!WindowNext]_(Delivery!vars)
  <1> SUFFICES ASSUME DeliveredInv, PromptInv, [PromptNext]_vars
               PROVE  Delivery!WindowNext \/ AbstractSame
    BY SameIsStutter
  <1>1. TypeOK /\ MutualExclusion /\ WindowInv
    BY DEF PromptInv
  <1>2. committed' >= committed /\ WindowInv'
    BY <1>1, WindowStep
  <1>3. handled' \subseteq 0..(committed' + 2 * BatchSize - 1)
    BY <1>2 DEF WindowInv
  <1>4. CASE Produce
    BY <1>4, ProducerAppends DEF Delivery!WindowNext
  <1>5. CASE Clock(Tick) \/ Clock(Expire({Orphan})) \/ UNCHANGED vars
    BY <1>5 DEF Clock, vars, AbstractSame
  <1>6. ASSUME NEW w \in Workers, Body(w)
        PROVE  Delivery!WindowNext \/ AbstractSame
    <2>1. committed' = committed
      BY <1>6 DEF Body, HandleBatch, LeaveBody
    <2>. QED
      BY <1>1, <1>3, <1>6, <2>1, BodyDelivers
      DEF Delivery!WindowNext, Delivery!WindowDeliver
  <1>7. ASSUME NEW w \in Workers,
               Enter(w) \/ Poll(w) \/ Checkpoint(w) \/ Exit(w)
        PROVE  Delivery!WindowNext \/ AbstractSame
    BY <1>1, <1>2, <1>7, OtherTaskStep
    DEF Delivery!WindowNext, Delivery!ForwardCommit
  <1>. QED
    BY <1>4, <1>5, <1>6, <1>7 DEF PromptNext, Task

\* ImplementsWindow of the runs: with prompt bodies the offset never goes back and
\* delivery is never more than two batches ahead of it.
THEOREM DeliversInWindow == PromptSpec => ImplementsWindow
  <1>1. Init => Delivery!Init
    BY DEF Init, Delivery!Init
  <1>2. Init => DeliveredInv /\ PromptInv
    BY DeliveredInit, TypeInit, MutexInit, WindowInit DEF PromptInv
  <1>3. DeliveredInv /\ PromptInv /\ [PromptNext]_vars
           => (DeliveredInv /\ PromptInv)'
    BY DeliveredStep, TypeStep, MutexStep, WindowStep, PromptIsNext
    DEF PromptInv
  <1>. QED
    BY <1>1, <1>2, <1>3, WindowedStep, PTL
    DEF PromptSpec, ImplementsWindow, Delivery!WindowSpec

=============================================================================

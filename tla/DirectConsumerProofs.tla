------------------------- MODULE DirectConsumerProofs -------------------------
(***************************************************************************)
(* Theorems about the producer and the direct consumer behind it, for      *)
(* every number of senders and events, every batch size, fill ratio and    *)
(* threshold, and every number of faults.                                  *)
(*                                                                         *)
(* What is handled below the fetch position is a prefix of the partition   *)
(* up to the first poll that meets the offset limit: from there on nothing *)
(* is admitted any more, so the loop ends before the hole matters.         *)
(* Together with offsets that only grow, this makes the consumer an        *)
(* implementation of PartitionDelivery.                                    *)
(***************************************************************************)
EXTENDS DirectConsumer, WellFoundedInduction, TLAPS

\* The least element of a set of naturals, which CHOOSE needs.
LEMMA LeastElement ==
  ASSUME NEW S, S \subseteq Nat, S # {}
  PROVE  \E m \in S : \A n \in S : m <= n
  <1>. DEFINE R == {p \in Nat \X Nat : p[1] < p[2]}
  <1>1. IsWellFoundedOn(R, Nat)
    BY NatLessThanWellFounded DEF OpToRel
  <1>. HIDE DEF R
  <1>2. PICK m \in S : \A n \in S : ~(<<n, m>> \in R)
    BY <1>1, WFMin
  <1>3. \A n \in S : ~(n < m)
    BY <1>2 DEF R
  <1>. QED
    BY <1>3

(***************************************************************************)
(* The producer                                                            *)
(***************************************************************************)

\* A coroutine that is sending has something left to send, and no other has begun to.
SendingInv ==
    \A s \in Senders : /\ sender[s] = "sending" => sent[s] < Bulk[s]
                       /\ sender[s] \in {"new", "starting"} => sent[s] = 0

\* The attribute is set if and only if the process has made a producer.
MadeInv ==
    /\ made = IF producer = "none" THEN 0 ELSE 1
    /\ \A s \in Senders : sender[s] = "starting" => producer # "none"

\* What a coroutine has handed over is somewhere, and only what it has handed over.
Whereabouts ==
    /\ \A s \in Senders : \A i \in 1 .. sent[s] :
          Event(s, i) \in Contents(buffer) \cup Contents(log) \cup dropped
    /\ \A e \in Contents(buffer) \cup Contents(log) : e.number <= sent[e.by]

\* No record is ahead of an earlier event of its call, in the buffer and in the partition.
InOrder(behind, records) ==
    \A p \in DOMAIN records : \A i \in 1 .. records[p].event.number - 1 :
        \/ Event(records[p].event.by, i) \in behind
        \/ \E q \in 1 .. p - 1 : records[q].event = Event(records[p].event.by, i)

OrderInv ==
    /\ InOrder(dropped \cup Contents(log), buffer)
    /\ InOrder(dropped, log)

ProducerInv == ProducerTypeOK /\ SendingInv /\ MadeInv

LEMMA ProducerInvInit == ProducerInit => ProducerInv
  <1>. SUFFICES ASSUME ProducerInit PROVE ProducerInv
    OBVIOUS
  <1>1. 0 \in 0 .. MaxTime /\ 0 \in 0 .. MaxFaults /\ \A s \in Senders : 0 <= Bulk[s]
    BY ProducerAssumption
  <1>2. \A s \in Senders : sent[s] = 0 /\ sender[s] = "new"
    BY DEF ProducerInit
  <1>3. buffer \in Seq(Records) /\ log \in Seq(Records)
    BY DEF ProducerInit
  <1>4. sent \in [Senders -> Nat] /\ sender \in [Senders -> {"new", "starting", "sending", "ended"}]
    BY DEF ProducerInit
  <1>5. ProducerTypeOK
    BY <1>1, <1>2, <1>3, <1>4 DEF ProducerInit, ProducerTypeOK
  <1>. QED
    BY <1>2, <1>5 DEF ProducerInit, ProducerInv, SendingInv, MadeInv

LEMMA FaultType ==
  ASSUME faults \in 0 .. MaxFaults, Fault
  PROVE  faults' \in 0 .. MaxFaults
  BY ProducerAssumption DEF Fault

LEMMA ContentsAreEvents ==
  ASSUME NEW records \in Seq(Records)
  PROVE  Contents(records) \subseteq Events
  <1>1. \A i \in DOMAIN records : records[i] \in Records
    OBVIOUS
  <1>. QED
    BY <1>1 DEF Contents, Records

LEMMA ProducerInvStep ==
  ASSUME ProducerInv, ProducerNext
  PROVE  ProducerInv' /\ UNCHANGED now
  <1>1. ASSUME NEW s \in Senders, GetProducer(s)
        PROVE  ProducerInv' /\ UNCHANGED now
    <2>1. 0 < Bulk[s]
      BY ProducerAssumption
    <2>. QED
      BY <1>1, <2>1 DEF GetProducer, Advance, ProducerInv, ProducerTypeOK, SendingInv, MadeInv
  <1>2. ASSUME NEW s \in Senders, Started(s) \/ StartFails(s) \/ SendFails(s)
        PROVE  ProducerInv' /\ UNCHANGED now
    <2>1. faults' \in 0 .. MaxFaults
      BY <1>2, FaultType DEF Started, StartFails, SendFails, ProducerInv, ProducerTypeOK
    <2>2. UNCHANGED <<now, made, sent, buffer, dropped, log>>
      BY <1>2 DEF Started, StartFails, SendFails
    <2>3. PICK to \in {"sending", "ended"} : Advance(s, sender[s], to)
      BY <1>2 DEF Started, StartFails, SendFails, Advance
    <2>4. sender[s] \in {"starting", "sending"}
      BY <1>2 DEF Started, StartFails, SendFails, Advance
    <2>5. /\ producer' \in {"starting", "started", "broken", producer}
          /\ (producer' = "none" <=> producer = "none")
      BY <1>2, <2>4 DEF Started, StartFails, SendFails, Advance, ProducerInv, MadeInv
    <2>6. 0 < Bulk[s] /\ Bulk[s] \in Nat
      BY ProducerAssumption
    <2>7. ProducerTypeOK'
      BY <2>1, <2>2, <2>3, <2>5 DEF Advance, ProducerInv, ProducerTypeOK
    <2>8. SendingInv'
      BY <2>2, <2>3, <2>4, <2>6 DEF Advance, ProducerInv, ProducerTypeOK, SendingInv
    <2>9. MadeInv'
      BY <2>2, <2>3, <2>5 DEF Advance, ProducerInv, ProducerTypeOK, MadeInv
    <2>. QED
      BY <2>2, <2>7, <2>8, <2>9 DEF ProducerInv
  <1>3. ASSUME NEW s \in Senders, Send(s)
        PROVE  ProducerInv' /\ UNCHANGED now
    <2>1. sent[s] \in Nat /\ Bulk[s] \in Nat /\ sent[s] < Bulk[s]
      BY <1>3, ProducerAssumption DEF ProducerInv, ProducerTypeOK, SendingInv, Send, HandOver
    <2>2. sent[s] + 1 \in 1 .. Bulk[s]
      BY <2>1
    <2>3. Event(s, sent[s] + 1) \in Events
      BY <2>2 DEF Events
    <2>4. buffer' \in Seq(Records)
      BY <1>3, <2>3 DEF Send, HandOver, ProducerInv, ProducerTypeOK, Records
    <2>. QED
      BY <1>3, <2>1, <2>4 DEF Send, HandOver, ProducerInv, ProducerTypeOK, SendingInv, MadeInv
  <1>4. CASE Deliver
    <2>1. faults' \in 0 .. MaxFaults
      BY <1>4, FaultType DEF Deliver, ProducerInv, ProducerTypeOK
    <2>2. Head(buffer) \in Records /\ Tail(buffer) \in Seq(Records)
      BY <1>4 DEF Deliver, ProducerInv, ProducerTypeOK
    <2>3. log' \in Seq(Records) /\ buffer' \in Seq(Records)
      <3>1. log \in Seq(Records) /\ buffer \in Seq(Records)
        BY DEF ProducerInv, ProducerTypeOK
      <3>2. log' = Append(log, Head(buffer)) /\ buffer' \in {buffer, Tail(buffer)}
        BY <1>4 DEF Deliver
      <3>3. Append(log, Head(buffer)) \in Seq(Records)
        BY <2>2, <3>1
      <3>. QED
        BY <2>2, <3>1, <3>2, <3>3
    <2>. QED
      BY <1>4, <2>1, <2>3 DEF Deliver, ProducerInv, ProducerTypeOK, SendingInv, MadeInv
  <1>5. CASE GiveUp
    <2>1. faults' \in 0 .. MaxFaults
      BY <1>5, FaultType DEF GiveUp, ProducerInv, ProducerTypeOK
    <2>2. buffer' \in Seq(Records) /\ Head(buffer) \in Records
      BY <1>5 DEF GiveUp, ProducerInv, ProducerTypeOK
    <2>3. dropped' \subseteq Events
      BY <1>5, <2>2 DEF GiveUp, ProducerInv, ProducerTypeOK, Records
    <2>. QED
      BY <1>5, <2>1, <2>2, <2>3 DEF GiveUp, ProducerInv, ProducerTypeOK, SendingInv, MadeInv
  <1>6. CASE ProcessDies
    <2>1. faults' \in 0 .. MaxFaults
      BY <1>6, FaultType DEF ProcessDies, ProducerInv, ProducerTypeOK
    <2>2. dropped' \subseteq Events
      BY <1>6, ContentsAreEvents DEF ProcessDies, ProducerInv, ProducerTypeOK
    <2>. QED
      BY <1>6, <2>1, <2>2 DEF ProcessDies, ProducerInv, ProducerTypeOK, SendingInv, MadeInv
  <1>. QED
    BY <1>1, <1>2, <1>3, <1>4, <1>5, <1>6 DEF ProducerNext, Sending

\* No step of the producer touches what is in the partition already.
LEMMA LogGrows ==
  ASSUME ProducerInv, ProducerNext
  PROVE  /\ Len(log) <= Len(log')
         /\ \A i \in 1 .. Len(log) : log'[i] = log[i]
         /\ log \in Seq(Records) /\ log' \in Seq(Records)
  <1>1. log \in Seq(Records) /\ log' \in Seq(Records)
    BY ProducerInvStep DEF ProducerInv, ProducerTypeOK
  <1>2. CASE Deliver
    <2>1. log' = Append(log, Head(buffer))
      BY <1>2 DEF Deliver
    <2>. QED
      BY <1>1, <2>1
  <1>3. CASE UNCHANGED log
    BY <1>1, <1>3
  <1>4. Deliver \/ UNCHANGED log
    BY DEF ProducerNext, GiveUp, ProcessDies, Sending, GetProducer, Started, StartFails, Send,
           HandOver, SendFails
  <1>. QED
    BY <1>1, <1>2, <1>3, <1>4

(***************************************************************************)
(* The task                                                                *)
(***************************************************************************)

\* The offset limit of a loop is the first record that is too young, and stays it.
LimitInv ==
    limit # NoLimit => /\ limit \in Offsets
                       /\ \A o \in 0 .. limit - 1 : Stamp(o) < threshold

\* What is known of the offsets at each await.
TaskTypeOK ==
    /\ handled \subseteq Offsets
    /\ pc \in {"idle", "asking", "polling", "body", "resuming", "leaving"}
    /\ threshold \in 0 .. now
    /\ committed \in 0 .. Len(log)
    /\ position \in 0 .. Len(log)
    /\ first \in 0 .. position
    /\ processed \in 0 .. position
    /\ pc \in {"idle", "asking"} => limit = NoLimit /\ processed = 0
    /\ pc \in {"body", "resuming"} => first < position /\ Admitted(first)

\* Where a batch ends: at the fetch position, or at the limit.
End == IF limit = NoLimit \/ position <= limit THEN position ELSE limit

LEMMA BatchInterval ==
  ASSUME TaskTypeOK, LimitInv, log \in Seq(Records),
         pc \in {"body", "resuming"}
  PROVE  /\ Batch = first .. End - 1 /\ first < End /\ End \in 1 .. position
         /\ AfterLast = End - 1
  <1>1. /\ first \in Nat /\ position \in Nat /\ first < position /\ Admitted(first)
        /\ limit = NoLimit \/ limit \in Nat
    BY DEF TaskTypeOK, LimitInv, Offsets
  <1>2. first < End /\ End \in 1 .. position
    BY <1>1 DEF End, Admitted
  <1>3. Batch = first .. End - 1
    BY <1>1, <1>2 DEF Batch, Admitted, End
  <1>4. End - 1 \in Batch /\ \A p \in Batch : p <= End - 1
    BY <1>1, <1>2, <1>3
  <1>5. \A o \in Batch : (\A p \in Batch : p <= o) => o = End - 1
    BY <1>1, <1>2, <1>3
  <1>6. AfterLast = End - 1
    BY <1>4, <1>5 DEF AfterLast
  <1>. QED
    BY <1>2, <1>3, <1>6

\* All of the records before an offset have been handled.
HandledBelow(o) == 0 .. o - 1 \subseteq handled

\* Nothing is skipped: behind what is committed or recorded, below the batch at hand, and
\* below the fetch position unless that has run into the limit.
PrefixInv ==
    /\ HandledBelow(committed)
    /\ HandledBelow(processed)
    /\ pc \in {"asking", "polling"} => HandledBelow(position) \/ (limit # NoLimit /\ limit <= position)
    /\ pc \in {"body", "resuming"} => HandledBelow(first)
    /\ pc = "resuming" => Batch \subseteq handled

ConsumerInv == TaskTypeOK /\ LimitInv /\ PrefixInv

LEMMA ConsumerInvInit == Init => ConsumerInv
  <1>1. Init => Len(log) = 0
    BY DEF Init, ProducerInit
  <1>2. Init => now = 0
    BY DEF Init, ProducerInit
  <1>. QED
    BY <1>1, <1>2 DEF Init, ConsumerInv, TaskTypeOK, LimitInv, PrefixInv, HandledBelow

\* The producer's steps, and time, take nothing from the task.
LEMMA ConsumerInvOthers ==
  ASSUME ConsumerInv, ProducerInv, UNCHANGED consumerVars,
         (ProducerNext /\ UNCHANGED now) \/ Tick
  PROVE  ConsumerInv'
  <1>1. /\ Len(log) \in Nat /\ Len(log') \in Nat /\ Len(log) <= Len(log')
        /\ \A i \in 1 .. Len(log) : log'[i] = log[i]
    <2>1. CASE ProducerNext
      BY <2>1, LogGrows
    <2>2. CASE Tick
      BY <2>2 DEF Tick, ProducerInv, ProducerTypeOK
    <2>. QED
      BY <2>1, <2>2
  <1>2. now \in Nat /\ now' \in Nat /\ now <= now'
    BY ProducerAssumption DEF Tick, ProducerInv, ProducerTypeOK
  <1>3. Offsets \subseteq Offsets' /\ \A o \in Offsets : Stamp(o)' = Stamp(o)
    BY <1>1 DEF Offsets, Stamp
  <1>4. UNCHANGED <<Batch>> /\ \A o : Admitted(o)' = Admitted(o)
    BY DEF consumerVars, taskVars, Batch, Admitted
  <1>5. TaskTypeOK'
    BY <1>1, <1>2, <1>3, <1>4 DEF consumerVars, taskVars, ConsumerInv, TaskTypeOK, Admitted
  <1>6. LimitInv'
    <2>1. limit # NoLimit => limit \in Offsets /\ \A o \in 0 .. limit - 1 : o \in Offsets
      BY <1>1 DEF ConsumerInv, LimitInv, Offsets
    <2>. QED
      BY <1>3, <2>1 DEF consumerVars, taskVars, ConsumerInv, LimitInv
  <1>7. PrefixInv'
    BY <1>4 DEF consumerVars, taskVars, ConsumerInv, PrefixInv, HandledBelow
  <1>. QED
    BY <1>5, <1>6, <1>7 DEF ConsumerInv

LEMMA BelowBelow ==
  ASSUME NEW n \in Nat, NEW l \in 0 .. n - 1, NEW o \in 0 .. l - 1
  PROVE  o \in 0 .. n - 1 /\ o \in Nat /\ l \in Nat /\ o < l
  OBVIOUS

LEMMA AskStep ==
  ASSUME ConsumerInv, ProducerInv, Ask
  PROVE  ConsumerInv'
  <1>1. log \in Seq(Records) /\ now \in Nat /\ log' = log /\ now' = now
    BY DEF Ask, producerVars, ProducerInv, ProducerTypeOK
  <1>2. \A o \in Offsets : Stamp(o) \in Nat
    <2>1. \A i \in 1 .. Len(log) : log[i] \in Records
      BY <1>1
    <2>. QED
      BY <1>1, <2>1 DEF Offsets, Stamp, Records
  <1>3. threshold' \in 0 .. now
    BY <1>1, ParameterAssumption DEF Ask
  <1>. DEFINE young == {o \in Offsets : Stamp(o) >= threshold'}
  <1>4. limit' = IF young = {} THEN NoLimit ELSE CHOOSE o \in young : \A p \in young : o <= p
    BY DEF Ask, FirstSince
  <1>5. ASSUME young # {}
        PROVE  limit' \in young /\ \A p \in young : limit' <= p
    <2>1. young \subseteq Nat
      BY <1>1 DEF Offsets
    <2>2. \E m \in young : \A n \in young : m <= n
      BY <1>5, <2>1, LeastElement
    <2>. QED
      BY <1>4, <1>5, <2>2
  <1>6. LimitInv'
    <2>. SUFFICES ASSUME young # {}
                  PROVE  limit' \in Offsets /\ \A o \in 0 .. limit' - 1 : Stamp(o) < threshold'
      BY <1>1, <1>4 DEF LimitInv, Offsets, Stamp
    <2>1. limit' \in Offsets /\ \A p \in young : limit' <= p
      BY <1>5
    <2>2. ASSUME NEW o, o \in 0 .. limit' - 1
          PROVE  Stamp(o) < threshold'
      <3>0. limit' \in 0 .. Len(log) - 1 /\ Len(log) \in Nat
        BY <1>1, <2>1 DEF Offsets
      <3>. HIDE DEF young
      <3>1. o \in Offsets /\ o \in Nat /\ limit' \in Nat /\ o < limit'
        BY <2>2, <3>0, BelowBelow DEF Offsets
      <3>2. ~(Stamp(o) >= threshold')
        <4>. SUFFICES ASSUME o \in young PROVE FALSE
          BY <3>1 DEF young
        <4>1. limit' <= o
          BY <2>1
        <4>. QED
          BY <3>1, <4>1
      <3>. QED
        BY <1>1, <1>2, <1>3, <3>1, <3>2
    <2>. QED
      BY <2>1, <2>2
  <1>7. TaskTypeOK'
    BY <1>1, <1>3 DEF Ask, Goto, ConsumerInv, TaskTypeOK, Offsets
  <1>8. PrefixInv'
    BY DEF Ask, Goto, ConsumerInv, TaskTypeOK, PrefixInv, HandledBelow
  <1>. QED
    BY <1>6, <1>7, <1>8 DEF ConsumerInv

LEMMA PollStep ==
  ASSUME ConsumerInv, ProducerInv, Poll
  PROVE  ConsumerInv'
  <1>1. PICK n \in 1 .. BatchSize :
           position + n <= Len(log) /\ first' = position /\ position' = position + n
    BY DEF Poll
  <1>2. /\ position \in Nat /\ first' \in Nat /\ position' \in 0 .. Len(log) /\ first' < position'
        /\ n \in Nat /\ n > 0 /\ log' = log /\ log \in Seq(Records) /\ now' = now
    BY <1>1, ParameterAssumption DEF Poll, producerVars, ConsumerInv, TaskTypeOK, ProducerInv, ProducerTypeOK
  <1>3. pc' \in {"body", "leaving"} /\ UNCHANGED <<committed, handled, threshold, limit, processed>>
    BY DEF Poll
  <1>4. limit = NoLimit \/ limit \in Nat
    BY <1>2 DEF ConsumerInv, LimitInv, Offsets
  <1>5. pc' = "body" => Admitted(first')
    <2>. SUFFICES ASSUME pc' = "body" PROVE Admitted(first')
      OBVIOUS
    <2>1. PICK o \in first' .. position' - 1 : Admitted(o)
      BY DEF Poll
    <2>. QED
      BY <1>2, <1>4, <2>1 DEF Admitted
  <1>6. TaskTypeOK'
    <2>1. processed' \in 0 .. position' /\ first' \in 0 .. position'
      <3>1. processed \in 0 .. position /\ position' = position + n
        BY <1>1 DEF ConsumerInv, TaskTypeOK
      <3>. QED
        BY <1>2, <1>3, <3>1
    <2>2. /\ pc' \notin {"idle", "asking"}
          /\ pc' \in {"body", "resuming"} => first' < position' /\ Admitted(first)'
      BY <1>2, <1>3, <1>5 DEF Admitted
    <2>. QED
      BY <1>2, <1>3, <2>1, <2>2 DEF ConsumerInv, TaskTypeOK, Offsets
  <1>7. LimitInv'
    BY <1>2, <1>3 DEF ConsumerInv, LimitInv, Offsets, Stamp
  <1>8. pc' = "body" => HandledBelow(position)
    BY <1>1, <1>2, <1>4, <1>5, ParameterAssumption DEF Poll, ConsumerInv, PrefixInv, Admitted
  <1>9. PrefixInv'
    BY <1>1, <1>3, <1>8 DEF ConsumerInv, PrefixInv, HandledBelow
  <1>. QED
    BY <1>6, <1>7, <1>9 DEF ConsumerInv

LEMMA BodyStep ==
  ASSUME ConsumerInv, ProducerInv, HandleBatch
  PROVE  ConsumerInv'
  <1>1. log \in Seq(Records) /\ log' = log /\ now' = now
    BY DEF HandleBatch, producerVars, ProducerInv, ProducerTypeOK
  <1>2. /\ pc = "body" /\ pc' = "resuming" /\ handled' = handled \cup Batch
        /\ UNCHANGED <<threshold, limit, first, position>>
    BY DEF HandleBatch, Goto
  <1>3. Batch = first .. End - 1 /\ first < End /\ End \in 1 .. position
    BY <1>1, <1>2, BatchInterval DEF ConsumerInv
  <1>4. Batch \subseteq Offsets
    BY <1>1, <1>3 DEF ConsumerInv, TaskTypeOK, Offsets
  <1>5. UNCHANGED <<committed, processed>>
    BY DEF HandleBatch
  <1>6. TaskTypeOK'
    BY <1>1, <1>2, <1>4, <1>5 DEF ConsumerInv, TaskTypeOK, Admitted, Offsets
  <1>7. LimitInv'
    BY <1>1, <1>2 DEF ConsumerInv, LimitInv, Offsets, Stamp
  <1>8. PrefixInv'
    BY <1>2, <1>5 DEF ConsumerInv, PrefixInv, HandledBelow, Batch, Admitted
  <1>. QED
    BY <1>6, <1>7, <1>8 DEF ConsumerInv

LEMMA CommitStep ==
  ASSUME ConsumerInv, ProducerInv, Commit
  PROVE  ConsumerInv'
  <1>1. log \in Seq(Records) /\ log' = log /\ now' = now
    BY DEF Commit, producerVars, ProducerInv, ProducerTypeOK
  <1>2. /\ committed' = processed /\ processed' = 0
        /\ UNCHANGED <<handled, pc, threshold, limit, first, position>>
    BY DEF Commit, CommitOffset
  <1>3. TaskTypeOK'
    BY <1>1, <1>2 DEF ConsumerInv, TaskTypeOK, Admitted, Offsets
  <1>4. LimitInv'
    BY <1>1, <1>2 DEF ConsumerInv, LimitInv, Offsets, Stamp
  <1>5. PrefixInv'
    BY <1>2 DEF ConsumerInv, PrefixInv, HandledBelow, Batch, Admitted
  <1>. QED
    BY <1>3, <1>4, <1>5 DEF ConsumerInv

LEMMA ResumeStep ==
  ASSUME ConsumerInv, ProducerInv, Resume
  PROVE  ConsumerInv'
  <1>1. log \in Seq(Records) /\ log' = log /\ now' = now
    BY DEF Resume, producerVars, ProducerInv, ProducerTypeOK
  <1>2. /\ pc = "resuming" /\ pc' \in {"leaving", "polling"} /\ processed' = AfterLast + 1
        /\ UNCHANGED <<committed, handled, threshold, limit, first, position>>
    BY DEF Resume
  <1>3. Batch = first .. End - 1 /\ first < End /\ End \in 1 .. position /\ processed' = End
    <2>1. /\ Batch = first .. End - 1 /\ first < End /\ End \in 1 .. position
          /\ AfterLast = End - 1
      BY <1>1, <1>2, BatchInterval DEF ConsumerInv
    <2>. QED
      BY <1>2, <2>1
  <1>4. HandledBelow(End)
    BY <1>2, <1>3 DEF ConsumerInv, TaskTypeOK, PrefixInv, HandledBelow
  <1>5. TaskTypeOK'
    BY <1>1, <1>2, <1>3 DEF ConsumerInv, TaskTypeOK, Offsets
  <1>6. LimitInv'
    BY <1>1, <1>2 DEF ConsumerInv, LimitInv, Offsets, Stamp
  <1>7. End = position \/ (limit # NoLimit /\ limit <= position)
    BY <1>1 DEF End, ConsumerInv, LimitInv, TaskTypeOK, Offsets
  <1>8. PrefixInv'
    BY <1>2, <1>3, <1>4, <1>7 DEF ConsumerInv, PrefixInv, HandledBelow
  <1>. QED
    BY <1>5, <1>6, <1>8 DEF ConsumerInv

LEMMA TaskInvStep ==
  ASSUME ConsumerInv, ProducerInv, TaskStep \/ Die
  PROVE  ConsumerInv' /\ ProducerInv'
  <1>1. log \in Seq(Records) /\ log' = log /\ now' = now /\ now \in Nat
    BY DEF TaskStep, Start, Ask, Poll, PollEmpty, HandleBatch, Commit, Resume, Leave, Die,
           producerVars, ProducerInv, ProducerTypeOK
  <1>2. UNCHANGED sendingVars /\ faults' \in 0 .. MaxFaults
    BY FaultType
       DEF TaskStep, Start, Ask, Poll, PollEmpty, HandleBatch, Commit, Resume, Leave, Die,
           producerVars, ProducerInv, ProducerTypeOK
  <1>3. ProducerInv'
    BY <1>1, <1>2 DEF sendingVars, ProducerInv, ProducerTypeOK, SendingInv, MadeInv
  <1>4. CASE Start
    <2>1. /\ pc = "idle" /\ pc' = "asking" /\ first' = committed /\ position' = committed
          /\ UNCHANGED <<committed, handled, threshold, limit>> /\ processed' = processed
      BY <1>4 DEF Start, Goto
    <2>2. processed = 0
      BY <2>1 DEF ConsumerInv, TaskTypeOK
    <2>3. TaskTypeOK'
      BY <1>1, <2>1, <2>2 DEF ConsumerInv, TaskTypeOK, Offsets
    <2>4. LimitInv'
      BY <2>1 DEF ConsumerInv, TaskTypeOK, LimitInv
    <2>5. PrefixInv'
      BY <2>1 DEF ConsumerInv, PrefixInv, HandledBelow
    <2>. QED
      BY <1>3, <2>3, <2>4, <2>5 DEF ConsumerInv
  <1>5. CASE PollEmpty
    <2>1. /\ pc' = "leaving"
          /\ UNCHANGED <<committed, handled, threshold, limit, first, position, processed>>
      BY <1>5 DEF PollEmpty, Goto
    <2>2. TaskTypeOK'
      BY <1>1, <2>1 DEF ConsumerInv, TaskTypeOK, Offsets
    <2>3. LimitInv'
      BY <1>1, <2>1 DEF ConsumerInv, LimitInv, Offsets, Stamp
    <2>4. PrefixInv'
      BY <2>1 DEF ConsumerInv, PrefixInv, HandledBelow
    <2>. QED
      BY <1>3, <2>2, <2>3, <2>4 DEF ConsumerInv
  <1>6. CASE Leave \/ Die
    <2>1. committed' = committed \/ committed' = processed
      BY <1>6 DEF Leave, Die, CommitOffset
    <2>2. handled' = handled /\ EndTask
      BY <1>6 DEF Leave, Die
    <2>3. committed' \in 0 .. Len(log) /\ HandledBelow(committed')
      BY <1>1, <2>1 DEF ConsumerInv, TaskTypeOK, PrefixInv
    <2>4. TaskTypeOK'
      BY <1>1, <2>2, <2>3 DEF EndTask, ConsumerInv, TaskTypeOK, Offsets
    <2>5. LimitInv'
      BY <2>2 DEF EndTask, LimitInv
    <2>6. PrefixInv'
      <3>1. pc' = "idle" /\ processed' = 0 /\ HandledBelow(0)
        BY <2>2 DEF EndTask, HandledBelow
      <3>. QED
        BY <2>2, <2>3, <3>1 DEF PrefixInv, HandledBelow
    <2>. QED
      BY <1>3, <2>4, <2>5, <2>6 DEF ConsumerInv
  <1>. QED
    BY <1>3, <1>4, <1>5, <1>6, AskStep, PollStep, BodyStep, CommitStep, ResumeStep
       DEF TaskStep

IInv == ProducerInv /\ ConsumerInv

LEMMA InvHolds == Spec => []IInv
  <1>1. Init => IInv
    BY ProducerInvInit, ConsumerInvInit DEF Init, IInv
  <1>2. ASSUME IInv, [Next]_vars
        PROVE  IInv'
    <2>1. CASE Tick
      <3>1. ProducerInv'
        BY <1>2, <2>1, ProducerAssumption
           DEF IInv, Tick, sendingVars, ProducerInv, ProducerTypeOK, SendingInv, MadeInv
      <3>2. UNCHANGED consumerVars
        BY <2>1 DEF Tick
      <3>. QED
        BY <1>2, <2>1, <3>1, <3>2, ConsumerInvOthers DEF IInv
    <2>2. CASE Produce
      BY <1>2, <2>2, ProducerInvStep, ConsumerInvOthers DEF IInv, Produce
    <2>3. CASE TaskStep \/ Die
      BY <1>2, <2>3, TaskInvStep DEF IInv
    <2>4. CASE UNCHANGED vars
      BY <1>2, <2>4
         DEF IInv, vars, producerVars, sendingVars, consumerVars, taskVars, ProducerInv,
             ProducerTypeOK, SendingInv, MadeInv, ConsumerInv, TaskTypeOK, LimitInv, PrefixInv,
             HandledBelow, Batch, Admitted, Offsets, Stamp
    <2>. QED
      BY <1>2, <2>1, <2>2, <2>3, <2>4 DEF Next
  <1>. QED
    BY <1>1, <1>2, PTL DEF Spec

\* Every variable of the producer and of the consumer keeps its type; the offsets of a task
\* stay within the partition.
THEOREM TypeCorrect == Spec => []TypeOK
  <1>1. IInv => TypeOK
    BY DEF IInv, ProducerInv, ConsumerInv, TaskTypeOK, LimitInv, TypeOK
  <1>. QED
    BY <1>1, InvHolds, PTL

\* A process makes one AIOKafkaProducer, however many coroutines find none at the same time
\* (producer.py:59-70).
THEOREM OneProducerEach == Spec => []OneProducer
  <1>1. IInv => OneProducer
    BY DEF IInv, ProducerInv, MadeInv, OneProducer
  <1>. QED
    BY <1>1, InvHolds, PTL

\* A record behind which the group has committed has been handled, whatever the threshold
\* filters out and whenever the task dies (consumer.py:173-190).
THEOREM NoneSkipped == Spec => []NothingSkipped
  <1>1. IInv => NothingSkipped
    BY DEF IInv, ConsumerInv, PrefixInv, HandledBelow, NothingSkipped
  <1>. QED
    BY <1>1, InvHolds, PTL

\* Below an offset limit only records older than the threshold reach the caller, however
\* long the loop goes on (consumer.py:148-153, 174-176).
THEOREM OlderOnlyBelowLimit == Spec => []OlderBelowLimit
  <1>1. IInv => OlderBelowLimit
    <2>. SUFFICES ASSUME IInv, limit # NoLimit, NEW o \in Batch
                  PROVE  Stamp(o) < threshold
      BY DEF OlderBelowLimit
    <2>1. limit \in Nat /\ first \in Nat /\ position \in Nat
      BY DEF IInv, ConsumerInv, LimitInv, TaskTypeOK, Offsets, ProducerInv, ProducerTypeOK
    <2>2. o \in 0 .. limit - 1
      BY <2>1 DEF Batch, Admitted
    <2>. QED
      BY <2>2 DEF IInv, ConsumerInv, LimitInv
  <1>. QED
    BY <1>1, InvHolds, PTL

(***************************************************************************)
(* Delivery                                                                *)
(***************************************************************************)

\* The fetch position and what is recorded are never behind the group's offset, so that no
\* commit moves it back.
AheadInv ==
    /\ pc # "idle" => committed <= position
    /\ pc \in {"body", "resuming"} => committed <= first /\ processed <= first
    /\ processed # 0 => committed <= processed

LEMMA AheadInit == Init => AheadInv
  BY DEF Init, AheadInv

LEMMA AheadStep ==
  ASSUME IInv, AheadInv, [Next]_vars
  PROVE  AheadInv'
  <1>1. /\ {committed, position, first, processed} \subseteq Nat
        /\ pc \in {"idle", "asking"} => processed = 0
        /\ processed <= position
        /\ log \in Seq(Records)
    BY DEF IInv, ConsumerInv, TaskTypeOK, ProducerInv, ProducerTypeOK
  <1>2. CASE UNCHANGED <<committed, pc, first, position, processed>>
    BY <1>2 DEF AheadInv
  <1>3. CASE Start
    BY <1>1, <1>3 DEF Start, Goto, AheadInv
  <1>4. CASE Poll
    <2>1. PICK n \in 1 .. BatchSize : first' = position /\ position' = position + n
      BY <1>4 DEF Poll
    <2>2. UNCHANGED <<committed, processed>> /\ committed <= position
      BY <1>4 DEF Poll, AheadInv
    <2>3. n \in Nat
      BY ParameterAssumption
    <2>. QED
      BY <1>1, <2>1, <2>2, <2>3 DEF AheadInv
  <1>5. CASE Ask \/ PollEmpty
    BY <1>1, <1>5 DEF Ask, PollEmpty, Goto, AheadInv
  <1>6. CASE HandleBatch
    BY <1>6 DEF HandleBatch, Goto, AheadInv
  <1>7. CASE Commit
    BY <1>1, <1>7 DEF Commit, CommitOffset, AheadInv
  <1>8. CASE Resume
    <2>1. processed' = End /\ first < End /\ End \in 1 .. position
      BY <1>1, <1>8, BatchInterval DEF Resume, IInv, ConsumerInv
    <2>2. pc = "resuming" /\ pc' \in {"leaving", "polling"} /\ UNCHANGED <<committed, position>>
      BY <1>8 DEF Resume
    <2>. QED
      BY <1>1, <2>1, <2>2 DEF AheadInv
  <1>9. CASE Leave \/ Die
    BY <1>9 DEF Leave, Die, EndTask, AheadInv
  <1>10. CASE Tick \/ Produce \/ UNCHANGED vars
    BY <1>2, <1>10 DEF Tick, Produce, vars, consumerVars, taskVars
  <1>. QED
    BY <1>3, <1>4, <1>5, <1>6, <1>7, <1>8, <1>9, <1>10 DEF Next, TaskStep

\* The producer appends to the partition or leaves it alone.
LEMMA ProducerAppends ==
  ASSUME IInv, Produce
  PROVE  Delivery!Append \/ UNCHANGED <<Len(log), committed, handled>>
  <1>1. log \in Seq(Records) /\ UNCHANGED <<committed, handled>>
    BY DEF IInv, ProducerInv, ProducerTypeOK, Produce, consumerVars
  <1>2. CASE Deliver
    <2>1. log' = Append(log, Head(buffer)) /\ Head(buffer) \in Records
      BY <1>2 DEF Deliver, IInv, ProducerInv, ProducerTypeOK
    <2>2. Len(log') = Len(log) + 1
      BY <1>1, <2>1
    <2>. QED
      BY <1>1, <2>2 DEF Delivery!Append
  <1>3. CASE UNCHANGED log
    BY <1>1, <1>3
  <1>4. Deliver \/ UNCHANGED log
    BY DEF Produce, ProducerNext, GiveUp, ProcessDies, Sending, GetProducer, Started, StartFails,
           Send, HandOver, SendFails
  <1>. QED
    BY <1>2, <1>3, <1>4

\* A batch continues what has been handled, without a gap.
LEMMA BatchDelivers ==
  ASSUME IInv, HandleBatch
  PROVE  Delivery!Deliver
  <1>1. log \in Seq(Records) /\ log' = log
    BY DEF HandleBatch, producerVars, IInv, ProducerInv, ProducerTypeOK
  <1>2. pc = "body" /\ handled' = handled \cup Batch /\ committed' = committed
    BY DEF HandleBatch, Goto
  <1>3. Batch = first .. End - 1 /\ first < End /\ End \in 1 .. position
    BY <1>1, <1>2, BatchInterval DEF IInv, ConsumerInv
  <1>4. first \in Nat /\ position \in 0 .. Len(log) /\ 0 .. first - 1 \subseteq handled
    BY <1>1, <1>2 DEF IInv, ConsumerInv, TaskTypeOK, PrefixInv, HandledBelow
  <1>5. End \in 1 .. Len(log)
    BY <1>1, <1>3, <1>4
  <1>6. 0 .. End - 1 = 0 .. first - 1 \cup first .. End - 1
    BY <1>3, <1>4
  <1>7. handled' = handled \cup 0 .. End - 1
    BY <1>2, <1>3, <1>4, <1>6
  <1>. QED
    BY <1>1, <1>2, <1>5, <1>7 DEF Delivery!Deliver

\* A commit, in the loop or behind it, is of a delivered prefix, and moves the offset on.
LEMMA CommitsForward ==
  ASSUME IInv, AheadInv, Commit \/ Leave
  PROVE  Delivery!ForwardCommit \/ UNCHANGED <<Len(log), committed, handled>>
  <1>1. log' = log /\ handled' = handled
    BY DEF Commit, Leave, producerVars
  <1>2. CASE committed' = committed
    BY <1>1, <1>2
  <1>3. CASE committed' # committed
    <2>1. committed' = processed /\ processed # 0
      BY <1>3 DEF Commit, Leave, CommitOffset
    <2>2. processed \in 0 .. Len(log) /\ 0 .. processed - 1 \subseteq handled
      BY DEF IInv, ConsumerInv, TaskTypeOK, PrefixInv, HandledBelow, ProducerInv, ProducerTypeOK
    <2>3. committed' >= committed
      BY <2>1 DEF AheadInv, IInv, ConsumerInv, TaskTypeOK
    <2>. QED
      BY <1>1, <2>1, <2>2, <2>3 DEF Delivery!ForwardCommit, Delivery!Commit
  <1>. QED
    BY <1>2, <1>3

LEMMA DeliveryStep ==
  ASSUME IInv, AheadInv, [Next]_vars
  PROVE  [Delivery!ForwardNext]_(Delivery!vars)
  <1>. SUFFICES Delivery!ForwardNext \/ UNCHANGED <<Len(log), committed, handled>>
    BY DEF Delivery!vars
  <1>1. CASE Produce
    BY <1>1, ProducerAppends DEF Delivery!ForwardNext
  <1>2. CASE HandleBatch
    BY <1>2, BatchDelivers DEF Delivery!ForwardNext
  <1>3. CASE Commit \/ Leave
    BY <1>3, CommitsForward DEF Delivery!ForwardNext
  <1>4. CASE Tick \/ Start \/ Ask \/ Poll \/ PollEmpty \/ Resume \/ Die \/ UNCHANGED vars
    BY <1>4
       DEF Tick, Start, Ask, Poll, PollEmpty, Resume, Die, vars, producerVars, consumerVars, taskVars
  <1>. QED
    BY <1>1, <1>2, <1>3, <1>4 DEF Next, TaskStep

\* With a threshold, too, the consumer delivers the partition in order and at least once, and
\* its commits never move the group's offset back (consumer.py:143-207).
THEOREM DeliversForward == Spec => ImplementsDelivery
  <1>1. Init => Delivery!Init
    BY DEF Init, ProducerInit, Delivery!Init
  <1>2. Init => AheadInv
    BY AheadInit
  <1>3. IInv /\ AheadInv /\ [Next]_vars => AheadInv'
    BY AheadStep
  <1>4. IInv /\ AheadInv /\ [Next]_vars => [Delivery!ForwardNext]_(Delivery!vars)
    BY DeliveryStep
  <1>. QED
    BY <1>1, <1>2, <1>3, <1>4, InvHolds, PTL DEF Spec, ImplementsDelivery, Delivery!ForwardSpec

(***************************************************************************)
(* The order of events                                                     *)
(***************************************************************************)
LEMMA ContentsAppend ==
  ASSUME NEW q \in Seq(Records), NEW r \in Records
  PROVE  Contents(Append(q, r)) = Contents(q) \cup {r.event}
  <1>1. /\ DOMAIN Append(q, r) = 1 .. Len(q) + 1 /\ DOMAIN q = 1 .. Len(q)
        /\ Append(q, r)[Len(q) + 1] = r
        /\ \A i \in 1 .. Len(q) : Append(q, r)[i] = q[i]
        /\ Len(q) \in Nat
    OBVIOUS
  <1>2. \A i \in 1 .. Len(q) + 1 : i \in 1 .. Len(q) \/ i = Len(q) + 1
    BY <1>1
  <1>3. Len(q) + 1 \in 1 .. Len(q) + 1 /\ \A i \in 1 .. Len(q) : i \in 1 .. Len(q) + 1
    BY <1>1
  <1>. QED
    BY <1>1, <1>2, <1>3 DEF Contents

LEMMA ContentsHeadTail ==
  ASSUME NEW q \in Seq(Records), q # <<>>
  PROVE  Contents(q) = {Head(q).event} \cup Contents(Tail(q))
  <1>1. /\ DOMAIN Tail(q) = 1 .. Len(q) - 1 /\ DOMAIN q = 1 .. Len(q)
        /\ Head(q) = q[1]
        /\ \A i \in 1 .. Len(q) - 1 : Tail(q)[i] = q[i + 1]
        /\ Len(q) \in Nat /\ Len(q) >= 1
    OBVIOUS
  <1>2. \A i \in 1 .. Len(q) : i = 1 \/ (i - 1 \in 1 .. Len(q) - 1 /\ (i - 1) + 1 = i)
    BY <1>1
  <1>3. 1 \in 1 .. Len(q) /\ \A i \in 1 .. Len(q) - 1 : i + 1 \in 1 .. Len(q)
    BY <1>1
  <1>4. ASSUME NEW e \in Contents(q)
        PROVE  e \in {Head(q).event} \cup Contents(Tail(q))
    <2>1. PICK i \in 1 .. Len(q) : e = q[i].event
      BY <1>1, <1>4 DEF Contents
    <2>2. CASE i = 1
      BY <1>1, <2>1, <2>2
    <2>3. CASE i # 1
      <3>1. i - 1 \in 1 .. Len(q) - 1 /\ Tail(q)[i - 1] = q[i]
        BY <1>1, <1>2, <2>3
      <3>. QED
        BY <1>1, <2>1, <3>1 DEF Contents
    <2>. QED
      BY <2>2, <2>3
  <1>5. {Head(q).event} \cup Contents(Tail(q)) \subseteq Contents(q)
    BY <1>1, <1>3 DEF Contents
  <1>. QED
    BY <1>4, <1>5

\* More events behind a sequence do it no harm.
LEMMA InOrderBehind ==
  ASSUME NEW behind, NEW more, behind \subseteq more, NEW q, InOrder(behind, q)
  PROVE  InOrder(more, q)
  BY DEF InOrder

LEMMA InOrderAppend ==
  ASSUME NEW q \in Seq(Records), NEW r \in Records, NEW behind, InOrder(behind, q),
         \A i \in 1 .. r.event.number - 1 : Event(r.event.by, i) \in behind \cup Contents(q)
  PROVE  InOrder(behind, Append(q, r))
  <1>1. /\ DOMAIN Append(q, r) = 1 .. Len(q) + 1 /\ DOMAIN q = 1 .. Len(q)
        /\ Append(q, r)[Len(q) + 1] = r
        /\ \A i \in 1 .. Len(q) : Append(q, r)[i] = q[i]
        /\ Len(q) \in Nat
    OBVIOUS
  <1>. DEFINE a == Append(q, r)
  <1>. SUFFICES ASSUME NEW p \in 1 .. Len(q) + 1, NEW i \in 1 .. a[p].event.number - 1,
                       Event(a[p].event.by, i) \notin behind
                PROVE  \E j \in 1 .. p - 1 : a[j].event = Event(a[p].event.by, i)
    BY <1>1 DEF InOrder
  <1>. HIDE DEF a
  <1>2. CASE p \in 1 .. Len(q)
    <2>1. a[p] = q[p] /\ \A j \in 1 .. p - 1 : a[j] = q[j]
      BY <1>1, <1>2 DEF a
    <2>2. \E j \in 1 .. p - 1 : q[j].event = Event(q[p].event.by, i)
      BY <1>1, <1>2, <2>1 DEF InOrder
    <2>. QED
      BY <2>1, <2>2
  <1>3. CASE p = Len(q) + 1
    <2>1. a[p] = r /\ p - 1 = Len(q)
      BY <1>1, <1>3 DEF a
    <2>2. Event(r.event.by, i) \in Contents(q)
      BY <2>1
    <2>3. PICK j \in 1 .. Len(q) : q[j].event = Event(r.event.by, i)
      BY <1>1, <2>2 DEF Contents
    <2>4. a[j] = q[j]
      BY <1>1 DEF a
    <2>. QED
      BY <2>1, <2>3, <2>4
  <1>. QED
    BY <1>1, <1>2, <1>3

LEMMA InOrderTail ==
  ASSUME NEW q \in Seq(Records), q # <<>>, NEW behind, InOrder(behind, q)
  PROVE  /\ InOrder(behind \cup {Head(q).event}, Tail(q))
         /\ \A i \in 1 .. Head(q).event.number - 1 : Event(Head(q).event.by, i) \in behind
  <1>1. /\ DOMAIN Tail(q) = 1 .. Len(q) - 1 /\ DOMAIN q = 1 .. Len(q)
        /\ Head(q) = q[1]
        /\ \A i \in 1 .. Len(q) - 1 : Tail(q)[i] = q[i + 1]
        /\ Len(q) \in Nat /\ Len(q) >= 1
    OBVIOUS
  <1>. DEFINE b == Tail(q)
  <1>2. ASSUME NEW p \in 1 .. Len(q) - 1, NEW i \in 1 .. b[p].event.number - 1,
               Event(b[p].event.by, i) \notin behind \cup {Head(q).event}
        PROVE  \E j \in 1 .. p - 1 : b[j].event = Event(b[p].event.by, i)
    <2>. HIDE DEF b
    <2>1. b[p] = q[p + 1] /\ p + 1 \in 1 .. Len(q) /\ (p + 1) - 1 = p
      BY <1>1 DEF b
    <2>2. PICK j \in 1 .. p : q[j].event = Event(q[p + 1].event.by, i)
      BY <1>1, <1>2, <2>1 DEF InOrder
    <2>3. j # 1
      BY <1>1, <1>2, <2>1, <2>2
    <2>4. j - 1 \in 1 .. p - 1 /\ j - 1 \in 1 .. Len(q) - 1 /\ (j - 1) + 1 = j
      BY <1>1, <2>3
    <2>5. b[j - 1] = q[j]
      BY <1>1, <2>4 DEF b
    <2>. QED
      BY <2>1, <2>2, <2>4, <2>5
  <1>3. InOrder(behind \cup {Head(q).event}, Tail(q))
    BY <1>1, <1>2 DEF InOrder
  <1>4. \A i \in 1 .. q[1].event.number - 1 : Event(q[1].event.by, i) \in behind
    BY <1>1 DEF InOrder
  <1>. QED
    BY <1>1, <1>3, <1>4

LEMMA OrderInit == Init => Whereabouts /\ OrderInv
  <1>1. Init => buffer = <<>> /\ log = <<>> /\ \A s \in Senders : sent[s] = 0
    BY DEF Init, ProducerInit
  <1>2. Init => Contents(buffer) = {} /\ Contents(log) = {}
    BY <1>1 DEF Contents
  <1>3. Init => Whereabouts
    BY <1>1, <1>2 DEF Whereabouts
  <1>4. Init => OrderInv
    BY <1>1 DEF OrderInv, InOrder
  <1>. QED
    BY <1>3, <1>4

LEMMA OrderSend ==
  ASSUME Whereabouts, OrderInv, ProducerInv, NEW s \in Senders, Send(s)
  PROVE  Whereabouts' /\ OrderInv'
  <1>. DEFINE n == sent[s] + 1
              r == [event |-> Event(s, n), at |-> now]
  <1>1. /\ buffer' = Append(buffer, r) /\ sent' = [sent EXCEPT ![s] = n]
        /\ UNCHANGED <<dropped, log>>
    BY DEF Send, HandOver
  <1>2. n \in 1 .. Bulk[s] /\ sent[s] \in Nat
    <2>1. sent[s] \in Nat /\ Bulk[s] \in Nat
      BY ProducerAssumption DEF ProducerInv, ProducerTypeOK
    <2>2. sent[s] < Bulk[s]
      BY DEF Send, HandOver, ProducerInv, SendingInv
    <2>. QED
      BY <2>1, <2>2
  <1>3. r \in Records /\ buffer \in Seq(Records) /\ sent \in [Senders -> Nat]
    BY <1>2 DEF Records, Events, ProducerInv, ProducerTypeOK
  <1>4. r.event.by = s /\ r.event.number = n
    BY DEF Event
  <1>5. Contents(buffer') = Contents(buffer) \cup {Event(s, n)}
    BY <1>1, <1>3, ContentsAppend
  <1>. HIDE DEF r
  <1>6. Whereabouts'
    <2>1. ASSUME NEW q \in Senders, NEW i \in 1 .. sent'[q]
          PROVE  Event(q, i) \in Contents(buffer') \cup Contents(log') \cup dropped'
      <3>1. CASE q = s /\ i = n
        BY <1>5, <3>1
      <3>2. CASE ~(q = s /\ i = n)
        <4>1. i \in 1 .. sent[q]
          BY <1>1, <1>2, <1>3, <3>2
        <4>. QED
          BY <1>1, <1>5, <4>1 DEF Whereabouts
      <3>. QED
        BY <3>1, <3>2
    <2>2. ASSUME NEW e \in Contents(buffer') \cup Contents(log')
          PROVE  e.number <= sent'[e.by]
      <3>1. CASE e = Event(s, n)
        BY <1>1, <1>2, <1>3, <3>1 DEF Event
      <3>2. CASE e \in Contents(buffer) \cup Contents(log)
        <4>1. e \in Events /\ e.number <= sent[e.by]
          BY <1>3, <3>2, ContentsAreEvents DEF Whereabouts, ProducerInv, ProducerTypeOK
        <4>2. e.by \in Senders /\ e.number \in Nat
          BY <4>1, ProducerAssumption DEF Events, Event
        <4>3. sent'[e.by] = sent[e.by] \/ sent'[e.by] = sent[e.by] + 1
          BY <1>1, <1>3, <4>2
        <4>. QED
          BY <1>3, <4>1, <4>2, <4>3
      <3>. QED
        BY <1>1, <1>5, <2>2, <3>1, <3>2
    <2>. QED
      BY <2>1, <2>2 DEF Whereabouts
  <1>7. InOrder(dropped \cup Contents(log), Append(buffer, r))
    <2>1. \A i \in 1 .. r.event.number - 1 :
             Event(r.event.by, i) \in (dropped \cup Contents(log)) \cup Contents(buffer)
      BY <1>2, <1>4 DEF Whereabouts
    <2>. QED
      BY <1>3, <2>1, InOrderAppend DEF OrderInv
  <1>. QED
    BY <1>1, <1>6, <1>7 DEF OrderInv

LEMMA OrderDeliver ==
  ASSUME Whereabouts, OrderInv, ProducerInv, Deliver
  PROVE  Whereabouts' /\ OrderInv'
  <1>. DEFINE r == Head(buffer)
  <1>1. buffer \in Seq(Records) /\ log \in Seq(Records) /\ buffer # <<>> /\ r \in Records
    BY DEF Deliver, ProducerInv, ProducerTypeOK
  <1>2. log' = Append(log, r) /\ UNCHANGED <<dropped, sent>>
    BY DEF Deliver
  <1>3. buffer' = buffer \/ buffer' = Tail(buffer)
    BY DEF Deliver
  <1>4. Contents(log') = Contents(log) \cup {r.event}
    BY <1>1, <1>2, ContentsAppend
  <1>5. Contents(buffer) = {r.event} \cup Contents(Tail(buffer))
    BY <1>1, ContentsHeadTail
  <1>6. /\ InOrder(dropped \cup Contents(log) \cup {r.event}, Tail(buffer))
        /\ \A i \in 1 .. r.event.number - 1 :
              Event(r.event.by, i) \in dropped \cup Contents(log)
    BY <1>1, InOrderTail DEF OrderInv
  <1>. HIDE DEF r
  <1>7. Contents(buffer') \cup Contents(log') = Contents(buffer) \cup Contents(log)
    BY <1>3, <1>4, <1>5
  <1>8. Whereabouts'
    BY <1>2, <1>7 DEF Whereabouts
  <1>9. InOrder(dropped, Append(log, r))
    BY <1>1, <1>6, InOrderAppend DEF OrderInv
  <1>10. InOrder(dropped \cup Contents(log) \cup {r.event}, buffer)
    BY InOrderBehind DEF OrderInv
  <1>11. InOrder(dropped' \cup Contents(log'), buffer')
    <2>1. dropped' \cup Contents(log') = dropped \cup Contents(log) \cup {r.event}
      BY <1>2, <1>4
    <2>. QED
      BY <1>3, <1>6, <1>10, <2>1
  <1>. QED
    BY <1>2, <1>8, <1>9, <1>11 DEF OrderInv

\* The producer gives up records of its buffer: the first, or all of them.
LEMMA OrderDrop ==
  ASSUME Whereabouts, OrderInv, ProducerInv, GiveUp \/ ProcessDies
  PROVE  Whereabouts' /\ OrderInv'
  <1>1. buffer \in Seq(Records) /\ UNCHANGED <<log, sent>>
    BY DEF GiveUp, ProcessDies, ProducerInv, ProducerTypeOK
  <1>2. /\ Contents(buffer) \cup dropped = Contents(buffer') \cup dropped'
        /\ Contents(buffer') \subseteq Contents(buffer)
        /\ dropped \subseteq dropped'
        /\ InOrder(dropped' \cup Contents(log), buffer')
    <2>1. CASE GiveUp
      <3>1. /\ buffer # <<>> /\ buffer' = Tail(buffer)
            /\ dropped' = dropped \cup {Head(buffer).event}
        BY <2>1 DEF GiveUp
      <3>2. Contents(buffer) = {Head(buffer).event} \cup Contents(Tail(buffer))
        BY <1>1, <3>1, ContentsHeadTail
      <3>3. InOrder(dropped \cup Contents(log) \cup {Head(buffer).event}, Tail(buffer))
        BY <1>1, <3>1, InOrderTail DEF OrderInv
      <3>4. dropped' \cup Contents(log) = dropped \cup Contents(log) \cup {Head(buffer).event}
        BY <3>1
      <3>. QED
        BY <3>1, <3>2, <3>3, <3>4
    <2>2. CASE ProcessDies
      <3>1. buffer' = <<>> /\ dropped' = dropped \cup Contents(buffer)
        BY <2>2 DEF ProcessDies
      <3>2. Contents(<<>>) = {}
        BY DEF Contents
      <3>3. InOrder(dropped' \cup Contents(log), <<>>)
        BY DEF InOrder
      <3>. QED
        BY <3>1, <3>2, <3>3
    <2>. QED
      BY <2>1, <2>2
  <1>3. Whereabouts'
    <2>1. \A s \in Senders : \A i \in 1 .. sent'[s] :
             Event(s, i) \in Contents(buffer') \cup Contents(log') \cup dropped'
      BY <1>1, <1>2 DEF Whereabouts
    <2>2. \A e \in Contents(buffer') \cup Contents(log') : e.number <= sent'[e.by]
      BY <1>1, <1>2 DEF Whereabouts
    <2>. QED
      BY <2>1, <2>2 DEF Whereabouts
  <1>4. InOrder(dropped', log)
    BY <1>2, InOrderBehind DEF OrderInv
  <1>. QED
    BY <1>1, <1>2, <1>3, <1>4 DEF OrderInv

LEMMA OrderStep ==
  ASSUME Whereabouts, OrderInv, ProducerInv, [Next]_vars
  PROVE  Whereabouts' /\ OrderInv'
  <1>1. CASE UNCHANGED <<sent, buffer, dropped, log>>
    BY <1>1 DEF Whereabouts, OrderInv, InOrder
  <1>2. ASSUME NEW s \in Senders, GetProducer(s) \/ Started(s) \/ StartFails(s) \/ SendFails(s)
        PROVE  UNCHANGED <<sent, buffer, dropped, log>>
    BY <1>2 DEF GetProducer, Started, StartFails, SendFails
  <1>3. CASE Tick \/ TaskStep \/ Die \/ UNCHANGED vars
    <2>1. UNCHANGED <<sent, buffer, dropped, log>>
      BY <1>3 DEF Tick, TaskStep, Start, Ask, Poll, PollEmpty, HandleBatch, Commit, Resume, Leave,
                  Die, vars, producerVars, sendingVars
    <2>. QED
      BY <1>1, <2>1
  <1>. QED
    BY <1>1, <1>2, <1>3, OrderSend, OrderDeliver, OrderDrop DEF Next, Produce, ProducerNext, Sending

\* What one call sends arrives in the order of its list, but for events that the producer
\* gave up (producer.py:76-79).
THEOREM BulkArrivesInOrder == Spec => []BulkInOrder
  <1>. DEFINE Inv == IInv /\ Whereabouts /\ OrderInv
  <1>1. Init => Whereabouts /\ OrderInv
    BY OrderInit
  <1>2. IInv /\ Whereabouts /\ OrderInv /\ [Next]_vars => (Whereabouts /\ OrderInv)'
    BY OrderStep DEF IInv
  <1>3. ASSUME IInv, OrderInv
        PROVE  BulkInOrder
    <2>1. log \in Seq(Records)
      BY <1>3 DEF IInv, ProducerInv, ProducerTypeOK
    <2>. SUFFICES ASSUME NEW p \in 1 .. Len(log), NEW i \in 1 .. log[p].event.number - 1
                  PROVE  [log[p].event EXCEPT !.number = i]
                            \in dropped \cup Contents(SubSeq(log, 1, p - 1))
      BY <2>1 DEF BulkInOrder
    <2>2. log[p] \in Records
      BY <2>1
    <2>3. log[p].event \in Events
      BY <2>2 DEF Records
    <2>4. [log[p].event EXCEPT !.number = i] = Event(log[p].event.by, i)
      BY <2>3 DEF Events, Event
    <2>5. Event(log[p].event.by, i) \in dropped
            \/ \E q \in 1 .. p - 1 : log[q].event = Event(log[p].event.by, i)
      BY <1>3, <2>1 DEF OrderInv, InOrder
    <2>6. /\ DOMAIN SubSeq(log, 1, p - 1) = 1 .. p - 1
          /\ \A q \in 1 .. p - 1 : SubSeq(log, 1, p - 1)[q] = log[q]
      BY <2>1
    <2>7. \A q \in 1 .. p - 1 : log[q].event \in Contents(SubSeq(log, 1, p - 1))
      BY <2>6 DEF Contents
    <2>. QED
      BY <2>4, <2>5, <2>7
  <1>. QED
    BY <1>1, <1>2, <1>3, InvHolds, PTL DEF Spec
===============================================================================

-------------------------- MODULE PartitionDelivery --------------------------
(***************************************************************************)
(* What a consumer group promises about one partition, without its workers,*)
(* its lock or its failures: records are appended, delivered in order, and *)
(* the group's offset is committed somewhere in what has been delivered.   *)
(* Delivering again what was delivered before is a stuttering step.        *)
(*                                                                         *)
(* Spec         is at-least-once delivery: the offset may go back.         *)
(* ForwardSpec  adds that it never does.                                   *)
(* WindowSpec   adds that delivery is never further than Window records    *)
(*              ahead of it, so that Window bounds what a failure can      *)
(*              cause to be delivered twice.                               *)
(***************************************************************************)
EXTENDS Naturals

CONSTANT Window

VARIABLES logEnd, committed, handled

vars == <<logEnd, committed, handled>>

Init == logEnd = 0 /\ committed = 0 /\ handled = {}

Append ==
    /\ logEnd' = logEnd + 1
    /\ UNCHANGED <<committed, handled>>

\* Everything up to some record has been delivered: no gaps, no invention.
Deliver ==
    /\ \E n \in 1..logEnd : handled' = handled \cup (0..(n - 1))
    /\ UNCHANGED <<logEnd, committed>>

Commit ==
    /\ \E c \in 0..logEnd : /\ 0..(c - 1) \subseteq handled
                            /\ committed' = c
    /\ UNCHANGED <<logEnd, handled>>

Next == Append \/ Deliver \/ Commit

Spec == Init /\ [][Next]_vars

ForwardCommit == Commit /\ committed' >= committed

ForwardNext == Append \/ Deliver \/ ForwardCommit

ForwardSpec == Init /\ [][ForwardNext]_vars

WindowDeliver == Deliver /\ handled' \subseteq 0..(committed + Window - 1)

WindowNext == Append \/ WindowDeliver \/ ForwardCommit

WindowSpec == Init /\ [][WindowNext]_vars
=============================================================================

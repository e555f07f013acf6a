----------------------------- MODULE AtomicBlocks -----------------------------
(***************************************************************************)
(* What Atomic promises to the code that uses it, without sessions,        *)
(* transactions, nesting or the errors of a database: a task runs one      *)
(* block after the other, a block collects writes that nobody sees, and    *)
(* when it ends they are all committed, in that one step, or dropped.      *)
(*                                                                         *)
(* A block in which a statement raised commits nothing.  One that returned *)
(* without such a statement is committed, one that was left by an          *)
(* exception is not, and one whose COMMIT raised is either.  Nothing else  *)
(* changes the database, and nothing that is committed goes away.          *)
(***************************************************************************)
EXTENDS Naturals, Sequences

CONSTANT Tasks

VARIABLES
    db,         \* the committed writes, <<task, block, number>>
    blocks      \* the blocks of each task: how many writes, failed or not, how they ended

vars == <<db, blocks>>

Current(t) == Len(blocks[t])

IsOpen(t) == blocks[t] # <<>> /\ blocks[t][Current(t)].outcome = "open"

WritesOf(t, k) == {<<t, k, i>> : i \in 1 .. blocks[t][k].writes}

Init == db = {} /\ blocks = [t \in Tasks |-> <<>>]

Begin(t) ==
    /\ ~IsOpen(t)
    /\ blocks' = [blocks EXCEPT ![t] = Append(@, [writes |-> 0, failed |-> FALSE, outcome |-> "open"])]
    /\ UNCHANGED db

Write(t) ==
    /\ IsOpen(t)
    /\ ~blocks[t][Current(t)].failed
    /\ blocks' = [blocks EXCEPT ![t][Current(t)].writes = @ + 1]
    /\ UNCHANGED db

Fail(t) ==
    /\ IsOpen(t)
    /\ blocks' = [blocks EXCEPT ![t][Current(t)].failed = TRUE]
    /\ UNCHANGED db

End(t, outcome) == blocks' = [blocks EXCEPT ![t][Current(t)].outcome = outcome]

Commit(t) ==
    /\ IsOpen(t)
    /\ ~blocks[t][Current(t)].failed
    /\ \E outcome \in {"returned", "doubt"} : End(t, outcome)
    /\ db' = db \cup WritesOf(t, Current(t))

Abort(t) ==
    /\ IsOpen(t)
    /\ \E outcome \in {"returned", "raised", "doubt"} :
           /\ outcome = "returned" => blocks[t][Current(t)].failed
           /\ End(t, outcome)
    /\ UNCHANGED db

Next == \E t \in Tasks : Begin(t) \/ Write(t) \/ Fail(t) \/ Commit(t) \/ Abort(t)

Spec == Init /\ [][Next]_vars
=============================================================================

------------------------------ MODULE UnitOfWork ------------------------------
(***************************************************************************)
(* Database work of asyncio tasks: the task-scoped registry of sessions    *)
(* and the Atomic context manager (config/databases/postgres.py).          *)
(*                                                                         *)
(* A task enters and leaves nested Atomic blocks.  The first one finds a   *)
(* session without a transaction and begins one; an inner one finds the    *)
(* transaction and leaves it alone.  A "block" below is an outermost       *)
(* block.  Statements are abstracted to writes <<task, block, number>>.    *)
(*                                                                         *)
(* SQLAlchemy, asyncpg and PostgreSQL are external.  Of a session, the     *)
(* code can tell: whether the registry has one, whether it is in a         *)
(* transaction, and whether its statements and its commit raise.           *)
(*   "none"     no session in the registry                                 *)
(*   "idle"     a session outside a transaction                            *)
(*   "begun"    in a transaction                                           *)
(*   "aborted"  in a transaction PostgreSQL has aborted: statements raise, *)
(*              COMMIT answers ROLLBACK and raises nothing                 *)
(*   "broken"   in a transaction SQLAlchemy has given up (a flush failed,  *)
(*              the connection was lost, COMMIT or ROLLBACK raised):       *)
(*              statements and commit raise until somebody rolls back      *)
(*                                                                         *)
(* This module has no behaviour of its own: RequestScope composes it with  *)
(* the middlewares that surround a task's work.                            *)
(***************************************************************************)
EXTENDS Naturals, Sequences, FiniteSets, SequencesExt

CONSTANTS
    Tasks,      \* asyncio tasks: one per request, one per run of an actor
    MaxDepth,   \* bound: nesting of Atomic blocks
    MaxBlocks,  \* bound: outermost blocks, of all tasks together
    MaxWrites,  \* bound: writes, of all tasks together
    MaxFaults   \* bound: exceptions that arise, in all tasks together

ASSUME BoundsAssumption == {MaxDepth, MaxBlocks, MaxWrites, MaxFaults} \subseteq Nat \ {0}

VARIABLES
    session,    \* the registry's session of each scope
    pending,    \* the writes of the session's open transaction
    db,         \* the committed writes
    stack,      \* Atomic.in_transaction of each block a task is in, outermost first
    blocks,     \* history: the outermost blocks of a task
    exc,        \* the exception on its way up in a task
    faults      \* how many exceptions have arisen

workVars == <<session, pending, db, stack, blocks, exc, faults>>

SessionStates == {"none", "idle", "begun", "aborted", "broken"}

Exceptions == {"none",
               "expected",      \* a BaseError of a request, Retry of an actor
               "unexpected",    \* anything else, database errors included
               "cancelled"}     \* CancelledError: not an Exception

Blocks == [writes : 0 .. MaxWrites, failed : BOOLEAN, outcome : {"open", "returned", "raised", "doubt"}]

Writes == Tasks \X (1 .. MaxBlocks) \X (1 .. MaxWrites)

WorkTypeOK ==
    /\ session \in [Tasks -> SessionStates]
    /\ pending \in [Tasks -> SUBSET Writes]
    /\ db \subseteq Writes
    /\ \A t \in Tasks : /\ stack[t] \in BoundedSeq(BOOLEAN, MaxDepth)
                        /\ \A i \in 2 .. Len(stack[t]) : stack[t][i]  \* inner blocks own nothing
                        /\ blocks[t] \in BoundedSeq(Blocks, MaxBlocks)
    /\ exc \in [Tasks -> Exceptions]
    /\ faults \in 0 .. MaxFaults

WorkInit ==
    /\ session = [s \in Tasks |-> "none"]
    /\ pending = [s \in Tasks |-> {}]
    /\ db = {}
    /\ stack = [t \in Tasks |-> <<>>]
    /\ blocks = [t \in Tasks |-> <<>>]
    /\ exc = [t \in Tasks |-> "none"]
    /\ faults = 0

\* Mutant: the registries do not tell tasks apart.
SharedScope(t) == CHOOSE s \in Tasks : TRUE

\* scope_func=asyncio.current_task: every task has an entry of its own.
Scope(t) == t

InTransaction(s) == session[s] \in {"begun", "aborted", "broken"}

Current(t) == Len(blocks[t])

WritesOf(t, k) == {<<t, k, i>> : i \in 1 .. blocks[t][k].writes}

AllBlocks == UNION {{t} \X DOMAIN blocks[t] : t \in Tasks}

AllWrites == UNION {WritesOf(b[1], b[2]) : b \in AllBlocks}

\* An exception arises in the task, or replaces the one on its way.
Throw(t, e) ==
    /\ faults < MaxFaults
    /\ faults' = faults + 1
    /\ exc' = [exc EXCEPT ![t] = e]

\* An await on a database raises, or the task is cancelled while it waits for it.
AwaitRaises(t) == \E e \in {"unexpected", "cancelled"} : Throw(t, e)

(***************************************************************************)
(* Atomic.__aenter__: the session is taken from the registry, made if need *)
(* be, and begun unless it is in a transaction.                            *)
(***************************************************************************)
EnterAtomic(t) ==
    LET s == Scope(t) IN
    /\ exc[t] = "none"
    /\ Len(stack[t]) < MaxDepth
    /\ IF stack[t] = <<>>
       THEN /\ Cardinality(AllBlocks) < MaxBlocks
            /\ blocks' = [blocks EXCEPT ![t] = Append(@, [writes |-> 0, failed |-> FALSE, outcome |-> "open"])]
       ELSE UNCHANGED blocks
    /\ stack' = [stack EXCEPT ![t] = Append(@, InTransaction(s))]
    /\ session' = [session EXCEPT ![s] = IF InTransaction(s) THEN @ ELSE "begun"]
    /\ UNCHANGED <<pending, db, exc, faults>>

\* session.execute or session.flush succeeds.
Write(t) ==
    LET k == Current(t) IN
    /\ stack[t] # <<>>
    /\ exc[t] = "none"
    /\ session[Scope(t)] = "begun"
    /\ Cardinality(AllWrites) < MaxWrites
    /\ blocks' = [blocks EXCEPT ![t][k].writes = @ + 1]
    /\ pending' = [pending EXCEPT ![Scope(t)] = @ \cup {<<t, k, blocks[t][k].writes + 1>>}]
    /\ UNCHANGED <<session, db, stack, exc, faults>>

\* A statement raises: PostgreSQL refuses it, a flush fails, the connection is lost.
StatementRaises(t) ==
    LET s == Scope(t) IN
    /\ stack[t] # <<>>
    /\ exc[t] = "none"
    /\ \/ session[s] = "begun" /\ \E state \in {"aborted", "broken"} : session' = [session EXCEPT ![s] = state]
       \/ session[s] \in {"aborted", "broken"} /\ UNCHANGED session
    /\ AwaitRaises(t)
    /\ blocks' = [blocks EXCEPT ![t][Current(t)].failed = TRUE]
    /\ UNCHANGED <<pending, db, stack>>

\* The task's own code raises, or the task is cancelled at an await.
Raise(t, kind) ==
    /\ kind # "none"
    /\ exc[t] = "none"
    /\ Throw(t, kind)
    /\ UNCHANGED <<session, pending, db, stack, blocks>>

\* The task's own code catches an Exception, inside a block or outside all blocks.
Swallow(t) ==
    /\ exc[t] \in {"expected", "unexpected"}
    /\ exc' = [exc EXCEPT ![t] = "none"]
    /\ UNCHANGED <<session, pending, db, stack, blocks, faults>>

\* The block at the top of the stack is left; the last one closes the task's block.
Leave(t, outcome) ==
    /\ stack' = [stack EXCEPT ![t] = Front(@)]
    /\ blocks' = IF Len(stack[t]) > 1
                 THEN blocks
                 ELSE [blocks EXCEPT ![t][Current(t)].outcome = outcome]

LeavesOwnTransaction(t) == stack[t] # <<>> /\ ~Last(stack[t])

\* Mutant: __aexit__ of an inner block commits, and so ends the transaction of the outer one.
ExitInnerCommits(t) ==
    LET s == Scope(t) IN
    /\ stack[t] # <<>>
    /\ Last(stack[t])
    /\ Leave(t, IF exc[t] = "none" THEN "returned" ELSE "raised")
    /\ IF exc[t] = "none" /\ session[s] = "begun"
       THEN /\ db' = db \cup pending[s]
            /\ pending' = [pending EXCEPT ![s] = {}]
            /\ session' = [session EXCEPT ![s] = "idle"]
       ELSE UNCHANGED <<db, pending, session>>
    /\ UNCHANGED <<exc, faults>>

\* Mutant: an exception that leaves an inner block rolls the outer one's transaction back.
ExitInnerRollsBack(t) ==
    LET s == Scope(t) IN
    /\ stack[t] # <<>>
    /\ Last(stack[t])
    /\ Leave(t, IF exc[t] = "none" THEN "returned" ELSE "raised")
    /\ IF exc[t] = "none"
       THEN UNCHANGED <<session, pending>>
       ELSE /\ session' = [session EXCEPT ![s] = "idle"]
            /\ pending' = [pending EXCEPT ![s] = {}]
    /\ UNCHANGED <<db, exc, faults>>

\* Atomic.__aexit__, a transaction was found on entry: nothing is done.
ExitInner(t) ==
    /\ stack[t] # <<>>
    /\ Last(stack[t])
    /\ Leave(t, IF exc[t] = "none" THEN "returned" ELSE "raised")
    /\ UNCHANGED <<session, pending, db, exc, faults>>

\* Mutant: the transaction is ended without COMMIT.
ExitForgetsCommit(t) ==
    /\ LeavesOwnTransaction(t)
    /\ exc[t] = "none"
    /\ session' = [session EXCEPT ![Scope(t)] = "idle"]
    /\ pending' = [pending EXCEPT ![Scope(t)] = {}]
    /\ Leave(t, "returned")
    /\ UNCHANGED <<db, exc, faults>>

\* Atomic.__aexit__ without an exception.  An aborted transaction commits nothing, silently.
ExitCommits(t) ==
    LET s == Scope(t) IN
    /\ LeavesOwnTransaction(t)
    /\ exc[t] = "none"
    /\ session[s] \in {"idle", "begun", "aborted"}
    /\ db' = IF session[s] = "begun" THEN db \cup pending[s] ELSE db
    /\ session' = [session EXCEPT ![s] = "idle"]
    /\ pending' = [pending EXCEPT ![s] = {}]
    /\ Leave(t, "returned")
    /\ UNCHANGED <<exc, faults>>

\* COMMIT raises: before it took effect, or after (the answer is lost).
ExitCommitRaises(t) ==
    LET s == Scope(t) IN
    /\ LeavesOwnTransaction(t)
    /\ exc[t] = "none"
    /\ \/ session[s] = "begun" /\ db' \in {db, db \cup pending[s]}
       \/ session[s] = "broken" /\ UNCHANGED db
    /\ session' = [session EXCEPT ![s] = "broken"]
    /\ pending' = [pending EXCEPT ![s] = {}]
    /\ AwaitRaises(t)
    /\ Leave(t, "doubt")

\* Atomic.__aexit__ with an exception, whichever: rollback.
ExitRollsBack(t) ==
    LET s == Scope(t) IN
    /\ LeavesOwnTransaction(t)
    /\ exc[t] # "none"
    /\ session' = [session EXCEPT ![s] = "idle"]
    /\ pending' = [pending EXCEPT ![s] = {}]
    /\ Leave(t, "raised")
    /\ UNCHANGED <<db, exc, faults>>

\* The rollback raises, in place of the exception that led to it; the session is in a transaction
\* or not, which is not for the code to say.
ExitRollbackRaises(t) ==
    LET s == Scope(t) IN
    /\ LeavesOwnTransaction(t)
    /\ exc[t] # "none"
    /\ \E state \in {"idle", "broken"} : session' = [session EXCEPT ![s] = state]
    /\ pending' = [pending EXCEPT ![s] = {}]
    /\ AwaitRaises(t)
    /\ Leave(t, "raised")
    /\ UNCHANGED db

\* postgres_session_registry.clear(): the task's session is closed, an open transaction with it.
ClearSession(t) ==
    /\ session' = [session EXCEPT ![Scope(t)] = "none"]
    /\ pending' = [pending EXCEPT ![Scope(t)] = {}]

(***************************************************************************)
(* One step of the code that runs inside a task.                           *)
(***************************************************************************)
Work(t) ==
    \/ EnterAtomic(t)
    \/ Write(t)
    \/ StatementRaises(t)
    \/ \E kind \in Exceptions : Raise(t, kind)
    \/ Swallow(t)
    \/ ExitInner(t)
    \/ ExitCommits(t)
    \/ ExitCommitRaises(t)
    \/ ExitRollsBack(t)
    \/ ExitRollbackRaises(t)
-----------------------------------------------------------------------------
(***************************************************************************)
(* What a block wrote is committed as a whole or not at all, whatever is   *)
(* nested in it, raised or swallowed in it, or runs beside it              *)
(* (Atomic, postgres.py:37-52; POSTGRES.md: "The outermost Atomic block    *)
(* controls the commit/rollback").                                         *)
(***************************************************************************)
AllOrNothing ==
    \A t \in Tasks : \A k \in DOMAIN blocks[t] :
        WritesOf(t, k) \cap db \in {{}, WritesOf(t, k)}

(***************************************************************************)
(* A block that is still open, or was left by an exception of its own      *)
(* code, or in which a statement raised, has nothing in the database, even *)
(* when the exception was swallowed on the way.  Only a block whose COMMIT *)
(* raised is in doubt (postgres.py:45-52).                                 *)
(***************************************************************************)
FailedBlocksLeaveNothing ==
    \A t \in Tasks : \A k \in DOMAIN blocks[t] :
        (blocks[t][k].failed \/ blocks[t][k].outcome \in {"open", "raised"}) => WritesOf(t, k) \cap db = {}

(***************************************************************************)
(* A block that returned is in the database, unless one of its statements  *)
(* raised and its code swallowed that: then COMMIT of the aborted          *)
(* transaction silently commits nothing (postgres.py:52).                  *)
(***************************************************************************)
CommittedUnlessSwallowed ==
    \A t \in Tasks : \A k \in DOMAIN blocks[t] :
        (blocks[t][k].outcome = "returned" /\ ~blocks[t][k].failed) => WritesOf(t, k) \subseteq db

Atomicity == INSTANCE AtomicBlocks

(***************************************************************************)
(* Atomic implements blocks that take effect in one step or not at all,    *)
(* however they are nested and interleaved, whatever raises in them, is    *)
(* swallowed or was left behind in the session: only the end of a task's   *)
(* outermost block changes the database, by exactly the writes of that     *)
(* block, and nothing that was committed goes away (Atomic,                *)
(* postgres.py:37-52).                                                     *)
(***************************************************************************)
ImplementsAtomicBlocks == Atomicity!Spec
=============================================================================

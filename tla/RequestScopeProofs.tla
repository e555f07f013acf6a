-------------------------- MODULE RequestScopeProofs --------------------------
(***************************************************************************)
(* Theorems about the units of work of a process, for every number of      *)
(* tasks, every depth of nesting and every number of blocks, writes and    *)
(* exceptions: what the three properties of UnitOfWork say holds of every  *)
(* behaviour of RequestScope, the layers around the work included.         *)
(*                                                                         *)
(* The argument: the session of a task is in one of few states, which the  *)
(* blocks the task is in tell (SessionInv).  A session with a transaction  *)
(* that goes well holds the writes of the one open block, all of them and  *)
(* no others; a session that a failed COMMIT has left broken makes the     *)
(* next block believe that it is an inner one, and such a block can write  *)
(* nothing.  So only the outermost block's own COMMIT moves writes to the  *)
(* database, and it moves those of one block (OutcomeInv).  With that      *)
(* every step is one of AtomicBlocks or changes nothing it can see.        *)
(***************************************************************************)
EXTENDS RequestScope, SequenceTheorems, TLAPS

Block == [writes : Nat, failed : BOOLEAN, outcome : {"open", "returned", "raised", "doubt"}]

Shape ==
    /\ session \in [Tasks -> SessionStates]
    /\ pending \in [Tasks -> SUBSET (Tasks \X Nat \X Nat)]
    /\ stack \in [Tasks -> Seq(BOOLEAN)]
    /\ blocks \in [Tasks -> Seq(Block)]
    /\ exc \in [Tasks -> Exceptions]

\* A task is inside blocks only while it works, and only its last block can be open.
StackInv(t) ==
    /\ pc[t] # Working => stack[t] = <<>>
    /\ \A i \in 2 .. Len(stack[t]) : stack[t][i]
    /\ stack[t] # <<>> => blocks[t] # <<>> /\ blocks[t][Len(blocks[t])].outcome = "open"
    /\ \A k \in DOMAIN blocks[t] :
           blocks[t][k].outcome = "open" => k = Len(blocks[t]) /\ stack[t] # <<>>

\* The open block of a task, when its session owns the transaction, and when it does not.
OwnBlock(t) ==
    LET block == blocks[t][Len(blocks[t])] IN
    \/ session[t] = "begun" /\ ~block.failed /\ pending[t] = WritesOf(t, Len(blocks[t]))
    \/ session[t] \in {"aborted", "broken"} /\ block.failed

LostBlock(t) ==
    session[t] = "broken" /\ pending[t] = {} /\ blocks[t][Len(blocks[t])].writes = 0

SessionInv(t) ==
    /\ stack[t] = <<>> => session[t] \in {"none", "idle", "broken"} /\ pending[t] = {}
    /\ stack[t] # <<>> => IF stack[t][1] THEN LostBlock(t) ELSE OwnBlock(t)

\* Nothing, and everything, of a block is in the database.
Absent(t, k) == \A i \in Nat : <<t, k, i>> \notin db
Present(t, k) == \A i \in 1 .. blocks[t][k].writes : <<t, k, i>> \in db

OutcomeInv(t) ==
    /\ \A k \in Nat \ DOMAIN blocks[t] : Absent(t, k)
    /\ \A k \in DOMAIN blocks[t] :
           /\ Absent(t, k) \/ Present(t, k)
           /\ (blocks[t][k].failed \/ blocks[t][k].outcome \in {"open", "raised"}) => Absent(t, k)
           /\ (blocks[t][k].outcome = "returned" /\ ~blocks[t][k].failed) => Present(t, k)

Inv == Shape /\ \A t \in Tasks : StackInv(t) /\ SessionInv(t) /\ OutcomeInv(t)

(***************************************************************************)
(* The sequences of a task                                                 *)
(***************************************************************************)

LEMMA AppendAt ==
  ASSUME NEW S, NEW f \in [Tasks -> Seq(S)], NEW t \in Tasks, NEW e \in S,
         NEW g, g = [f EXCEPT ![t] = Append(@, e)]
  PROVE  /\ g \in [Tasks -> Seq(S)]
         /\ \A s \in Tasks \ {t} : g[s] = f[s]
         /\ Len(f[t]) \in Nat /\ Len(g[t]) = Len(f[t]) + 1 /\ g[t] # <<>>
         /\ DOMAIN f[t] = 1 .. Len(f[t]) /\ DOMAIN g[t] = 1 .. Len(f[t]) + 1
         /\ \A i \in DOMAIN f[t] : g[t][i] = f[t][i]
         /\ g[t][Len(f[t]) + 1] = e
  <1>1. f[t] \in Seq(S) /\ g[t] = Append(f[t], e)
    OBVIOUS
  <1>2. /\ g[t] \in Seq(S) /\ g[t] # <<>> /\ Len(g[t]) = Len(f[t]) + 1
        /\ \A i \in 1 .. Len(f[t]) : g[t][i] = f[t][i]
        /\ g[t][Len(f[t]) + 1] = e
    BY <1>1, AppendProperties
  <1>3. /\ Len(f[t]) \in Nat /\ DOMAIN f[t] = 1 .. Len(f[t])
        /\ DOMAIN g[t] = 1 .. Len(g[t])
    BY <1>1, <1>2, LenProperties
  <1>4. g \in [Tasks -> Seq(S)] /\ \A s \in Tasks \ {t} : g[s] = f[s]
    BY <1>1, <1>2
  <1>. QED
    BY <1>2, <1>3, <1>4

LEMMA UpdateAt ==
  ASSUME NEW S, NEW f \in [Tasks -> Seq(S)], NEW t \in Tasks, NEW k \in DOMAIN f[t], NEW e \in S,
         NEW g, g = [f EXCEPT ![t][k] = e]
  PROVE  /\ g \in [Tasks -> Seq(S)]
         /\ \A s \in Tasks \ {t} : g[s] = f[s]
         /\ Len(g[t]) = Len(f[t]) /\ Len(f[t]) \in Nat /\ g[t] # <<>>
         /\ DOMAIN f[t] = 1 .. Len(f[t]) /\ DOMAIN g[t] = DOMAIN f[t]
         /\ \A i \in DOMAIN f[t] : i # k => g[t][i] = f[t][i]
         /\ g[t][k] = e
  <1>1. f[t] \in Seq(S) /\ g[t] = [f[t] EXCEPT ![k] = e]
    OBVIOUS
  <1>2. Len(f[t]) \in Nat /\ DOMAIN f[t] = 1 .. Len(f[t])
    BY <1>1, LenProperties
  <1>3. /\ g[t] \in Seq(S) /\ Len(g[t]) = Len(f[t])
        /\ \A i \in 1 .. Len(f[t]) : g[t][i] = IF i = k THEN e ELSE f[t][i]
    BY <1>1, <1>2, ExceptSeq
  <1>4. DOMAIN g[t] = 1 .. Len(f[t])
    BY <1>3, LenProperties
  <1>5. g[t] # <<>>
    <2>1. k \in 1 .. Len(g[t])
      BY <1>2, <1>3
    <2>. QED
      BY <1>2, <1>3, <2>1, EmptySeq
  <1>6. g \in [Tasks -> Seq(S)] /\ \A s \in Tasks \ {t} : g[s] = f[s]
    BY <1>1, <1>3
  <1>. QED
    BY <1>2, <1>3, <1>4, <1>5, <1>6

\* Arithmetic the provers do better without the sequences.
LEMMA Positive ==
  ASSUME NEW n \in Nat \ {0}
  PROVE  (n = 1 \/ n > 1) /\ (n \notin 2 .. n => n = 1)
  OBVIOUS

LEMMA FrontAt ==
  ASSUME stack \in [Tasks -> Seq(BOOLEAN)], NEW t \in Tasks, stack[t] # <<>>,
         stack' = [stack EXCEPT ![t] = Front(@)]
  PROVE  /\ stack' \in [Tasks -> Seq(BOOLEAN)]
         /\ \A s \in Tasks \ {t} : stack'[s] = stack[s]
         /\ Len(stack[t]) \in Nat \ {0} /\ Len(stack'[t]) = Len(stack[t]) - 1
         /\ \A i \in 1 .. Len(stack[t]) - 1 : stack'[t][i] = stack[t][i]
         /\ stack'[t] = <<>> <=> Len(stack[t]) = 1
  <1>1. stack[t] \in Seq(BOOLEAN) /\ stack'[t] = SubSeq(stack[t], 1, Len(stack[t]) - 1)
    BY DEF Front
  <1>2. Len(stack[t]) \in Nat \ {0} /\ \A i \in 1 .. Len(stack[t]) : stack[t][i] \in BOOLEAN
    BY <1>1, EmptySeq, ElementOfSeq
  <1>. DEFINE m == Len(stack[t]) - 1
  <1>3. m \in Nat
    BY <1>2
  <1>4. \A i \in 1 .. m : stack[t][i] \in BOOLEAN
    BY <1>2
  <1>5. /\ stack'[t] \in Seq(BOOLEAN) /\ Len(stack'[t]) = m
        /\ \A i \in 1 .. m : stack'[t][i] = stack[t][i]
    <2>. HIDE DEF m
    <2>1. /\ SubSeq(stack[t], 1, m) \in Seq(BOOLEAN)
          /\ Len(SubSeq(stack[t], 1, m)) = IF 1 =< m THEN m - 1 + 1 ELSE 0
          /\ \A i \in 1 .. m - 1 + 1 : SubSeq(stack[t], 1, m)[i] = stack[t][1 + i - 1]
      <3>1. 1 \in Int /\ m \in Int
        BY <1>3
      <3>. QED
        BY <3>1, <1>4, SubSeqProperties
    <2>2. \A i \in 1 .. m : 1 + i - 1 = i
      OBVIOUS
    <2>3. m - 1 + 1 = m /\ (~(1 =< m) => m = 0)
      BY <1>3
    <2>4. stack'[t] = SubSeq(stack[t], 1, m)
      BY <1>1 DEF m
    <2>5. \A i \in 1 .. m : SubSeq(stack[t], 1, m)[i] = stack[t][i]
      BY <2>1, <2>2, <2>3
    <2>6. Len(SubSeq(stack[t], 1, m)) = m
      BY <2>1, <2>3
    <2>. QED
      BY <2>1, <2>4, <2>5, <2>6
  <1>6. stack'[t] = <<>> <=> m = 0
    BY <1>5, EmptySeq
  <1>7. stack' \in [Tasks -> Seq(BOOLEAN)] /\ \A s \in Tasks \ {t} : stack'[s] = stack[s]
    BY <1>1, <1>5
  <1>. QED
    BY <1>2, <1>5, <1>6, <1>7

(***************************************************************************)
(* The properties follow from the invariant                                *)
(***************************************************************************)

LEMMA WritesOfAll ==
  ASSUME NEW t \in Tasks, NEW k \in DOMAIN blocks[t]
  PROVE  /\ Present(t, k) <=> WritesOf(t, k) \subseteq db
         /\ (Shape /\ Absent(t, k)) => WritesOf(t, k) \cap db = {}
  <1>1. \A x : x \in WritesOf(t, k) <=> \E i \in 1 .. blocks[t][k].writes : x = <<t, k, i>>
    BY DEF WritesOf
  <1>2. Present(t, k) <=> WritesOf(t, k) \subseteq db
    BY <1>1 DEF Present
  <1>3. ASSUME Shape, Absent(t, k) PROVE WritesOf(t, k) \cap db = {}
    <2>1. 1 .. blocks[t][k].writes \subseteq Nat
      BY <1>3 DEF Shape
    <2>. QED
      BY <1>1, <1>3, <2>1 DEF Absent
  <1>. QED
    BY <1>2, <1>3

LEMMA InvImplies ==
  ASSUME Inv
  PROVE  AllOrNothing /\ FailedBlocksLeaveNothing /\ CommittedUnlessSwallowed
  <1>1. ASSUME NEW t \in Tasks, NEW k \in DOMAIN blocks[t]
        PROVE  /\ WritesOf(t, k) \cap db \in {{}, WritesOf(t, k)}
               /\ (blocks[t][k].failed \/ blocks[t][k].outcome \in {"open", "raised"})
                     => WritesOf(t, k) \cap db = {}
               /\ (blocks[t][k].outcome = "returned" /\ ~blocks[t][k].failed)
                     => WritesOf(t, k) \subseteq db
    <2>1. OutcomeInv(t) /\ Shape
      BY DEF Inv
    <2>2. Absent(t, k) \/ Present(t, k)
      BY <2>1 DEF OutcomeInv
    <2>3. Absent(t, k) => WritesOf(t, k) \cap db = {}
      BY <2>1, WritesOfAll
    <2>4. Present(t, k) <=> WritesOf(t, k) \subseteq db
      BY WritesOfAll
    <2>5. WritesOf(t, k) \cap db \in {{}, WritesOf(t, k)}
      BY <2>2, <2>3, <2>4
    <2>. QED
      BY <2>1, <2>3, <2>4, <2>5 DEF OutcomeInv
  <1>. QED
    BY <1>1 DEF AllOrNothing, FailedBlocksLeaveNothing, CommittedUnlessSwallowed

(***************************************************************************)
(* Steps around the work                                                   *)
(***************************************************************************)

LEMMA InitInv == Init => Inv
  <1>. SUFFICES ASSUME Init PROVE Inv
    OBVIOUS
  <1>1. Shape
    BY DEF Init, WorkInit, Shape, SessionStates, Exceptions
  <1>2. ASSUME NEW t \in Tasks PROVE StackInv(t) /\ SessionInv(t) /\ OutcomeInv(t)
    <2>1. stack[t] = <<>> /\ blocks[t] = <<>> /\ session[t] = "none" /\ pending[t] = {} /\ db = {}
      BY DEF Init, WorkInit
    <2>. QED
      BY <2>1 DEF StackInv, SessionInv, OutcomeInv, Absent
  <1>. QED
    BY <1>1, <1>2 DEF Inv

\* The work is untouched, and nobody leaves it with a block open.
LEMMA LayerStep ==
  ASSUME Inv, UNCHANGED <<pending, session, stack, blocks, db>>,
         exc' \in [Tasks -> Exceptions],
         \A t \in Tasks : pc'[t] = pc[t] \/ stack[t] = <<>>
  PROVE  Inv'
  <1>1. Shape'
    BY DEF Inv, Shape
  <1>2. ASSUME NEW t \in Tasks PROVE (StackInv(t) /\ SessionInv(t) /\ OutcomeInv(t))'
    <2>1. StackInv(t) /\ SessionInv(t) /\ OutcomeInv(t)
      BY DEF Inv
    <2>2. StackInv(t)'
      BY <2>1 DEF StackInv
    <2>3. SessionInv(t)'
      BY <2>1 DEF SessionInv, LostBlock, OwnBlock, WritesOf
    <2>4. OutcomeInv(t)'
      BY <2>1 DEF OutcomeInv, Absent, Present
    <2>. QED
      BY <2>2, <2>3, <2>4
  <1>. QED
    BY <1>1, <1>2 DEF Inv

\* The session of a task without blocks is closed.
LEMMA CloseStep ==
  ASSUME Inv, NEW t \in Tasks, stack[t] = <<>>, ClearSession(t),
         UNCHANGED <<stack, blocks, db>>,
         exc' \in [Tasks -> Exceptions],
         \A s \in Tasks : pc'[s] = pc[s] \/ stack[s] = <<>>
  PROVE  Inv'
  <1>1. Shape'
    BY DEF Inv, Shape, ClearSession, Scope, SessionStates
  <1>2. ASSUME NEW s \in Tasks PROVE (StackInv(s) /\ SessionInv(s) /\ OutcomeInv(s))'
    <2>1. StackInv(s) /\ SessionInv(s) /\ OutcomeInv(s) /\ Shape
      BY DEF Inv
    <2>2. StackInv(s)'
      BY <2>1 DEF StackInv
    <2>3. SessionInv(s)'
      <3>1. CASE s = t
        <4>1. session'[s] = "none" /\ pending'[s] = {} /\ stack'[s] = <<>>
          BY <2>1, <3>1 DEF ClearSession, Scope, Shape
        <4>. QED
          BY <4>1 DEF SessionInv
      <3>2. CASE s # t
        <4>1. session'[s] = session[s] /\ pending'[s] = pending[s]
          BY <2>1, <3>2 DEF ClearSession, Scope, Shape
        <4>. QED
          BY <2>1, <4>1 DEF SessionInv, LostBlock, OwnBlock, WritesOf
      <3>. QED
        BY <3>1, <3>2
    <2>4. OutcomeInv(s)'
      BY <2>1 DEF OutcomeInv, Absent, Present
    <2>. QED
      BY <2>2, <2>3, <2>4
  <1>. QED
    BY <1>1, <1>2 DEF Inv

\* Every layer is entered and left without a block open.
LEMMA OutsideWork ==
  ASSUME Inv, NEW t \in Tasks, pc[t][1] \in {"in", "out", "postgres"}
  PROVE  stack[t] = <<>>
  BY DEF Inv, StackInv, Working

LEMMA LayersInv ==
  ASSUME Inv, NEW t \in Tasks,
         \/ Open(t) \/ Tag(t) \/ LogStart(t) \/ LogStartRaises(t) \/ PassCloser(t) \/ UseClickhouse(t) \/ EndWork(t)
         \/ CloseClickhouse(t) \/ CloseClickhouseRaises(t)
         \/ ClosePostgres(t) \/ ClosePostgresRaises(t)
         \/ LogOutcome(t) \/ LogOutcomeRaises(t) \/ PassTagger(t) \/ Clear(t)
  PROVE  Inv'
  <1>1. exc' \in [Tasks -> Exceptions]
    BY DEF Inv, Shape, Open, Tag, LogStart, LogStartRaises, PassCloser, UseClickhouse, EndWork, CloseClickhouse,
           CloseClickhouseRaises, ClosePostgres, ClosePostgresRaises, LogOutcome, LogOutcomeRaises, PassTagger,
           Clear, AwaitRaises, Throw, Exceptions, workVars
  <1>2. UNCHANGED <<stack, blocks, db>>
    BY DEF Open, Tag, LogStart, LogStartRaises, PassCloser, UseClickhouse, EndWork, CloseClickhouse,
           CloseClickhouseRaises, ClosePostgres, ClosePostgresRaises, LogOutcome, LogOutcomeRaises, PassTagger,
           Clear, workVars
  <1>3. UNCHANGED pc \/ (stack[t] = <<>> /\ \A s \in Tasks \ {t} : pc'[s] = pc[s])
    <2>1. CASE UseClickhouse(t)
      BY <2>1 DEF UseClickhouse
    <2>2. CASE EndWork(t)
      BY <2>2 DEF EndWork, Move
    <2>3. CASE ~UseClickhouse(t) /\ ~EndWork(t)
      <3>1. pc[t][1] \in {"in", "out", "postgres"}
        BY <2>3 DEF Open, Tag, LogStart, LogStartRaises, PassCloser, CloseClickhouse, CloseClickhouseRaises,
               ClosePostgres, ClosePostgresRaises, LogOutcome, LogOutcomeRaises, PassTagger, Clear, At
      <3>2. \E to : Move(t, to)
        BY <2>3 DEF Open, Tag, LogStart, LogStartRaises, PassCloser, CloseClickhouse, CloseClickhouseRaises,
               ClosePostgres, ClosePostgresRaises, LogOutcome, LogOutcomeRaises, PassTagger, Clear, Inward, Outward
      <3>. QED
        BY <3>1, <3>2, OutsideWork DEF Move
    <2>. QED
      BY <2>1, <2>2, <2>3
  <1>4. \A s \in Tasks : pc'[s] = pc[s] \/ stack[s] = <<>>
    BY <1>3
  <1>5. UNCHANGED <<session, pending>> \/ (ClearSession(t) /\ stack[t] = <<>>)
    <2>1. CASE ClosePostgres(t) \/ ClosePostgresRaises(t)
      <3>1. pc[t][1] \in {"in", "out", "postgres"}
        BY <2>1 DEF ClosePostgres, ClosePostgresRaises, At
      <3>. QED
        BY <2>1, <3>1, OutsideWork DEF ClosePostgres, ClosePostgresRaises
    <2>2. CASE ~ClosePostgres(t) /\ ~ClosePostgresRaises(t)
      BY <2>2 DEF Open, Tag, LogStart, LogStartRaises, PassCloser, UseClickhouse, EndWork, CloseClickhouse,
             CloseClickhouseRaises, LogOutcome, LogOutcomeRaises, PassTagger, Clear, workVars
    <2>. QED
      BY <2>1, <2>2
  <1>. QED
    BY <1>1, <1>2, <1>4, <1>5, LayerStep, CloseStep

(***************************************************************************)
(* Steps of the work                                                       *)
(***************************************************************************)

\* One task's step leaves the others alone.
Elsewhere(t) ==
    /\ UNCHANGED pc
    /\ \A s \in Tasks \ {t} : /\ session'[s] = session[s] /\ pending'[s] = pending[s]
                              /\ stack'[s] = stack[s] /\ blocks'[s] = blocks[s]
    /\ db' = db \/ db' = db \cup WritesOf(t, Current(t))

LEMMA TaskSuffices ==
  ASSUME Inv, Shape', NEW t \in Tasks, Elsewhere(t),
         StackInv(t)', SessionInv(t)', OutcomeInv(t)'
  PROVE  Inv'
  <1>1. ASSUME NEW s \in Tasks, s # t PROVE (StackInv(s) /\ SessionInv(s) /\ OutcomeInv(s))'
    <2>1. StackInv(s) /\ SessionInv(s) /\ OutcomeInv(s)
      BY DEF Inv
    <2>2. /\ session'[s] = session[s] /\ pending'[s] = pending[s]
          /\ stack'[s] = stack[s] /\ blocks'[s] = blocks[s] /\ pc' = pc
      BY <1>1 DEF Elsewhere
    <2>3. StackInv(s)'
      BY <2>1, <2>2 DEF StackInv
    <2>4. SessionInv(s)'
      BY <2>1, <2>2 DEF SessionInv, LostBlock, OwnBlock, WritesOf
    <2>5. \A k, i : <<s, k, i>> \in db' <=> <<s, k, i>> \in db
      BY <1>1 DEF Elsewhere, WritesOf
    <2>6. OutcomeInv(s)'
      BY <2>1, <2>2, <2>5 DEF OutcomeInv, Absent, Present
    <2>. QED
      BY <2>3, <2>4, <2>6
  <1>. QED
    BY <1>1 DEF Inv

\* The last block of a task that is inside one.
LEMMA OpenBlock ==
  ASSUME Shape, NEW t \in Tasks, StackInv(t), stack[t] # <<>>
  PROVE  LET k == Len(blocks[t]) IN
         /\ k \in DOMAIN blocks[t] /\ k \in Nat
         /\ blocks[t][k] \in Block /\ blocks[t][k].outcome = "open"
  <1>1. blocks[t] \in Seq(Block) /\ blocks[t] # <<>>
    BY DEF Shape, StackInv
  <1>2. Len(blocks[t]) \in Nat \ {0} /\ DOMAIN blocks[t] = 1 .. Len(blocks[t])
    BY <1>1, EmptySeq, LenProperties
  <1>3. Len(blocks[t]) \in 1 .. Len(blocks[t])
    BY <1>2
  <1>4. blocks[t][Len(blocks[t])] \in Block
    BY <1>1, <1>3, ElementOfSeq
  <1>. QED
    BY <1>2, <1>3, <1>4 DEF StackInv

LEMMA EnterInv ==
  ASSUME Inv, NEW t \in Tasks, EnterAtomic(t), pc' = pc, pc[t] = Working
  PROVE  Inv'
  <1>. DEFINE new == [writes |-> 0, failed |-> FALSE, outcome |-> "open"]
  <1>1. Shape /\ StackInv(t) /\ SessionInv(t) /\ OutcomeInv(t)
    BY DEF Inv
  <1>2. /\ session' = [session EXCEPT ![t] = IF InTransaction(t) THEN @ ELSE "begun"]
        /\ stack' = [stack EXCEPT ![t] = Append(@, InTransaction(t))]
        /\ pending' = pending /\ db' = db /\ exc' = exc
        /\ stack[t] = <<>> => blocks' = [blocks EXCEPT ![t] = Append(@, new)]
        /\ stack[t] # <<>> => blocks' = blocks
    BY DEF EnterAtomic, Scope
  <1>3. /\ InTransaction(t) \in BOOLEAN /\ new \in Block
        /\ new.writes = 0 /\ ~new.failed /\ new.outcome = "open"
    BY DEF InTransaction, Block
  <1>. HIDE DEF new
  <1>4. /\ stack' \in [Tasks -> Seq(BOOLEAN)]
        /\ \A s \in Tasks \ {t} : stack'[s] = stack[s]
        /\ Len(stack[t]) \in Nat /\ Len(stack'[t]) = Len(stack[t]) + 1 /\ stack'[t] # <<>>
        /\ DOMAIN stack[t] = 1 .. Len(stack[t])
        /\ \A i \in 1 .. Len(stack[t]) : stack'[t][i] = stack[t][i]
        /\ stack'[t][Len(stack[t]) + 1] = InTransaction(t)
    <2>1. /\ stack \in [Tasks -> Seq(BOOLEAN)]
          /\ stack' = [stack EXCEPT ![t] = Append(@, InTransaction(t))]
      BY <1>1, <1>2 DEF Shape
    <2>. QED
      BY <1>3, <2>1, AppendAt
  <1>5. /\ session' \in [Tasks -> SessionStates]
        /\ session'[t] = IF InTransaction(t) THEN session[t] ELSE "begun"
        /\ \A s \in Tasks \ {t} : session'[s] = session[s]
    BY <1>1, <1>2 DEF Shape, SessionStates
  <1>6. CASE stack[t] = <<>>
    <2>1. /\ blocks' \in [Tasks -> Seq(Block)]
          /\ \A s \in Tasks \ {t} : blocks'[s] = blocks[s]
          /\ Len(blocks[t]) \in Nat /\ Len(blocks'[t]) = Len(blocks[t]) + 1 /\ blocks'[t] # <<>>
          /\ DOMAIN blocks[t] = 1 .. Len(blocks[t])
          /\ DOMAIN blocks'[t] = 1 .. Len(blocks[t]) + 1
          /\ \A k \in DOMAIN blocks[t] : blocks'[t][k] = blocks[t][k]
          /\ blocks'[t][Len(blocks[t]) + 1] = new
      <3>1. blocks \in [Tasks -> Seq(Block)] /\ blocks' = [blocks EXCEPT ![t] = Append(@, new)]
        BY <1>1, <1>2, <1>6 DEF Shape
      <3>. QED
        BY <1>3, <3>1, AppendAt
    <2>2. Shape' /\ Elsewhere(t)
      BY <1>1, <1>2, <1>4, <1>5, <2>1 DEF Shape, Elsewhere
    <2>3. Len(stack[t]) = 0 /\ pending'[t] = {} /\ session[t] \in {"none", "idle", "broken"}
      BY <1>1, <1>2, <1>6 DEF SessionInv
    <2>4. Len(stack'[t]) = 1 /\ stack'[t][1] = InTransaction(t)
      BY <1>4, <2>3
    <2>5. StackInv(t)'
      <3>1. \A k \in DOMAIN blocks[t] : blocks'[t][k].outcome # "open"
        BY <1>1, <1>6, <2>1 DEF StackInv
      <3>2. \A i \in 2 .. Len(stack'[t]) : FALSE
        BY <2>4
      <3>3. pc'[t] = Working /\ stack'[t] # <<>> /\ blocks'[t] # <<>>
        BY <1>4, <2>1
      <3>4. \A k \in DOMAIN blocks'[t] : k \in DOMAIN blocks[t] \/ k = Len(blocks'[t])
        BY <2>1
      <3>5. blocks'[t][Len(blocks'[t])].outcome = "open"
        BY <1>3, <2>1
      <3>. QED
        BY <3>1, <3>2, <3>3, <3>4, <3>5 DEF StackInv
    <2>6. SessionInv(t)'
      <3>1. CASE session[t] = "broken"
        <4>1. InTransaction(t) /\ session'[t] = "broken"
          BY <1>5, <3>1 DEF InTransaction
        <4>. QED
          BY <1>3, <1>4, <2>1, <2>3, <2>4, <4>1 DEF SessionInv, LostBlock
      <3>2. CASE session[t] # "broken"
        <4>1. ~InTransaction(t) /\ session'[t] = "begun"
          BY <1>5, <2>3, <3>2 DEF InTransaction
        <4>2. 1 .. blocks'[t][Len(blocks'[t])].writes = {}
          BY <1>3, <2>1
        <4>3. WritesOf(t, Len(blocks[t]))' = {}
          BY <4>2 DEF WritesOf
        <4>4. ~blocks'[t][Len(blocks'[t])].failed
          BY <1>3, <2>1
        <4>. QED
          BY <1>4, <2>3, <2>4, <4>1, <4>3, <4>4 DEF SessionInv, OwnBlock
      <3>. QED
        BY <3>1, <3>2
    <2>7. OutcomeInv(t)'
      <3>1. \A k : Absent(t, k)' <=> Absent(t, k)
        BY <1>2 DEF Absent
      <3>2. \A k \in DOMAIN blocks[t] : Present(t, k)' <=> Present(t, k)
        BY <1>2, <2>1 DEF Present
      <3>3. Len(blocks[t]) + 1 \in Nat \ DOMAIN blocks[t]
        BY <2>1
      <3>4. Absent(t, Len(blocks[t]) + 1)
        BY <1>1, <3>3 DEF OutcomeInv
      <3>5. \A k \in Nat \ DOMAIN blocks'[t] : k \in Nat \ DOMAIN blocks[t]
        BY <2>1
      <3>6. \A k \in DOMAIN blocks'[t] : k \in DOMAIN blocks[t] \/ k = Len(blocks[t]) + 1
        BY <2>1
      <3>. QED
        BY <1>1, <1>3, <2>1, <3>1, <3>2, <3>4, <3>5, <3>6 DEF OutcomeInv
    <2>. QED
      BY <2>2, <2>5, <2>6, <2>7, TaskSuffices
  <1>7. CASE stack[t] # <<>>
    <2>1. InTransaction(t)
      BY <1>1, <1>7 DEF SessionInv, LostBlock, OwnBlock, InTransaction
    <2>2. session'[t] = session[t] /\ blocks' = blocks /\ pending' = pending /\ db' = db
      BY <1>2, <1>5, <1>7, <2>1
    <2>3. Shape' /\ Elsewhere(t)
      BY <1>1, <1>2, <1>4, <1>5, <2>2 DEF Shape, Elsewhere
    <2>4. Len(stack[t]) \in Nat \ {0} /\ stack'[t][1] = stack[t][1]
      <3>1. Len(stack[t]) \in Nat \ {0}
        BY <1>1, <1>7, EmptySeq DEF Shape
      <3>. QED
        BY <1>4, <3>1
    <2>5. \A i \in 2 .. Len(stack'[t]) : stack'[t][i]
      <3>. SUFFICES ASSUME NEW i \in 2 .. Len(stack'[t]) PROVE stack'[t][i]
        OBVIOUS
      <3>1. CASE i \in 2 .. Len(stack[t])
        <4>1. stack[t][i] /\ i \in 1 .. Len(stack[t])
          BY <1>1, <3>1 DEF StackInv
        <4>. QED
          BY <1>4, <4>1
      <3>2. CASE i = Len(stack[t]) + 1
        BY <1>4, <2>1, <3>2
      <3>. QED
        BY <1>4, <3>1, <3>2
    <2>6. StackInv(t)'
      BY <1>1, <1>4, <1>7, <2>2, <2>5 DEF StackInv
    <2>7. SessionInv(t)'
      BY <1>1, <1>4, <1>7, <2>2, <2>4 DEF SessionInv, LostBlock, OwnBlock, WritesOf
    <2>8. OutcomeInv(t)'
      BY <1>1, <2>2 DEF OutcomeInv, Absent, Present
    <2>. QED
      BY <2>3, <2>6, <2>7, <2>8, TaskSuffices
  <1>. QED
    BY <1>6, <1>7

\* A statement of a session that is not in trouble belongs to a block that owns it.
LEMMA WriteInv ==
  ASSUME Inv, NEW t \in Tasks, Write(t), pc' = pc, pc[t] = Working
  PROVE  Inv'
  <1>. DEFINE k == Len(blocks[t])
              n == blocks[t][k].writes
              new == [blocks[t][k] EXCEPT !.writes = n + 1]
  <1>1. Shape /\ StackInv(t) /\ SessionInv(t) /\ OutcomeInv(t)
    BY DEF Inv
  <1>2. /\ stack[t] # <<>> /\ session[t] = "begun"
        /\ blocks' = [blocks EXCEPT ![t][k].writes = n + 1]
        /\ pending' = [pending EXCEPT ![t] = @ \cup {<<t, k, n + 1>>}]
        /\ session' = session /\ db' = db /\ stack' = stack /\ exc' = exc
    BY DEF Write, Scope, Current
  <1>3. /\ k \in DOMAIN blocks[t] /\ k \in Nat /\ n \in Nat
        /\ blocks[t][k] \in Block /\ blocks[t][k].outcome = "open"
        /\ ~blocks[t][k].failed /\ pending[t] = WritesOf(t, k)
        /\ ~stack[t][1]
    <2>1. k \in DOMAIN blocks[t] /\ k \in Nat /\ blocks[t][k] \in Block /\ blocks[t][k].outcome = "open"
      BY <1>1, <1>2, OpenBlock
    <2>2. n \in Nat
      BY <2>1 DEF Block
    <2>3. ~stack[t][1]
      BY <1>1, <1>2 DEF SessionInv, LostBlock
    <2>. QED
      BY <1>1, <1>2, <2>1, <2>2, <2>3 DEF SessionInv, OwnBlock
  <1>4. /\ DOMAIN blocks'[t] = DOMAIN blocks[t] /\ Len(blocks'[t]) = k /\ blocks'[t] # <<>>
        /\ \A j \in DOMAIN blocks[t] : j # k => blocks'[t][j] = blocks[t][j]
        /\ blocks'[t][k] = new
        /\ blocks' \in [Tasks -> Seq(Block)]
        /\ \A s \in Tasks \ {t} : blocks'[s] = blocks[s]
    <2>1. new \in Block
      BY <1>3 DEF Block
    <2>2. blocks' = [blocks EXCEPT ![t][k] = new]
      BY <1>1, <1>2, <1>3 DEF Shape
    <2>. QED
      BY <1>1, <1>3, <2>1, <2>2, UpdateAt DEF Shape
  <1>5. Shape'
    <2>1. pending' \in [Tasks -> SUBSET (Tasks \X Nat \X Nat)]
      BY <1>1, <1>2, <1>3 DEF Shape
    <2>. QED
      BY <1>1, <1>2, <1>4, <2>1 DEF Shape
  <1>6. Elsewhere(t)
    BY <1>1, <1>2, <1>4 DEF Elsewhere, Shape
  <1>7. /\ blocks'[t][k].writes = n + 1
        /\ blocks'[t][k].failed = blocks[t][k].failed
        /\ blocks'[t][k].outcome = blocks[t][k].outcome
    BY <1>1, <1>3, <1>4 DEF Shape
  <1>8. StackInv(t)'
    BY <1>1, <1>2, <1>3, <1>4, <1>7 DEF StackInv
  <1>9. SessionInv(t)'
    <2>1. WritesOf(t, k)' = WritesOf(t, k) \cup {<<t, k, n + 1>>}
      <3>1. 1 .. n + 1 = (1 .. n) \cup {n + 1}
        BY <1>3
      <3>2. WritesOf(t, k)' = {<<t, k, i>> : i \in 1 .. n + 1}
        BY <1>4, <1>7 DEF WritesOf
      <3>. QED
        BY <3>1, <3>2 DEF WritesOf
    <2>2. pending'[t] = WritesOf(t, k)'
      BY <1>1, <1>2, <1>3, <2>1 DEF Shape
    <2>. QED
      BY <1>2, <1>3, <1>4, <1>7, <2>2 DEF SessionInv, OwnBlock
  <1>10. OutcomeInv(t)'
    <2>1. \A j : Absent(t, j)' <=> Absent(t, j)
      BY <1>2 DEF Absent
    <2>2. \A j \in DOMAIN blocks[t] : j # k => (Present(t, j)' <=> Present(t, j))
      BY <1>2, <1>4 DEF Present
    <2>3. Absent(t, k)
      BY <1>1, <1>3 DEF OutcomeInv
    <2>. QED
      BY <1>1, <1>3, <1>4, <1>7, <2>1, <2>2, <2>3 DEF OutcomeInv
  <1>. QED
    BY <1>5, <1>6, <1>8, <1>9, <1>10, TaskSuffices

LEMMA StatementRaisesInv ==
  ASSUME Inv, NEW t \in Tasks, StatementRaises(t), pc' = pc, pc[t] = Working
  PROVE  Inv'
  <1>. DEFINE k == Len(blocks[t])
              new == [blocks[t][k] EXCEPT !.failed = TRUE]
  <1>1. Shape /\ StackInv(t) /\ SessionInv(t) /\ OutcomeInv(t)
    BY DEF Inv
  <1>2. /\ stack[t] # <<>>
        /\ \/ session[t] = "begun"
              /\ \E state \in {"aborted", "broken"} : session' = [session EXCEPT ![t] = state]
           \/ session[t] \in {"aborted", "broken"} /\ session' = session
        /\ blocks' = [blocks EXCEPT ![t][k].failed = TRUE]
        /\ pending' = pending /\ db' = db /\ stack' = stack
        /\ \E e \in {"unexpected", "cancelled"} : exc' = [exc EXCEPT ![t] = e]
    BY DEF StatementRaises, Scope, Current, AwaitRaises, Throw
  <1>3. /\ k \in DOMAIN blocks[t] /\ k \in Nat
        /\ blocks[t][k] \in Block /\ blocks[t][k].outcome = "open"
    BY <1>1, <1>2, OpenBlock
  <1>4. /\ DOMAIN blocks'[t] = DOMAIN blocks[t] /\ Len(blocks'[t]) = k /\ blocks'[t] # <<>>
        /\ \A j \in DOMAIN blocks[t] : j # k => blocks'[t][j] = blocks[t][j]
        /\ blocks'[t][k] = new
        /\ blocks' \in [Tasks -> Seq(Block)]
        /\ \A s \in Tasks \ {t} : blocks'[s] = blocks[s]
    <2>1. new \in Block
      BY <1>3 DEF Block
    <2>2. blocks' = [blocks EXCEPT ![t][k] = new]
      BY <1>1, <1>2, <1>3 DEF Shape
    <2>. QED
      BY <1>1, <1>3, <2>1, <2>2, UpdateAt DEF Shape
  <1>5. Shape'
    <2>2. session' \in [Tasks -> SessionStates]
      BY <1>1, <1>2 DEF Shape, SessionStates
    <2>3. exc' \in [Tasks -> Exceptions]
      BY <1>1, <1>2 DEF Shape, Exceptions
    <2>. QED
      BY <1>1, <1>2, <1>4, <2>2, <2>3 DEF Shape
  <1>6. Elsewhere(t)
    BY <1>1, <1>2, <1>4 DEF Elsewhere, Shape
  <1>7. /\ blocks'[t][k].writes = blocks[t][k].writes
        /\ blocks'[t][k].failed
        /\ blocks'[t][k].outcome = blocks[t][k].outcome
    BY <1>1, <1>3, <1>4 DEF Shape
  <1>8. StackInv(t)'
    BY <1>1, <1>2, <1>3, <1>4, <1>7 DEF StackInv
  <1>9. SessionInv(t)'
    <2>1. session'[t] \in {"aborted", "broken"}
      BY <1>1, <1>2 DEF Shape
    <2>2. stack[t][1] => LostBlock(t)'
      BY <1>1, <1>2, <1>4, <1>7 DEF SessionInv, LostBlock
    <2>. QED
      BY <1>2, <1>4, <1>7, <2>1, <2>2 DEF SessionInv, OwnBlock
  <1>10. OutcomeInv(t)'
    <2>1. \A j : Absent(t, j)' <=> Absent(t, j)
      BY <1>2 DEF Absent
    <2>2. \A j \in DOMAIN blocks[t] : Present(t, j)' <=> Present(t, j)
      BY <1>2, <1>4, <1>7 DEF Present
    <2>. QED
      BY <1>1, <1>3, <1>4, <1>7, <2>1, <2>2 DEF OutcomeInv
  <1>. QED
    BY <1>5, <1>6, <1>8, <1>9, <1>10, TaskSuffices

LEMMA ExceptionInv ==
  ASSUME Inv, NEW t \in Tasks, Swallow(t) \/ \E e \in Exceptions : Raise(t, e), pc' = pc
  PROVE  Inv'
  <1>1. exc' \in [Tasks -> Exceptions] /\ UNCHANGED <<pending, session, stack, blocks, db>>
    BY DEF Inv, Shape, Swallow, Raise, Throw, Exceptions
  <1>. QED
    BY <1>1, LayerStep
(***************************************************************************)
(* Blocks are left                                                         *)
(***************************************************************************)

\* The last block of a task is closed, with what its transaction has come to.
LEMMA ClosedBlock ==
  ASSUME Inv, NEW t \in Tasks, stack[t] # <<>>, Len(stack[t]) = 1, pc' = pc,
         NEW outcome \in {"returned", "raised", "doubt"}, Leave(t, outcome),
         session' \in [Tasks -> SessionStates], session'[t] \in {"idle", "broken"},
         \A s \in Tasks \ {t} : session'[s] = session[s],
         pending' = [pending EXCEPT ![t] = {}], exc' \in [Tasks -> Exceptions],
         db' = db \/ db' = db \cup WritesOf(t, Len(blocks[t])),
         (blocks[t][Len(blocks[t])].failed \/ outcome = "raised") => db' = db,
         (outcome = "returned" /\ ~blocks[t][Len(blocks[t])].failed)
            => WritesOf(t, Len(blocks[t])) \subseteq db'
  PROVE  Inv'
  <1>. DEFINE k == Len(blocks[t])
              new == [blocks[t][k] EXCEPT !.outcome = outcome]
  <1>1. Shape /\ StackInv(t) /\ SessionInv(t) /\ OutcomeInv(t)
    BY DEF Inv
  <1>2. /\ k \in DOMAIN blocks[t] /\ k \in Nat
        /\ blocks[t][k] \in Block /\ blocks[t][k].outcome = "open"
    BY <1>1, OpenBlock
  <1>3. /\ new \in Block /\ new.outcome = outcome
        /\ new.failed = blocks[t][k].failed /\ new.writes = blocks[t][k].writes
    BY <1>2 DEF Block
  <1>. HIDE DEF new
  <1>4. /\ DOMAIN blocks'[t] = DOMAIN blocks[t] /\ Len(blocks'[t]) = k /\ blocks'[t] # <<>>
        /\ \A j \in DOMAIN blocks[t] : j # k => blocks'[t][j] = blocks[t][j]
        /\ blocks'[t][k] = new
        /\ blocks' \in [Tasks -> Seq(Block)]
        /\ \A s \in Tasks \ {t} : blocks'[s] = blocks[s]
    <2>1. blocks' = [blocks EXCEPT ![t][k] = new] /\ blocks \in [Tasks -> Seq(Block)]
      BY <1>1, <1>2 DEF Shape, Leave, Current, new
    <2>. HIDE DEF k
    <2>2. /\ DOMAIN blocks'[t] = DOMAIN blocks[t] /\ Len(blocks'[t]) = Len(blocks[t])
          /\ blocks'[t] # <<>>
          /\ \A j \in DOMAIN blocks[t] : j # k => blocks'[t][j] = blocks[t][j]
          /\ blocks'[t][k] = new
          /\ blocks' \in [Tasks -> Seq(Block)]
          /\ \A s \in Tasks \ {t} : blocks'[s] = blocks[s]
      BY <1>2, <1>3, <2>1, UpdateAt
    <2>. QED
      BY <2>2 DEF k
  <1>5. /\ stack' \in [Tasks -> Seq(BOOLEAN)] /\ stack'[t] = <<>>
        /\ \A s \in Tasks \ {t} : stack'[s] = stack[s]
    <2>1. stack' = [stack EXCEPT ![t] = Front(@)] /\ stack \in [Tasks -> Seq(BOOLEAN)]
      BY <1>1 DEF Shape, Leave
    <2>. QED
      BY <2>1, FrontAt
  <1>6. /\ pending' \in [Tasks -> SUBSET (Tasks \X Nat \X Nat)] /\ pending'[t] = {}
        /\ \A s \in Tasks \ {t} : pending'[s] = pending[s]
    BY <1>1 DEF Shape
  <1>7. Shape'
    BY <1>4, <1>5, <1>6 DEF Shape
  <1>8. Elsewhere(t)
    BY <1>4, <1>5, <1>6 DEF Elsewhere, Current
  <1>9. StackInv(t)'
    <2>1. \A j \in DOMAIN blocks'[t] : blocks'[t][j].outcome # "open"
      BY <1>1, <1>2, <1>3, <1>4 DEF StackInv
    <2>2. \A i \in 2 .. Len(stack'[t]) : FALSE
      BY <1>5
    <2>. QED
      BY <1>5, <2>1, <2>2 DEF StackInv
  <1>10. SessionInv(t)'
    BY <1>5, <1>6 DEF SessionInv
  <1>11. OutcomeInv(t)'
    <2>1. \A x : x \in WritesOf(t, k) <=> \E i \in 1 .. blocks[t][k].writes : x = <<t, k, i>>
      BY DEF WritesOf
    <2>2. \A j : j # k => (Absent(t, j)' <=> Absent(t, j))
      BY <2>1 DEF Absent
    <2>3. \A j \in DOMAIN blocks[t] : j # k => (Present(t, j)' <=> Present(t, j))
      BY <1>4, <2>1 DEF Present
    <2>4. Absent(t, k)
      BY <1>1, <1>2 DEF OutcomeInv
    <2>5. db' = db => Absent(t, Len(blocks[t]))'
      BY <1>4, <2>4 DEF Absent
    <2>6. WritesOf(t, k) \subseteq db' => Present(t, Len(blocks[t]))'
      BY <1>3, <1>4, <2>1 DEF Present
    <2>7. db' = db \/ WritesOf(t, k) \subseteq db'
      OBVIOUS
    <2>8. /\ Absent(t, k)' \/ Present(t, k)'
          /\ (blocks'[t][k].failed \/ blocks'[t][k].outcome \in {"open", "raised"}) => Absent(t, k)'
          /\ (blocks'[t][k].outcome = "returned" /\ ~blocks'[t][k].failed) => Present(t, k)'
      BY <1>3, <1>4, <2>5, <2>6, <2>7
    <2>9. \A j \in Nat \ DOMAIN blocks'[t] : j # k /\ j \in Nat \ DOMAIN blocks[t]
      BY <1>2, <1>4
    <2>10. \A j \in Nat \ DOMAIN blocks'[t] : Absent(t, j)'
      BY <1>1, <2>2, <2>9 DEF OutcomeInv
    <2>11. ASSUME NEW j \in DOMAIN blocks'[t], j # k
           PROVE  /\ (Absent(t, j) \/ Present(t, j))'
                  /\ (blocks'[t][j].failed \/ blocks'[t][j].outcome \in {"open", "raised"})
                        => Absent(t, j)'
                  /\ (blocks'[t][j].outcome = "returned" /\ ~blocks'[t][j].failed)
                        => Present(t, j)'
      BY <1>1, <1>4, <2>2, <2>3, <2>11 DEF OutcomeInv
    <2>. QED
      BY <1>4, <2>8, <2>10, <2>11 DEF OutcomeInv
  <1>. QED
    BY <1>7, <1>8, <1>9, <1>10, <1>11, TaskSuffices

\* Only the outermost block owns the transaction.
LEMMA OwnExit ==
  ASSUME Inv, NEW t \in Tasks, LeavesOwnTransaction(t)
  PROVE  stack[t] # <<>> /\ Len(stack[t]) = 1 /\ OwnBlock(t)
  <1>1. Shape /\ StackInv(t) /\ SessionInv(t) /\ stack[t] # <<>> /\ ~stack[t][Len(stack[t])]
    BY DEF Inv, LeavesOwnTransaction, Last
  <1>2. Len(stack[t]) \in Nat \ {0}
    BY <1>1, EmptySeq DEF Shape
  <1>3. Len(stack[t]) \notin 2 .. Len(stack[t])
    BY <1>1 DEF StackInv
  <1>4. Len(stack[t]) = 1
    BY <1>2, <1>3, Positive
  <1>. QED
    BY <1>1, <1>4 DEF SessionInv

LEMMA OwnExitInv ==
  ASSUME Inv, NEW t \in Tasks, pc' = pc,
         ExitCommits(t) \/ ExitCommitRaises(t) \/ ExitRollsBack(t) \/ ExitRollbackRaises(t)
  PROVE  Inv'
  <1>. DEFINE k == Len(blocks[t])
  <1>1. stack[t] # <<>> /\ Len(stack[t]) = 1 /\ OwnBlock(t)
    BY OwnExit DEF ExitCommits, ExitCommitRaises, ExitRollsBack, ExitRollbackRaises
  <1>2. /\ session' \in [Tasks -> SessionStates] /\ session'[t] \in {"idle", "broken"}
        /\ \A s \in Tasks \ {t} : session'[s] = session[s]
    BY DEF Inv, Shape, SessionStates, ExitCommits, ExitCommitRaises, ExitRollsBack, ExitRollbackRaises,
           Scope
  <1>3. pending' = [pending EXCEPT ![t] = {}]
    BY DEF ExitCommits, ExitCommitRaises, ExitRollsBack, ExitRollbackRaises,
           Scope
  <1>4. exc' \in [Tasks -> Exceptions]
    BY DEF Inv, Shape, ExitCommits, ExitCommitRaises, ExitRollsBack, ExitRollbackRaises,
           AwaitRaises, Throw, Exceptions
  <1>5. session[t] = "begun" => ~blocks[t][k].failed /\ pending[t] = WritesOf(t, k)
    BY <1>1 DEF OwnBlock
  <1>6. session[t] # "begun" => blocks[t][k].failed
    BY <1>1 DEF OwnBlock
  <1>7. CASE ExitCommits(t)
    <2>1. /\ Leave(t, "returned")
          /\ db' = IF session[t] = "begun" THEN db \cup WritesOf(t, k) ELSE db
      BY <1>5, <1>7 DEF ExitCommits, Scope
    <2>. QED
      BY <1>1, <1>2, <1>3, <1>4, <1>5, <1>6, <2>1, ClosedBlock
  <1>8. CASE ExitCommitRaises(t)
    <2>1. /\ Leave(t, "doubt")
          /\ IF session[t] = "begun" THEN db' \in {db, db \cup WritesOf(t, k)} ELSE db' = db
      BY <1>5, <1>8 DEF ExitCommitRaises, Scope
    <2>. QED
      BY <1>1, <1>2, <1>3, <1>4, <1>5, <1>6, <2>1, ClosedBlock
  <1>9. CASE ExitRollsBack(t) \/ ExitRollbackRaises(t)
    <2>1. Leave(t, "raised") /\ db' = db
      BY <1>9 DEF ExitRollsBack, ExitRollbackRaises
    <2>. QED
      BY <1>1, <1>2, <1>3, <1>4, <2>1, ClosedBlock
  <1>. QED
    BY <1>7, <1>8, <1>9

LEMMA InnerExitInv ==
  ASSUME Inv, NEW t \in Tasks, ExitInner(t), pc' = pc
  PROVE  Inv'
  <1>1. Shape /\ StackInv(t) /\ SessionInv(t) /\ OutcomeInv(t)
    BY DEF Inv
  <1>2. /\ stack[t] # <<>> /\ stack[t][Len(stack[t])]
        /\ session' = session /\ pending' = pending /\ db' = db /\ exc' = exc
    BY DEF ExitInner, Last
  <1>3. Len(stack[t]) \in Nat \ {0}
    BY <1>1, <1>2, EmptySeq DEF Shape
  <1>4. CASE Len(stack[t]) = 1
    \* A session that was left broken hid behind the transaction it was in.
    <2>. DEFINE k == Len(blocks[t])
    <2>1. LostBlock(t)
      BY <1>1, <1>2, <1>4 DEF SessionInv
    <2>2. /\ session'[t] = "broken" /\ pending[t] = {}
          /\ pending' = [pending EXCEPT ![t] = {}]
          /\ WritesOf(t, k) = {}
      <3>1. 1 .. blocks[t][k].writes = {}
        BY <2>1 DEF LostBlock
      <3>. QED
        BY <1>1, <1>2, <2>1, <3>1 DEF LostBlock, WritesOf, Shape
    <2>3. \E outcome \in {"returned", "raised"} : Leave(t, outcome)
      BY DEF ExitInner
    <2>. QED
      BY <1>1, <1>2, <1>4, <2>2, <2>3, ClosedBlock DEF Shape
  <1>5. CASE Len(stack[t]) > 1
    <2>1. stack' = [stack EXCEPT ![t] = Front(@)] /\ blocks' = blocks
      BY <1>5 DEF ExitInner, Leave
    <2>2. /\ stack' \in [Tasks -> Seq(BOOLEAN)]
          /\ \A s \in Tasks \ {t} : stack'[s] = stack[s]
          /\ Len(stack'[t]) = Len(stack[t]) - 1
          /\ \A i \in 1 .. Len(stack[t]) - 1 : stack'[t][i] = stack[t][i]
          /\ stack'[t] = <<>> <=> Len(stack[t]) = 1
      <3>1. stack \in [Tasks -> Seq(BOOLEAN)]
        BY <1>1 DEF Shape
      <3>. QED
        BY <1>2, <2>1, <3>1, FrontAt
    <2>3. stack'[t] # <<>> /\ stack'[t][1] = stack[t][1]
      BY <1>3, <1>5, <2>2
    <2>4. Shape' /\ Elsewhere(t)
      BY <1>1, <1>2, <2>1, <2>2 DEF Shape, Elsewhere
    <2>5. StackInv(t)'
      <3>1. \A i \in 2 .. Len(stack'[t]) : i \in 2 .. Len(stack[t]) /\ i \in 1 .. Len(stack[t]) - 1
        BY <1>3, <2>2
      <3>2. \A i \in 2 .. Len(stack'[t]) : stack'[t][i]
        BY <1>1, <2>2, <3>1 DEF StackInv
      <3>. QED
        BY <1>1, <1>2, <2>1, <2>3, <3>2 DEF StackInv
    <2>6. SessionInv(t)'
      BY <1>1, <1>2, <2>1, <2>3 DEF SessionInv, LostBlock, OwnBlock, WritesOf
    <2>7. OutcomeInv(t)'
      BY <1>1, <1>2, <2>1 DEF OutcomeInv, Absent, Present
    <2>. QED
      BY <2>4, <2>5, <2>6, <2>7, TaskSuffices
  <1>. QED
    BY <1>3, <1>4, <1>5, Positive

(***************************************************************************)
(* The theorems                                                            *)
(***************************************************************************)

LEMMA NextInv == Inv /\ [Next]_vars => Inv'
  <1>. SUFFICES ASSUME Inv, [Next]_vars PROVE Inv'
    OBVIOUS
  <1>1. CASE UNCHANGED vars
    BY <1>1, LayerStep DEF vars, workVars, scopeVars, Inv, Shape
  <1>2. ASSUME NEW t \in Tasks, RunWork(t) PROVE Inv'
    <2>1. Work(t) /\ pc[t] = Working /\ pc' = pc
      BY <1>2 DEF RunWork, scopeVars
    <2>. QED
      BY <2>1, EnterInv, WriteInv, StatementRaisesInv, ExceptionInv, InnerExitInv, OwnExitInv
         DEF Work
  <1>3. ASSUME NEW t \in Tasks, Step(t), ~RunWork(t) PROVE Inv'
    BY <1>3, LayersInv DEF Step
  <1>. QED
    BY <1>1, <1>2, <1>3 DEF Next, AllDone

LEMMA InvHolds == Spec => []Inv
  BY InitInv, NextInv, PTL DEF Spec

\* What a block wrote is committed as a whole or not at all, whatever is nested in it,
\* raised or swallowed in it, or runs beside it (Atomic, postgres.py:37-52).
THEOREM BlocksAreAtomic == Spec => []AllOrNothing
  BY InvHolds, InvImplies, PTL

\* A block that is open, or was left by an exception, or in which a statement raised, has
\* nothing in the database (postgres.py:45-52).
THEOREM NothingOfFailedBlocks == Spec => []FailedBlocksLeaveNothing
  BY InvHolds, InvImplies, PTL

\* A block that returned is in the database, unless a statement of its raised and its code
\* swallowed that (postgres.py:52).
THEOREM ReturnedBlocksAreCommitted == Spec => []CommittedUnlessSwallowed
  BY InvHolds, InvImplies, PTL

(***************************************************************************)
(* The refinement: every step of a task's work is a step of AtomicBlocks   *)
(* or leaves the blocks and the database alone, and so does every layer.   *)
(***************************************************************************)

AbstractSame == UNCHANGED <<db, blocks>>

LEMMA SameWords ==
  ASSUME NEW t \in Tasks
  PROVE  /\ Atomicity!Current(t) = Current(t)
         /\ \A k : Atomicity!WritesOf(t, k) = WritesOf(t, k)
  BY DEF Atomicity!Current, Current, Atomicity!WritesOf, WritesOf

\* A task's last block is open exactly while the task is inside blocks.
LEMMA OpenIsInside ==
  ASSUME Inv, NEW t \in Tasks
  PROVE  Atomicity!IsOpen(t) <=> stack[t] # <<>>
  <1>1. Shape /\ StackInv(t)
    BY DEF Inv
  <1>2. stack[t] # <<>> => Atomicity!IsOpen(t)
    BY <1>1 DEF StackInv, Atomicity!IsOpen, Atomicity!Current
  <1>3. Atomicity!IsOpen(t) => stack[t] # <<>>
    <2>. SUFFICES ASSUME blocks[t] # <<>>, blocks[t][Len(blocks[t])].outcome = "open"
                  PROVE  stack[t] # <<>>
      BY DEF Atomicity!IsOpen, Atomicity!Current
    <2>1. Len(blocks[t]) \in DOMAIN blocks[t]
      <3>1. blocks[t] \in Seq(Block)
        BY <1>1 DEF Shape
      <3>2. Len(blocks[t]) \in Nat \ {0} /\ DOMAIN blocks[t] = 1 .. Len(blocks[t])
        BY <3>1, EmptySeq, LenProperties
      <3>. QED
        BY <3>2
    <2>. QED
      BY <1>1, <2>1 DEF StackInv
  <1>. QED
    BY <1>2, <1>3

LEMMA EntersBegin ==
  ASSUME Inv, NEW t \in Tasks, EnterAtomic(t)
  PROVE  Atomicity!Begin(t) \/ AbstractSame
  BY OpenIsInside DEF EnterAtomic, Atomicity!Begin, AbstractSame

LEMMA WritesWrite ==
  ASSUME Inv, NEW t \in Tasks, Write(t)
  PROVE  Atomicity!Write(t)
  <1>1. SessionInv(t) /\ stack[t] # <<>> /\ session[t] = "begun"
    BY DEF Inv, Write, Scope
  <1>2. ~blocks[t][Current(t)].failed
    BY <1>1 DEF SessionInv, LostBlock, OwnBlock, Current
  <1>3. /\ blocks' = [blocks EXCEPT ![t][Current(t)].writes = @ + 1]
        /\ UNCHANGED db
    BY DEF Write
  <1>. QED
    BY <1>1, <1>2, <1>3, OpenIsInside, SameWords DEF Atomicity!Write

LEMMA StatementRaisesFails ==
  ASSUME Inv, NEW t \in Tasks, StatementRaises(t)
  PROVE  Atomicity!Fail(t)
  <1>1. /\ stack[t] # <<>>
        /\ blocks' = [blocks EXCEPT ![t][Current(t)].failed = TRUE]
        /\ UNCHANGED db
    BY DEF StatementRaises
  <1>. QED
    BY <1>1, OpenIsInside, SameWords DEF Atomicity!Fail

\* The end of the outermost block: its writes go to the database, all of them, or none do.
LEMMA EndsOfBlocks ==
  ASSUME Inv, NEW t \in Tasks, stack[t] # <<>>, Len(stack[t]) = 1,
         NEW outcome \in {"returned", "raised", "doubt"}, Leave(t, outcome),
         \/ db' = db /\ (outcome = "returned" => blocks[t][Current(t)].failed)
         \/ /\ db' = db \cup WritesOf(t, Current(t))
            /\ ~blocks[t][Current(t)].failed /\ outcome # "raised"
  PROVE  Atomicity!Commit(t) \/ Atomicity!Abort(t)
  <1>1. Atomicity!IsOpen(t)
    BY OpenIsInside
  <1>2. Atomicity!End(t, outcome)
    <2>1. blocks' = [blocks EXCEPT ![t][Current(t)].outcome = outcome]
      BY DEF Leave
    <2>. QED
      BY <2>1, SameWords DEF Atomicity!End
  <1>. QED
    BY <1>1, <1>2, SameWords DEF Atomicity!Commit, Atomicity!Abort

LEMMA OwnExitEnds ==
  ASSUME Inv, NEW t \in Tasks,
         ExitCommits(t) \/ ExitCommitRaises(t) \/ ExitRollsBack(t) \/ ExitRollbackRaises(t)
  PROVE  Atomicity!Commit(t) \/ Atomicity!Abort(t)
  <1>1. stack[t] # <<>> /\ Len(stack[t]) = 1 /\ OwnBlock(t)
    BY OwnExit DEF ExitCommits, ExitCommitRaises, ExitRollsBack, ExitRollbackRaises
  <1>2. session[t] = "begun" => ~blocks[t][Current(t)].failed /\ pending[t] = WritesOf(t, Current(t))
    BY <1>1 DEF OwnBlock, Current
  <1>3. session[t] # "begun" => blocks[t][Current(t)].failed
    BY <1>1 DEF OwnBlock, Current
  <1>4. CASE ExitCommits(t)
    <2>1. /\ Leave(t, "returned")
          /\ db' = IF session[t] = "begun" THEN db \cup pending[t] ELSE db
      BY <1>4 DEF ExitCommits, Scope
    <2>. QED
      BY <1>1, <1>2, <1>3, <2>1, EndsOfBlocks
  <1>5. CASE ExitCommitRaises(t)
    <2>1. /\ Leave(t, "doubt")
          /\ IF session[t] = "begun" THEN db' \in {db, db \cup pending[t]} ELSE db' = db
      BY <1>5 DEF ExitCommitRaises, Scope
    <2>. QED
      BY <1>1, <1>2, <1>3, <2>1, EndsOfBlocks
  <1>6. CASE ExitRollsBack(t) \/ ExitRollbackRaises(t)
    <2>1. Leave(t, "raised") /\ db' = db
      BY <1>6 DEF ExitRollsBack, ExitRollbackRaises
    <2>. QED
      BY <1>1, <2>1, EndsOfBlocks
  <1>. QED
    BY <1>4, <1>5, <1>6

\* An outermost block that took itself for an inner one has written nothing.
LEMMA InnerExitEnds ==
  ASSUME Inv, NEW t \in Tasks, ExitInner(t)
  PROVE  Atomicity!Commit(t) \/ Atomicity!Abort(t) \/ AbstractSame
  <1>1. Shape /\ SessionInv(t) /\ stack[t] # <<>> /\ stack[t][Len(stack[t])] /\ db' = db
    BY DEF Inv, ExitInner, Last
  <1>2. Len(stack[t]) \in Nat \ {0}
    BY <1>1, EmptySeq DEF Shape
  <1>3. CASE Len(stack[t]) = 1
    <2>1. LostBlock(t)
      BY <1>1, <1>3 DEF SessionInv
    <2>2. WritesOf(t, Current(t)) = {}
      BY <2>1 DEF LostBlock, WritesOf, Current
    <2>3. PICK outcome \in {"returned", "raised"} : Leave(t, outcome)
      BY DEF ExitInner
    <2>4. db' = db \cup WritesOf(t, Current(t))
      BY <1>1, <2>2
    <2>. QED
      BY <1>1, <1>3, <2>3, <2>4, EndsOfBlocks
  <1>4. CASE Len(stack[t]) > 1
    BY <1>1, <1>4 DEF ExitInner, Leave, AbstractSame
  <1>. QED
    BY <1>2, <1>3, <1>4, Positive

LEMMA BlockStep ==
  Inv /\ [Next]_vars => [Atomicity!Next]_(Atomicity!vars)
  <1>. SUFFICES ASSUME Inv, [Next]_vars PROVE Atomicity!Next \/ AbstractSame
    BY DEF AbstractSame, Atomicity!vars
  <1>1. CASE UNCHANGED vars
    BY <1>1 DEF vars, workVars, AbstractSame
  <1>2. ASSUME NEW t \in Tasks, RunWork(t) PROVE Atomicity!Next \/ AbstractSame
    <2>1. Work(t)
      BY <1>2 DEF RunWork
    <2>2. (Swallow(t) \/ \E e \in Exceptions : Raise(t, e)) => AbstractSame
      BY DEF Swallow, Raise, AbstractSame
    <2>. QED
      BY <2>1, <2>2, EntersBegin, WritesWrite, StatementRaisesFails, InnerExitEnds, OwnExitEnds
         DEF Work, Atomicity!Next
  <1>3. ASSUME NEW t \in Tasks, Step(t), ~RunWork(t) PROVE AbstractSame
    BY <1>3 DEF Step, Open, Tag, LogStart, LogStartRaises, PassCloser, UseClickhouse, EndWork, CloseClickhouse,
           CloseClickhouseRaises, ClosePostgres, ClosePostgresRaises, LogOutcome, LogOutcomeRaises, PassTagger,
           Clear, workVars, AbstractSame
  <1>. QED
    BY <1>1, <1>2, <1>3 DEF Next, AllDone

\* ImplementsAtomicBlocks of the run: to the tasks of a process, their outermost Atomic blocks
\* take effect in one step or not at all (Atomic, postgres.py:37-52).
THEOREM BlocksTakeEffectAtOnce == Spec => ImplementsAtomicBlocks
  <1>1. Init => Atomicity!Init
    BY DEF Init, WorkInit, Atomicity!Init
  <1>. QED
    BY <1>1, BlockStep, InvHolds, PTL DEF Spec, ImplementsAtomicBlocks, Atomicity!Spec
===============================================================================

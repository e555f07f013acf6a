------------------------- MODULE RequestLayersProofs -------------------------
(***************************************************************************)
(* Theorems about the layers around a task's work, for every number of     *)
(* tasks of every kind, and every number of blocks, writes and exceptions. *)
(*                                                                         *)
(* The layers of a request and of an actor turn out to be the same four    *)
(* (LayersInOrder): the recursion of WrapAll has the solution its levels   *)
(* make.  The layer a task is in then tells what has happened to it        *)
(* (TaskInv): the log properties are its own from the first layer until it *)
(* leaves that again, behind the closer nothing is left, and the outcome   *)
(* that is logged is the one that is sent, because nothing between the     *)
(* logging and the end changes the exception on its way.                   *)
(*                                                                         *)
(* With both invariants and a count of the blocks and writes of all tasks, *)
(* every variable has its type.                                            *)
(***************************************************************************)
EXTENDS RequestScopeProofs, FiniteSetTheorems

InOrder == <<"properties", "tagger", "logging", "closer">>

\* A recursion over 0 .. 4 has the solution that its levels make.
LEMMA FourLevels ==
  ASSUME NEW fn, NEW s, NEW w,
         w = CHOOSE g : g = [i \in 0 .. 4 |-> IF i = 0 THEN fn ELSE <<s[i]>> \o g[i - 1]]
  PROVE  w[4] = <<s[4]>> \o (<<s[3]>> \o (<<s[2]>> \o (<<s[1]>> \o fn)))
  <1>. DEFINE Around(i, inner) == <<s[i]>> \o inner
              Solves(g) == g = [i \in 0 .. 4 |-> IF i = 0 THEN fn ELSE Around(i, g[i - 1])]
              one == Around(1, fn)
              two == Around(2, one)
              three == Around(3, two)
              four == Around(4, three)
  <1>1. w = CHOOSE g : Solves(g)
    OBVIOUS
  <1>. HIDE DEF Around
  <1>2. \E g : Solves(g)
    <2>. HIDE DEF one, two, three, four
    <2>. DEFINE g == [i \in 0 .. 4 |-> CASE i = 0 -> fn [] i = 1 -> one [] i = 2 -> two
                                        [] i = 3 -> three [] i = 4 -> four]
    <2>1. g[0] = fn /\ g[1] = one /\ g[2] = two /\ g[3] = three /\ g[4] = four
      OBVIOUS
    <2>2. ASSUME NEW i \in 0 .. 4 PROVE g[i] = IF i = 0 THEN fn ELSE Around(i, g[i - 1])
      <3>1. i = 0 \/ i = 1 \/ i = 2 \/ i = 3 \/ i = 4
        OBVIOUS
      <3>2. 1 - 1 = 0 /\ 2 - 1 = 1 /\ 3 - 1 = 2 /\ 4 - 1 = 3
        OBVIOUS
      <3>. HIDE DEF g
      <3>. QED
        BY <2>1, <3>1, <3>2 DEF one, two, three, four
    <2>3. g = [i \in 0 .. 4 |-> g[i]]
      OBVIOUS
    <2>. HIDE DEF g
    <2>4. Solves(g)
      BY <2>2, <2>3
    <2>. QED
      BY <2>4
  <1>3. Solves(w)
    <2>. HIDE DEF Solves
    <2>. QED
      BY <1>1, <1>2
  <1>4. \A i \in 0 .. 4 : w[i] = IF i = 0 THEN fn ELSE Around(i, w[i - 1])
    BY <1>3
  <1>. HIDE DEF Solves
  <1>5. w[0] = fn
    <2>1. 0 \in 0 .. 4
      OBVIOUS
    <2>. QED
      BY <1>4, <2>1, Zenon
  <1>6. ASSUME NEW i \in 1 .. 4 PROVE w[i] = Around(i, w[i - 1])
    <2>1. i \in 0 .. 4 /\ i # 0
      OBVIOUS
    <2>. QED
      BY <1>4, <2>1, Zenon
  <1>7. /\ w[1] = Around(1, w[0]) /\ w[2] = Around(2, w[1])
        /\ w[3] = Around(3, w[2]) /\ w[4] = Around(4, w[3])
    <2>1. 1 - 1 = 0 /\ 2 - 1 = 1 /\ 3 - 1 = 2 /\ 4 - 1 = 3
      OBVIOUS
    <2>2. /\ w[1] = Around(1, w[1 - 1]) /\ w[2] = Around(2, w[2 - 1])
          /\ w[3] = Around(3, w[3 - 1]) /\ w[4] = Around(4, w[4 - 1])
      <3>1. 1 \in 1 .. 4 /\ 2 \in 1 .. 4 /\ 3 \in 1 .. 4 /\ 4 \in 1 .. 4
        OBVIOUS
      <3>. QED
        BY <1>6, <3>1, Zenon
    <2>. QED
      BY <2>1, <2>2, Zenon
  <1>. QED
    BY <1>5, <1>7 DEF Around

LEMMA ActorLayers == Layers("actor") = InOrder
  <1>1. /\ Len(Reverse(ActorMiddlewares)) = 4
        /\ Reverse(ActorMiddlewares) = <<"closer", "logging", "tagger", "properties">>
    BY DEF Reverse, ActorMiddlewares
  <1>. DEFINE s == Reverse(ActorMiddlewares)
              w == CHOOSE g : g = [i \in 0 .. 4 |-> IF i = 0 THEN <<>> ELSE <<s[i]>> \o g[i - 1]]
  <1>2. WrapAll(<<>>) = <<s[4]>> \o (<<s[3]>> \o (<<s[2]>> \o (<<s[1]>> \o <<>>)))
    <2>1. WrapAll(<<>>) = w[4]
      BY <1>1, Zenon DEF WrapAll
    <2>. HIDE DEF s
    <2>2. w[4] = <<s[4]>> \o (<<s[3]>> \o (<<s[2]>> \o (<<s[1]>> \o <<>>)))
      BY FourLevels, Zenon
    <2>. QED
      BY <2>1, <2>2
  <1>3. WrapAll(<<>>) = InOrder
    BY <1>1, <1>2 DEF InOrder
  <1>. QED
    BY <1>3 DEF Layers, Booted, SetupTasks

LEMMA LayersInOrder ==
  ASSUME NEW k \in Kinds
  PROVE  Layers(k) = InOrder
  <1>1. CASE k = "actor"
    BY <1>1, ActorLayers
  <1>2. CASE k # "actor"
    BY <1>2 DEF Layers, Reverse, AddedMiddlewares, InOrder
  <1>. QED
    BY <1>1, <1>2

(***************************************************************************)
(* What has happened to a task, by the layer it is in                      *)
(***************************************************************************)

Ways == {"in", "out"} \X (1 .. 4) \cup {<<"postgres", 4>>, Working, Done}

ScopeShape ==
    /\ pc \in [Tasks -> Ways]
    /\ kind \in [Tasks -> Kinds]
    /\ tags \in [Tasks -> Tasks \cup {Nobody}]
    /\ client \in [Tasks -> BOOLEAN]
    /\ props \in [Tasks -> Tasks \cup {Nobody}]
    /\ sent \in [Tasks -> Statuses]
    /\ log \in [Tasks -> SUBSET Records]
    /\ closing \in [Tasks -> {"fine", "raised"}]

\* The way in, where a task has answered and logged nothing yet, and the way out, closer first.
GoingIn(t) == pc[t] \in {"in"} \X (1 .. 4)
Closing(t) == pc[t] \in {<<"out", 4>>, <<"postgres", 4>>}
Closed(t) == pc[t] \in {<<"out", i>> : i \in 1 .. 3} \cup {Done}
Accounted(t) == pc[t] \in {<<"out", 2>>, <<"out", 1>>, Done}
HasOutcome(t) == \E r \in log[t] : r.about = "outcome"

Owner(t) == IF kind[t] = "lifespan" THEN Nobody ELSE t

\* The entry is the task's from the first layer until it leaves it again.
PropsInv(t) ==
    /\ props[t] = IF pc[t] \in {<<"in", 1>>, Done} THEN Nobody ELSE Owner(t)
    /\ pc[t] \in {<<"in", 1>>, <<"in", 2>>} \/ tags[t] = Owner(t)
    /\ \A r \in log[t] : r.props = t /\ Logged(t)

\* Before the work there is nothing to close, behind the closer nothing left unless closing raised.
ClosedInv(t) ==
    /\ pc[t] = <<"postgres", 4>> => ~client[t]
    /\ GoingIn(t) \/ (Closed(t) /\ closing[t] = "fine")
          => session[t] = "none" /\ ~client[t] /\ pending[t] = {}

\* A request is answered when its work ends, a task of dramatiq when it has left all layers.  What
\* raises in the logging comes behind the answer, and is not recorded.
AnswerInv(t) ==
    /\ GoingIn(t) \/ pc[t] = Working => sent[t] = "none"
    /\ pc[t] # Done /\ kind[t] = "actor" => sent[t] = "none"
    /\ (Closing(t) \/ pc[t] = <<"out", 3>> \/ HasOutcome(t))
          /\ pc[t] # Done /\ kind[t] = "http" /\ closing[t] = "fine"
          => (sent[t] = "none" <=> exc[t] # "none")

\* The outcome that is logged is the one the client, or dramatiq, gets to see in the end.
OutcomeLogged(t) ==
    \A r \in log[t] :
        r.about = "outcome" =>
            /\ Accounted(t)
            /\ closing[t] = "fine" \/ kind[t] = "actor" =>
                  IF pc[t] = Done
                  THEN r.status = sent[t]
                  ELSE \/ exc[t] = "none" /\ r.status = IF kind[t] = "actor" THEN "success" ELSE sent[t]
                       \/ exc[t] = "unexpected" /\ r.status = "500"

TaskInv(t) == PropsInv(t) /\ ClosedInv(t) /\ AnswerInv(t) /\ OutcomeLogged(t)

ScopeInv == ScopeShape /\ \A t \in Tasks : TaskInv(t)

LEMMA ScopeImplies == ScopeInv => LogsCarryProperties /\ NothingLeftBehind /\ LogTellsOutcome
  <1>. SUFFICES ASSUME ScopeInv
                PROVE  LogsCarryProperties /\ NothingLeftBehind /\ LogTellsOutcome
    OBVIOUS
  <1>1. LogsCarryProperties
    BY DEF ScopeInv, TaskInv, PropsInv, LogsCarryProperties, Owner, Working
  <1>2. NothingLeftBehind
    BY DEF ScopeInv, TaskInv, PropsInv, ClosedInv, NothingLeftBehind, Closed
  <1>3. LogTellsOutcome
    BY DEF ScopeInv, TaskInv, OutcomeLogged, LogTellsOutcome
  <1>. QED
    BY <1>1, <1>2, <1>3

LEMMA ScopeInit == Init => ScopeInv
  <1>. SUFFICES ASSUME Init PROVE ScopeInv
    OBVIOUS
  <1>1. ScopeShape
    BY MixesAssumption DEF Init, ScopeShape, Ways, Statuses
  <1>2. ASSUME NEW t \in Tasks PROVE TaskInv(t)
    <2>1. /\ pc[t] = <<"in", 1>> /\ props[t] = Nobody /\ log[t] = {} /\ sent[t] = "none"
          /\ session[t] = "none" /\ ~client[t] /\ pending[t] = {}
      BY <1>2 DEF Init, WorkInit
    <2>2. ~Closed(t) /\ ~Closing(t) /\ pc[t] # Done /\ pc[t] # <<"postgres", 4>> /\ pc[t] # <<"out", 3>>
      BY <2>1 DEF Closed, Closing, Done
    <2>. QED
      BY <2>1, <2>2 DEF TaskInv, PropsInv, ClosedInv, AnswerInv, OutcomeLogged, HasOutcome
  <1>. QED
    BY <1>1, <1>2 DEF ScopeInv

(***************************************************************************)
(* Steps through the layers                                                *)
(***************************************************************************)

LEMMA Where ==
  ASSUME ScopeShape, NEW t \in Tasks, NEW way \in {"in", "out", "postgres"}
  PROVE  /\ At(t, way, "properties") <=> pc[t] = <<way, 1>>
         /\ At(t, way, "tagger")     <=> pc[t] = <<way, 2>>
         /\ At(t, way, "logging")    <=> pc[t] = <<way, 3>>
         /\ At(t, way, "closer")     <=> pc[t] = <<way, 4>>
  <1>1. Layers(kind[t]) = InOrder
    BY LayersInOrder DEF ScopeShape
  <1>2. /\ InOrder[1] = "properties" /\ InOrder[2] = "tagger" /\ InOrder[3] = "logging"
        /\ InOrder[4] = "closer"
    BY DEF InOrder
  <1>3. CASE pc[t] \in {Working, Done}
    BY <1>3 DEF At, Working, Done
  <1>4. CASE pc[t] \in {"in", "out"} \X (1 .. 4) \cup {<<"postgres", 4>>}
    <2>1. PICK w \in {"in", "out", "postgres"}, i \in 1 .. 4 : pc[t] = <<w, i>>
      BY <1>4
    <2>2. i = 1 \/ i = 2 \/ i = 3 \/ i = 4
      OBVIOUS
    <2>. QED
      BY <1>1, <1>2, <2>1, <2>2 DEF At
  <1>. QED
    BY <1>3, <1>4 DEF ScopeShape, Ways

LEMMA Whereto ==
  ASSUME ScopeShape, NEW t \in Tasks
  PROVE  /\ pc[t] = <<"in", 1>> /\ Inward(t) => pc' = [pc EXCEPT ![t] = <<"in", 2>>]
         /\ pc[t] = <<"in", 2>> /\ Inward(t) => pc' = [pc EXCEPT ![t] = <<"in", 3>>]
         /\ pc[t] = <<"in", 3>> /\ Inward(t) => pc' = [pc EXCEPT ![t] = <<"in", 4>>]
         /\ pc[t] = <<"in", 4>> /\ Inward(t) => pc' = [pc EXCEPT ![t] = Working]
         /\ Move(t, <<"out", Len(Layers(kind[t]))>>) => pc' = [pc EXCEPT ![t] = <<"out", 4>>]
         /\ pc[t] \in {<<"out", 4>>, <<"postgres", 4>>} /\ Outward(t)
               => pc' = [pc EXCEPT ![t] = <<"out", 3>>]
         /\ pc[t] \in {<<"in", 3>>, <<"out", 3>>} /\ Outward(t)
               => pc' = [pc EXCEPT ![t] = <<"out", 2>>]
         /\ pc[t] = <<"out", 2>> /\ Outward(t) => pc' = [pc EXCEPT ![t] = <<"out", 1>>]
         /\ pc[t] = <<"out", 1>> /\ Outward(t) => pc' = [pc EXCEPT ![t] = Done]
  <1>1. Layers(kind[t]) = InOrder /\ Len(InOrder) = 4
    BY LayersInOrder DEF ScopeShape, InOrder
  <1>. QED
    BY <1>1 DEF Inward, Outward, Move

\* Only t has taken a step.
Alone(t) ==
    \A s \in Tasks \ {t} :
        /\ pc'[s] = pc[s] /\ kind'[s] = kind[s] /\ tags'[s] = tags[s] /\ client'[s] = client[s]
        /\ props'[s] = props[s] /\ sent'[s] = sent[s] /\ log'[s] = log[s]
        /\ closing'[s] = closing[s] /\ session'[s] = session[s] /\ pending'[s] = pending[s]
        /\ exc'[s] = exc[s]

LEMMA AloneSuffices ==
  ASSUME ScopeInv, NEW t \in Tasks, ScopeShape', Alone(t), TaskInv(t)'
  PROVE  ScopeInv'
  <1>1. ASSUME NEW s \in Tasks, s # t PROVE TaskInv(s)'
    <2>1. TaskInv(s)
      BY DEF ScopeInv
    <2>2. /\ pc'[s] = pc[s] /\ kind'[s] = kind[s] /\ tags'[s] = tags[s] /\ client'[s] = client[s]
          /\ props'[s] = props[s] /\ sent'[s] = sent[s] /\ log'[s] = log[s]
          /\ closing'[s] = closing[s] /\ session'[s] = session[s] /\ pending'[s] = pending[s]
          /\ exc'[s] = exc[s]
      BY <1>1 DEF Alone
    <2>3. PropsInv(s)'
      BY <2>1, <2>2 DEF TaskInv, PropsInv, Owner, Logged
    <2>4. ClosedInv(s)'
      BY <2>1, <2>2 DEF TaskInv, ClosedInv, GoingIn, Closed
    <2>5. AnswerInv(s)'
      BY <2>1, <2>2 DEF TaskInv, AnswerInv, GoingIn, Closing, HasOutcome
    <2>6. OutcomeLogged(s)'
      BY <2>1, <2>2 DEF TaskInv, OutcomeLogged, Accounted
    <2>. QED
      BY <2>3, <2>4, <2>5, <2>6 DEF TaskInv
  <1>. QED
    BY <1>1 DEF ScopeInv

\* Where a task is not when it is at one layer.
LEMMA Apart ==
  /\ \A i \in 1 .. 4 : /\ <<"in", i>> # Working /\ <<"in", i>> # Done
                       /\ <<"out", i>> # Working /\ <<"out", i>> # Done
                       /\ <<"in", i>> \in Ways /\ <<"out", i>> \in Ways
  /\ Working \in Ways /\ Done \in Ways /\ <<"postgres", 4>> \in Ways
  /\ <<"postgres", 4>> # Working /\ <<"postgres", 4>> # Done /\ Working # Done
  BY DEF Working, Done, Ways

\* On the way in, and at work, there is nothing to show but the entry and the records.
LEMMA StillInside ==
  ASSUME ScopeInv, NEW t \in Tasks, GoingIn(t) \/ pc[t] = Working,
         \/ GoingIn(t)' /\ GoingIn(t) /\ UNCHANGED <<client, session, pending>>
         \/ pc'[t] = Working,
         sent'[t] = sent[t], kind' = kind,
         \A r \in log'[t] : r \in log[t] \/ r.about # "outcome",
         ScopeShape', Alone(t), PropsInv(t)'
  PROVE  ScopeInv'
  <1>1. /\ ~Closed(t)' /\ ~Closing(t)' /\ pc'[t] \notin {<<"postgres", 4>>, <<"out", 3>>, Done}
        /\ pc'[t] = Working => ~GoingIn(t)'
    BY Apart DEF Closed, Closing, GoingIn
  <1>2. ~Accounted(t)
    BY Apart DEF Accounted, GoingIn
  <1>3. sent[t] = "none" /\ OutcomeLogged(t) /\ ClosedInv(t)
    BY DEF ScopeInv, TaskInv, AnswerInv
  <1>4. ~HasOutcome(t)' /\ OutcomeLogged(t)'
    BY <1>2, <1>3 DEF OutcomeLogged, HasOutcome
  <1>5. ClosedInv(t)' /\ AnswerInv(t)'
    BY <1>1, <1>3, <1>4 DEF ClosedInv, AnswerInv
  <1>. QED
    BY <1>4, <1>5, AloneSuffices DEF TaskInv

LEMMA OpenScope ==
  ASSUME Inv, ScopeInv, NEW t \in Tasks, Open(t)
  PROVE  ScopeInv'
  <1>1. ScopeShape /\ PropsInv(t)
    BY DEF ScopeInv, TaskInv
  <1>2. pc[t] = <<"in", 1>> /\ pc' = [pc EXCEPT ![t] = <<"in", 2>>]
    BY <1>1, Where, Whereto DEF Open
  <1>3. pc'[t] = <<"in", 2>> /\ UNCHANGED <<kind, tags, client, sent, log, closing, exc, session, pending>>
    BY <1>1, <1>2 DEF Open, workVars, ScopeShape
  <1>4. props' = IF kind[t] = "lifespan" THEN props ELSE [props EXCEPT ![t] = t]
    BY DEF Open, Scope
  <1>5. ScopeShape' /\ Alone(t)
    BY <1>1, <1>2, <1>3, <1>4, Apart DEF ScopeShape, Alone
  <1>6. props'[t] = Owner(t)
    BY <1>1, <1>2, <1>4 DEF ScopeShape, Owner, PropsInv
  <1>7. PropsInv(t)'
    BY <1>1, <1>2, <1>3, <1>6, Apart DEF PropsInv, Owner, Logged
  <1>. QED
    BY <1>2, <1>3, <1>5, <1>7, StillInside DEF GoingIn

LEMMA TagScope ==
  ASSUME Inv, ScopeInv, NEW t \in Tasks, Tag(t)
  PROVE  ScopeInv'
  <1>1. ScopeShape /\ PropsInv(t)
    BY DEF ScopeInv, TaskInv
  <1>2. pc[t] = <<"in", 2>> /\ pc' = [pc EXCEPT ![t] = <<"in", 3>>]
    BY <1>1, Where, Whereto DEF Tag
  <1>3. pc'[t] = <<"in", 3>> /\ UNCHANGED <<kind, client, props, sent, log, closing, exc, session, pending>>
    BY <1>1, <1>2 DEF Tag, workVars, ScopeShape
  <1>4. tags' = [tags EXCEPT ![t] = props[t]]
    BY DEF Tag, Scope
  <1>5. ScopeShape' /\ Alone(t)
    BY <1>1, <1>2, <1>3, <1>4, Apart DEF ScopeShape, Alone
  <1>6. tags'[t] = props[t] /\ props[t] = Owner(t)
    BY <1>1, <1>2, <1>4, Apart DEF ScopeShape, PropsInv
  <1>7. PropsInv(t)'
    BY <1>1, <1>2, <1>3, <1>6, Apart DEF PropsInv, Owner, Logged
  <1>. QED
    BY <1>2, <1>3, <1>5, <1>7, StillInside DEF GoingIn

\* A record that is written inside the first layer has the properties of its task.
LEMMA RecordOwned ==
  ASSUME ScopeShape, NEW t \in Tasks, PropsInv(t), Logged(t), pc[t] \notin {<<"in", 1>>, Done},
         NEW about \in {"start", "outcome"}, NEW status \in Statuses, Record(t, about, status)
  PROVE  /\ log' \in [Tasks -> SUBSET Records]
         /\ \A s \in Tasks \ {t} : log'[s] = log[s]
         /\ \A r \in log'[t] : r.props = t
         /\ \A r \in log'[t] : r \in log[t] \/ (r.about = about /\ r.status = status)
  <1>. DEFINE new == [about |-> about, status |-> status, props |-> props[t]]
  <1>1. props[t] = t
    BY DEF PropsInv, Owner, Logged
  <1>2. new \in Records /\ new.props = t /\ new.about = about /\ new.status = status
    BY <1>1 DEF Records
  <1>3. log' = [log EXCEPT ![t] = @ \cup {new}]
    BY DEF Record, Scope
  <1>. HIDE DEF new
  <1>4. log'[t] = log[t] \cup {new}
    BY <1>3 DEF ScopeShape
  <1>. QED
    BY <1>2, <1>3, <1>4 DEF ScopeShape, PropsInv

LEMMA LogStartScope ==
  ASSUME Inv, ScopeInv, NEW t \in Tasks, LogStart(t)
  PROVE  ScopeInv'
  <1>1. ScopeShape /\ PropsInv(t)
    BY DEF ScopeInv, TaskInv
  <1>2. pc[t] = <<"in", 3>> /\ pc' = [pc EXCEPT ![t] = <<"in", 4>>]
    BY <1>1, Where, Whereto DEF LogStart
  <1>3. pc'[t] = <<"in", 4>> /\ UNCHANGED <<kind, tags, client, props, sent, closing, exc, session, pending>>
    BY <1>1, <1>2 DEF LogStart, workVars, ScopeShape
  <1>4. /\ log' \in [Tasks -> SUBSET Records]
        /\ \A s \in Tasks \ {t} : log'[s] = log[s]
        /\ \A r \in log'[t] : r.props = t /\ Logged(t)
        /\ \A r \in log'[t] : r \in log[t] \/ r.about # "outcome"
    <2>1. CASE Logged(t)
      <3>1. Record(t, "start", "none") /\ "none" \in Statuses
        BY <2>1 DEF LogStart, Statuses
      <3>2. pc[t] \notin {<<"in", 1>>, Done}
        BY <1>2, Apart
      <3>. QED
        BY <1>1, <2>1, <3>1, <3>2, RecordOwned
    <2>2. CASE ~Logged(t)
      BY <1>1, <2>2 DEF LogStart, ScopeShape, PropsInv
    <2>. QED
      BY <2>1, <2>2
  <1>5. ScopeShape'
    <2>1. log' \in [Tasks -> SUBSET Records]
      BY <1>4
    <2>2. pc' \in [Tasks -> Ways]
      BY <1>1, <1>2, Apart DEF ScopeShape
    <2>. QED
      BY <1>1, <1>3, <2>1, <2>2 DEF ScopeShape
  <1>6. Alone(t)
    <2>1. \A s \in Tasks \ {t} : log'[s] = log[s]
      BY <1>4
    <2>. QED
      BY <1>1, <1>2, <1>3, <2>1 DEF ScopeShape, Alone
  <1>7. PropsInv(t)'
    BY <1>1, <1>2, <1>3, <1>4, Apart DEF PropsInv, Owner, Logged
  <1>. QED
    BY <1>2, <1>3, <1>4, <1>5, <1>6, <1>7, StillInside DEF GoingIn

LEMMA PassCloserScope ==
  ASSUME Inv, ScopeInv, NEW t \in Tasks, PassCloser(t)
  PROVE  ScopeInv'
  <1>1. ScopeShape /\ PropsInv(t)
    BY DEF ScopeInv, TaskInv
  <1>2. pc[t] = <<"in", 4>> /\ pc' = [pc EXCEPT ![t] = Working]
    BY <1>1, Where, Whereto DEF PassCloser
  <1>3. pc'[t] = Working
        /\ UNCHANGED <<kind, tags, client, props, sent, log, closing, exc, session, pending>>
    BY <1>1, <1>2 DEF PassCloser, workVars, ScopeShape
  <1>4. ScopeShape' /\ Alone(t)
    BY <1>1, <1>2, <1>3, Apart DEF ScopeShape, Alone
  <1>5. PropsInv(t)'
    BY <1>1, <1>2, <1>3, Apart DEF PropsInv, Owner, Logged
  <1>. QED
    BY <1>2, <1>3, <1>4, <1>5, StillInside DEF GoingIn

LEMMA UseClickhouseScope ==
  ASSUME Inv, ScopeInv, NEW t \in Tasks, UseClickhouse(t)
  PROVE  ScopeInv'
  <1>1. ScopeShape /\ PropsInv(t)
    BY DEF ScopeInv, TaskInv
  <1>2. /\ pc[t] = Working /\ client' = [client EXCEPT ![t] = TRUE]
        /\ UNCHANGED <<pc, kind, tags, props, sent, log, closing, exc, session, pending>>
    BY DEF UseClickhouse, workVars, Scope
  <1>3. ScopeShape' /\ Alone(t)
    BY <1>1, <1>2 DEF ScopeShape, Alone
  <1>4. PropsInv(t)'
    BY <1>1, <1>2 DEF PropsInv, Owner, Logged
  <1>. QED
    BY <1>2, <1>3, <1>4, StillInside

\* A step of the work changes no other task's session or exception.
LEMMA WorkAlone ==
  ASSUME Inv, NEW t \in Tasks, Work(t)
  PROVE  \A s \in Tasks \ {t} :
             session'[s] = session[s] /\ pending'[s] = pending[s] /\ exc'[s] = exc[s]
  <1>. DEFINE Same == \A s \in Tasks \ {t} :
                  session'[s] = session[s] /\ pending'[s] = pending[s] /\ exc'[s] = exc[s]
  <1>. USE DEF Inv, Shape, Scope, AwaitRaises, Throw
  <1>1. EnterAtomic(t) => Same
    BY DEF EnterAtomic
  <1>2. Write(t) => Same
    BY DEF Write
  <1>3. StatementRaises(t) => Same
    BY DEF StatementRaises
  <1>4. (\E e \in Exceptions : Raise(t, e)) \/ Swallow(t) => Same
    BY DEF Raise, Swallow
  <1>5. ExitInner(t) => Same
    BY DEF ExitInner
  <1>6. ExitCommits(t) \/ ExitCommitRaises(t) \/ ExitRollsBack(t) \/ ExitRollbackRaises(t) => Same
    BY DEF ExitCommits, ExitCommitRaises, ExitRollsBack, ExitRollbackRaises
  <1>. QED
    BY <1>1, <1>2, <1>3, <1>4, <1>5, <1>6 DEF Work

LEMMA RunWorkScope ==
  ASSUME Inv, ScopeInv, NEW t \in Tasks, RunWork(t)
  PROVE  ScopeInv'
  <1>1. ScopeShape /\ PropsInv(t)
    BY DEF ScopeInv, TaskInv
  <1>2. pc[t] = Working /\ UNCHANGED <<pc, kind, tags, client, props, sent, log, closing>>
    BY DEF RunWork, scopeVars
  <1>3. ScopeShape' /\ Alone(t)
    BY <1>1, <1>2, WorkAlone DEF ScopeShape, Alone, RunWork
  <1>4. PropsInv(t)'
    BY <1>1, <1>2 DEF PropsInv, Owner, Logged
  <1>. QED
    BY <1>2, <1>3, <1>4, StillInside

(***************************************************************************)
(* Out again                                                               *)
(***************************************************************************)

\* Between two layers on the way out the entry stays, and so do the records before the logging.
LEMMA PropsKept ==
  ASSUME ScopeInv, NEW t \in Tasks, UNCHANGED <<kind, tags, props, log>>,
         pc[t] \notin {<<"in", 1>>, <<"in", 2>>, Done}, pc'[t] # <<"in", 1>>, pc'[t] # Done
  PROVE  PropsInv(t)'
  BY DEF ScopeInv, TaskInv, PropsInv, Owner, Logged

LEMMA NothingLoggedYet ==
  ASSUME ScopeInv, NEW t \in Tasks, ~Accounted(t), UNCHANGED log
  PROVE  OutcomeLogged(t)'
  BY DEF ScopeInv, TaskInv, OutcomeLogged

\* The places on the way out.
LEMMA OnTheWay ==
  ASSUME NEW t \in Tasks
  PROVE  /\ pc[t] = Working => ~Accounted(t) /\ ~Closed(t) /\ ~Closing(t)
         /\ pc[t] \in {<<"out", 4>>, <<"postgres", 4>>}
               => ~Accounted(t) /\ ~Closed(t) /\ Closing(t) /\ ~GoingIn(t)
                  /\ pc[t] # Done /\ pc[t] # Working
         /\ pc[t] = <<"out", 3>> => ~Accounted(t) /\ Closed(t) /\ ~GoingIn(t)
                                   /\ pc[t] # Done /\ pc[t] # Working
         /\ pc[t] \in {<<"out", 2>>, <<"out", 1>>}
               => Accounted(t) /\ Closed(t) /\ ~GoingIn(t) /\ pc[t] # Done /\ pc[t] # Working
         /\ pc[t] = Done => Accounted(t) /\ Closed(t) /\ ~Closing(t) /\ ~GoingIn(t) /\ pc[t] # Working
  BY DEF Accounted, Closed, Closing, GoingIn, Done, Working

LEMMA EndWorkScope ==
  ASSUME Inv, ScopeInv, NEW t \in Tasks, EndWork(t)
  PROVE  ScopeInv'
  <1>1. ScopeShape /\ TaskInv(t) /\ Shape
    BY DEF ScopeInv, Inv
  <1>2. pc[t] = Working /\ pc' = [pc EXCEPT ![t] = <<"out", 4>>]
    BY <1>1, Where, Whereto DEF EndWork
  <1>3. pc'[t] = <<"out", 4>> /\ UNCHANGED <<kind, tags, client, props, log, closing, session, pending>>
    BY <1>1, <1>2 DEF EndWork, ScopeShape
  <1>4. sent[t] = "none"
    BY <1>1, <1>2 DEF TaskInv, AnswerInv
  <1>5. /\ sent' \in [Tasks -> Statuses]
        /\ \A s \in Tasks \ {t} : sent'[s] = sent[s] /\ exc'[s] = exc[s]
    BY <1>1 DEF EndWork, ScopeShape, Shape, Statuses
  <1>6. /\ kind[t] = "actor" => sent'[t] = "none"
        /\ kind[t] = "http" => (sent'[t] = "none" <=> exc'[t] # "none")
    BY <1>1, <1>4 DEF EndWork, ScopeShape, Shape
  <1>7. ScopeShape' /\ Alone(t)
    <2>1. pc' \in [Tasks -> Ways] /\ \A s \in Tasks \ {t} : pc'[s] = pc[s]
      BY <1>1, <1>2, Apart DEF ScopeShape
    <2>2. ScopeShape'
      BY <1>1, <1>3, <1>5, <2>1 DEF ScopeShape
    <2>3. Alone(t)
      BY <1>1, <1>3, <1>5, <2>1 DEF Alone
    <2>. QED
      BY <2>2, <2>3
  <1>8. PropsInv(t)' /\ OutcomeLogged(t)'
    BY <1>2, <1>3, Apart, OnTheWay, PropsKept, NothingLoggedYet
  <1>9. ~Closed(t)' /\ ~GoingIn(t)' /\ pc'[t] # Working /\ pc'[t] # Done
    BY <1>3, Apart DEF Closed, GoingIn
  <1>10. ClosedInv(t)' /\ AnswerInv(t)'
    BY <1>3, <1>6, <1>9 DEF ClosedInv, AnswerInv
  <1>. QED
    BY <1>7, <1>8, <1>10, AloneSuffices DEF TaskInv

LEMMA CloseClickhouseScope ==
  ASSUME Inv, ScopeInv, NEW t \in Tasks, CloseClickhouse(t)
  PROVE  ScopeInv'
  <1>1. ScopeShape /\ TaskInv(t)
    BY DEF ScopeInv
  <1>2. pc[t] = <<"out", 4>> /\ pc' = [pc EXCEPT ![t] = <<"postgres", 4>>]
    <2>1. pc[t] = <<"out", 4>>
      BY <1>1, Where DEF CloseClickhouse
    <2>. QED
      BY <2>1 DEF CloseClickhouse, Move
  <1>3. /\ pc'[t] = <<"postgres", 4>> /\ client' = [client EXCEPT ![t] = FALSE]
        /\ UNCHANGED <<kind, tags, props, sent, log, closing, exc, session, pending>>
    BY <1>1, <1>2 DEF CloseClickhouse, ScopeShape, workVars, Scope
  <1>4. ScopeShape' /\ Alone(t) /\ ~client'[t]
    BY <1>1, <1>2, <1>3, Apart DEF ScopeShape, Alone
  <1>5. PropsInv(t)' /\ OutcomeLogged(t)'
    BY <1>2, <1>3, Apart, OnTheWay, PropsKept, NothingLoggedYet
  <1>6. ~Closed(t)' /\ ~GoingIn(t)' /\ pc'[t] # Working /\ pc'[t] # Done
    BY <1>3, Apart DEF Closed, GoingIn
  <1>7. Closing(t) /\ pc[t] # Done
    BY <1>2, OnTheWay
  <1>8. ClosedInv(t)' /\ AnswerInv(t)'
    BY <1>1, <1>3, <1>4, <1>6, <1>7 DEF ClosedInv, AnswerInv, TaskInv
  <1>. QED
    BY <1>4, <1>5, <1>8, AloneSuffices DEF TaskInv

\* When closing raises, what was sent and what is logged need not agree any more.
LEMMA CloseRaisesScope ==
  ASSUME Inv, ScopeInv, NEW t \in Tasks, CloseClickhouseRaises(t) \/ ClosePostgresRaises(t)
  PROVE  ScopeInv'
  <1>1. ScopeShape /\ TaskInv(t) /\ Shape
    BY DEF ScopeInv, Inv
  <1>2. /\ pc[t] \in {<<"out", 4>>, <<"postgres", 4>>}
        /\ pc' = [pc EXCEPT ![t] = <<"out", 3>>]
    BY <1>1, Where, Whereto DEF CloseClickhouseRaises, ClosePostgresRaises
  <1>3. /\ pc'[t] = <<"out", 3>> /\ closing' = [closing EXCEPT ![t] = "raised"]
        /\ UNCHANGED <<kind, tags, client, props, sent, log>>
    BY <1>1, <1>2 DEF CloseClickhouseRaises, ClosePostgresRaises, ScopeShape
  <1>4. \A s \in Tasks \ {t} :
            session'[s] = session[s] /\ pending'[s] = pending[s] /\ exc'[s] = exc[s]
    BY <1>1 DEF CloseClickhouseRaises, ClosePostgresRaises, ClearSession, Scope, AwaitRaises, Throw, Shape
  <1>5. ScopeShape' /\ Alone(t) /\ closing'[t] = "raised"
    BY <1>1, <1>2, <1>3, <1>4, Apart DEF ScopeShape, Alone
  <1>6. PropsInv(t)' /\ OutcomeLogged(t)'
    BY <1>2, <1>3, Apart, OnTheWay, PropsKept, NothingLoggedYet
  <1>7. ~GoingIn(t)' /\ pc'[t] # Working /\ pc'[t] # <<"postgres", 4>>
    BY <1>3, Apart DEF GoingIn
  <1>8. pc[t] # Done
    BY <1>2, OnTheWay
  <1>9. ClosedInv(t)' /\ AnswerInv(t)'
    BY <1>1, <1>3, <1>5, <1>7, <1>8 DEF ClosedInv, AnswerInv, TaskInv
  <1>. QED
    BY <1>5, <1>6, <1>9, AloneSuffices DEF TaskInv

LEMMA ClosePostgresScope ==
  ASSUME Inv, ScopeInv, NEW t \in Tasks, ClosePostgres(t)
  PROVE  ScopeInv'
  <1>1. ScopeShape /\ TaskInv(t) /\ Shape
    BY DEF ScopeInv, Inv
  <1>2. pc[t] = <<"postgres", 4>> /\ pc' = [pc EXCEPT ![t] = <<"out", 3>>]
    BY <1>1, Where, Whereto DEF ClosePostgres
  <1>3. /\ pc'[t] = <<"out", 3>>
        /\ UNCHANGED <<kind, tags, client, props, sent, log, closing, exc>>
    BY <1>1, <1>2 DEF ClosePostgres, ScopeShape
  <1>4. /\ session'[t] = "none" /\ pending'[t] = {}
        /\ \A s \in Tasks \ {t} : session'[s] = session[s] /\ pending'[s] = pending[s]
    BY <1>1 DEF ClosePostgres, ClearSession, Scope, Shape
  <1>5. ScopeShape' /\ Alone(t)
    BY <1>1, <1>2, <1>3, <1>4, Apart DEF ScopeShape, Alone
  <1>6. PropsInv(t)' /\ OutcomeLogged(t)'
    BY <1>2, <1>3, Apart, OnTheWay, PropsKept, NothingLoggedYet
  <1>7. ~GoingIn(t)' /\ pc'[t] # Working /\ pc'[t] # <<"postgres", 4>>
    BY <1>3, Apart DEF GoingIn
  <1>8. Closing(t) /\ pc[t] # Done
    BY <1>2, OnTheWay
  <1>9. ClosedInv(t)' /\ AnswerInv(t)'
    BY <1>1, <1>2, <1>3, <1>4, <1>7, <1>8 DEF ClosedInv, AnswerInv, TaskInv
  <1>. QED
    BY <1>5, <1>6, <1>9, AloneSuffices DEF TaskInv

LEMMA LogOutcomeScope ==
  ASSUME Inv, ScopeInv, NEW t \in Tasks, LogOutcome(t)
  PROVE  ScopeInv'
  <1>1. ScopeShape /\ TaskInv(t)
    BY DEF ScopeInv
  <1>2. pc[t] = <<"out", 3>> /\ pc' = [pc EXCEPT ![t] = <<"out", 2>>]
    BY <1>1, Where, Whereto DEF LogOutcome
  <1>3. /\ pc'[t] = <<"out", 2>>
        /\ UNCHANGED <<kind, tags, client, props, sent, closing, exc, session, pending>>
    BY <1>1, <1>2 DEF LogOutcome, ScopeShape, workVars
  <1>. DEFINE Agrees(status) ==
          \/ exc[t] = "none" /\ status = IF kind[t] = "actor" THEN "success" ELSE sent[t]
          \/ exc[t] = "unexpected" /\ status = "500"
  <1>4. /\ log' \in [Tasks -> SUBSET Records]
        /\ \A s \in Tasks \ {t} : log'[s] = log[s]
        /\ \A r \in log'[t] : r.props = t /\ Logged(t)
        /\ \A r \in log'[t] : r \in log[t] \/ Agrees(r.status)
    <2>1. ASSUME Logged(t), NEW status \in Statuses, Agrees(status), Record(t, "outcome", status)
          PROVE  <1>4!:
      <3>1. pc[t] \notin {<<"in", 1>>, Done} /\ PropsInv(t)
        BY <1>1, <1>2, Apart DEF TaskInv
      <3>. HIDE DEF Agrees
      <3>. QED
        BY <1>1, <2>1, <3>1, RecordOwned
    <2>2. CASE Logged(t) /\ exc[t] = "none"
      <3>1. Record(t, "outcome", IF kind[t] = "http" THEN sent[t] ELSE "success")
        BY <2>2 DEF LogOutcome
      <3>2. sent[t] \in Statuses /\ "success" \in Statuses /\ kind[t] \in {"http", "actor"}
        BY <1>1, <2>2 DEF ScopeShape, Statuses, Logged
      <3>. QED
        BY <2>1, <2>2, <3>1, <3>2
    <2>3. CASE Logged(t) /\ exc[t] = "unexpected"
      <3>1. Record(t, "outcome", "500") /\ "500" \in Statuses
        BY <2>3 DEF LogOutcome, Statuses
      <3>. QED
        BY <2>1, <2>3, <3>1
    <2>4. CASE UNCHANGED log
      BY <1>1, <2>4 DEF ScopeShape, TaskInv, PropsInv
    <2>. QED
      BY <2>2, <2>3, <2>4 DEF LogOutcome
  <1>5. ScopeShape'
    <2>1. log' \in [Tasks -> SUBSET Records]
      BY <1>4
    <2>2. pc' \in [Tasks -> Ways]
      BY <1>1, <1>2, Apart DEF ScopeShape
    <2>. QED
      BY <1>1, <1>3, <2>1, <2>2 DEF ScopeShape
  <1>6. Alone(t)
    <2>1. \A s \in Tasks \ {t} : log'[s] = log[s]
      BY <1>4
    <2>. QED
      BY <1>1, <1>2, <1>3, <2>1 DEF ScopeShape, Alone
  <1>7. PropsInv(t)'
    BY <1>1, <1>2, <1>3, <1>4, Apart DEF TaskInv, PropsInv, Owner, Logged
  <1>8. /\ Closed(t) /\ pc[t] # Done /\ Accounted(t)' /\ ~GoingIn(t)'
        /\ pc'[t] # Done /\ pc'[t] # Working /\ pc'[t] # <<"postgres", 4>>
    <2>1. Accounted(t)' /\ ~GoingIn(t)'
      BY <1>3 DEF Accounted, GoingIn
    <2>. QED
      BY <1>2, <1>3, <2>1, Apart, OnTheWay
  <1>9. ClosedInv(t)' /\ AnswerInv(t)'
    BY <1>1, <1>2, <1>3, <1>8 DEF ClosedInv, AnswerInv, TaskInv
  <1>10. OutcomeLogged(t)'
    <2>1. \A r \in log[t] : r.about # "outcome"
      BY <1>1, <1>2, OnTheWay DEF TaskInv, OutcomeLogged
    <2>2. \A r \in log'[t] : r.about = "outcome" => Agrees(r.status)
      BY <1>4, <2>1
    <2>. QED
      BY <1>3, <1>8, <2>2 DEF OutcomeLogged
  <1>. QED
    BY <1>5, <1>6, <1>7, <1>9, <1>10, AloneSuffices DEF TaskInv

\* The logging raises: on the way in, before there is anything to close, or behind the answer.
LEMMA LogRaisesScope ==
  ASSUME Inv, ScopeInv, NEW t \in Tasks, LogStartRaises(t) \/ LogOutcomeRaises(t)
  PROVE  ScopeInv'
  <1>1. ScopeShape /\ TaskInv(t) /\ Shape
    BY DEF ScopeInv, Inv
  <1>2. /\ pc[t] \in {<<"in", 3>>, <<"out", 3>>}
        /\ pc' = [pc EXCEPT ![t] = <<"out", 2>>]
    BY <1>1, Where, Whereto DEF LogStartRaises, LogOutcomeRaises
  <1>3. /\ pc'[t] = <<"out", 2>>
        /\ UNCHANGED <<kind, tags, client, props, sent, log, closing, session, pending>>
    BY <1>1, <1>2 DEF LogStartRaises, LogOutcomeRaises, ScopeShape
  <1>4. \A s \in Tasks \ {t} : exc'[s] = exc[s]
    BY <1>1 DEF LogStartRaises, LogOutcomeRaises, AwaitRaises, Throw, Shape
  <1>5. ScopeShape' /\ Alone(t)
    BY <1>1, <1>2, <1>3, <1>4, Apart DEF ScopeShape, Alone
  <1>6. /\ ~Accounted(t) /\ pc[t] # Done /\ (GoingIn(t) \/ Closed(t))
        /\ ~GoingIn(t)' /\ ~Closing(t)'
        /\ pc'[t] \notin {Working, Done, <<"postgres", 4>>, <<"out", 3>>}
    BY <1>2, <1>3, Apart DEF Accounted, GoingIn, Closed, Closing
  <1>7. PropsInv(t)' /\ OutcomeLogged(t)'
    BY <1>2, <1>3, <1>6, Apart, PropsKept, NothingLoggedYet
  <1>8. ~HasOutcome(t)'
    BY <1>1, <1>3, <1>6 DEF TaskInv, OutcomeLogged, HasOutcome
  <1>9. ClosedInv(t)' /\ AnswerInv(t)'
    BY <1>1, <1>3, <1>6, <1>8 DEF ClosedInv, AnswerInv, TaskInv
  <1>. QED
    BY <1>5, <1>7, <1>9, AloneSuffices DEF TaskInv

LEMMA PassTaggerScope ==
  ASSUME Inv, ScopeInv, NEW t \in Tasks, PassTagger(t)
  PROVE  ScopeInv'
  <1>1. ScopeShape /\ TaskInv(t)
    BY DEF ScopeInv
  <1>2. pc[t] = <<"out", 2>> /\ pc' = [pc EXCEPT ![t] = <<"out", 1>>]
    BY <1>1, Where, Whereto DEF PassTagger
  <1>3. /\ pc'[t] = <<"out", 1>>
        /\ UNCHANGED <<kind, tags, client, props, sent, log, closing, exc, session, pending>>
    BY <1>1, <1>2 DEF PassTagger, ScopeShape, workVars
  <1>4. ScopeShape' /\ Alone(t)
    BY <1>1, <1>2, <1>3, Apart DEF ScopeShape, Alone
  <1>5. PropsInv(t)'
    BY <1>2, <1>3, Apart, PropsKept
  <1>6. /\ Closed(t) /\ pc[t] # Done /\ Accounted(t)' /\ ~GoingIn(t)'
        /\ pc'[t] # Done /\ pc'[t] # Working /\ pc'[t] # <<"postgres", 4>>
    <2>1. Accounted(t)' /\ ~GoingIn(t)'
      BY <1>3 DEF Accounted, GoingIn
    <2>. QED
      BY <1>2, <1>3, <2>1, Apart, OnTheWay
  <1>7. ~Closing(t)' /\ pc'[t] # <<"out", 3>> /\ (HasOutcome(t)' <=> HasOutcome(t))
    BY <1>3 DEF Closing, HasOutcome
  <1>8. ClosedInv(t)' /\ AnswerInv(t)' /\ OutcomeLogged(t)'
    BY <1>1, <1>3, <1>6, <1>7 DEF ClosedInv, AnswerInv, OutcomeLogged, TaskInv
  <1>. QED
    BY <1>4, <1>5, <1>8, AloneSuffices DEF TaskInv

LEMMA ClearScope ==
  ASSUME Inv, ScopeInv, NEW t \in Tasks, Clear(t)
  PROVE  ScopeInv'
  <1>1. ScopeShape /\ TaskInv(t) /\ Shape
    BY DEF ScopeInv, Inv
  <1>2. pc[t] = <<"out", 1>> /\ pc' = [pc EXCEPT ![t] = Done]
    BY <1>1, Where, Whereto DEF Clear
  <1>3. pc'[t] = Done /\ UNCHANGED <<kind, tags, client, log, closing, exc, session, pending>>
    BY <1>1, <1>2 DEF Clear, ScopeShape, workVars
  <1>4. props' = IF kind[t] = "lifespan" THEN props ELSE [props EXCEPT ![t] = Nobody]
    BY DEF Clear, Scope
  <1>5. /\ \A s \in Tasks \ {t} : sent'[s] = sent[s]
        /\ sent' \in [Tasks -> Statuses]
        /\ sent[t] # "none" => sent'[t] = sent[t]
        /\ sent[t] = "none" /\ exc[t] = "none" => sent'[t] = "success"
        /\ sent[t] = "none" /\ exc[t] = "unexpected" => sent'[t] = "500"
    <2>1. sent' = IF sent[t] = "none" THEN [sent EXCEPT ![t] = Unanswered(t)] ELSE sent
      BY DEF Clear
    <2>2. exc[t] \in {"none", "expected", "unexpected", "cancelled"}
      BY <1>1 DEF Shape, Exceptions
    <2>3. /\ Unanswered(t) \in Statuses
          /\ exc[t] = "none" => Unanswered(t) = "success"
          /\ exc[t] = "unexpected" => Unanswered(t) = "500"
      BY <2>2 DEF Unanswered, Statuses
    <2>. QED
      BY <1>1, <2>1, <2>3 DEF ScopeShape
  <1>6. ScopeShape' /\ Alone(t)
    BY <1>1, <1>2, <1>3, <1>4, <1>5, Apart DEF ScopeShape, Alone
  <1>7. PropsInv(t)'
    <2>1. props[t] = Owner(t) /\ tags[t] = Owner(t) /\ \A r \in log[t] : r.props = t /\ Logged(t)
      BY <1>1, <1>2, Apart DEF TaskInv, PropsInv
    <2>2. props'[t] = Nobody
      BY <1>1, <1>4, <2>1 DEF ScopeShape, Owner
    <2>. QED
      BY <1>3, <2>1, <2>2 DEF PropsInv, Owner, Logged
  <1>8. /\ Closed(t) /\ pc[t] # Done /\ Accounted(t)' /\ ~GoingIn(t)'
        /\ pc'[t] # Working /\ pc'[t] # <<"postgres", 4>>
    <2>1. Accounted(t)' /\ ~GoingIn(t)'
      BY <1>3, Apart DEF Accounted, GoingIn
    <2>. QED
      BY <1>2, <1>3, <2>1, Apart, OnTheWay
  <1>9. ClosedInv(t)' /\ AnswerInv(t)'
    BY <1>1, <1>3, <1>8 DEF ClosedInv, AnswerInv, TaskInv
  <1>10. OutcomeLogged(t)'
    <2>. SUFFICES ASSUME NEW r \in log[t], r.about = "outcome", closing[t] = "fine" \/ kind[t] = "actor"
                  PROVE  r.status = sent'[t]
      BY <1>3, <1>8 DEF OutcomeLogged
    <2>1. kind[t] \in {"http", "actor"}
      BY <1>1 DEF TaskInv, PropsInv, Logged
    <2>2. \/ exc[t] = "none" /\ r.status = IF kind[t] = "actor" THEN "success" ELSE sent[t]
          \/ exc[t] = "unexpected" /\ r.status = "500"
      BY <1>1, <1>8 DEF TaskInv, OutcomeLogged
    <2>3. /\ kind[t] = "actor" => sent[t] = "none"
          /\ kind[t] # "actor" => (sent[t] = "none" <=> exc[t] # "none")
      BY <1>1, <1>8, <2>1 DEF TaskInv, AnswerInv, HasOutcome
    <2>. QED
      BY <1>5, <2>2, <2>3
  <1>. QED
    BY <1>6, <1>7, <1>9, <1>10, AloneSuffices DEF TaskInv

(***************************************************************************)
(* The theorems                                                            *)
(***************************************************************************)

LEMMA ScopeNext == Inv /\ ScopeInv /\ [Next]_vars => ScopeInv'
  <1>. SUFFICES ASSUME Inv, ScopeInv, [Next]_vars PROVE ScopeInv'
    OBVIOUS
  <1>1. ASSUME UNCHANGED vars PROVE ScopeInv'
    <2>1. ScopeShape'
      BY <1>1 DEF ScopeInv, ScopeShape, vars, scopeVars
    <2>2. ASSUME NEW t \in Tasks PROVE TaskInv(t)'
      <3>1. TaskInv(t)
        BY DEF ScopeInv
      <3>. QED
        BY <1>1, <3>1 DEF vars, workVars, scopeVars, TaskInv, PropsInv, Owner, Logged, ClosedInv,
             Closed, AnswerInv, GoingIn, Closing, OutcomeLogged, Accounted,
             HasOutcome
    <2>. QED
      BY <2>1, <2>2 DEF ScopeInv
  <1>2. ASSUME NEW t \in Tasks, Step(t) PROVE ScopeInv'
    BY <1>2, OpenScope, TagScope, LogStartScope, PassCloserScope, RunWorkScope, UseClickhouseScope,
       EndWorkScope, CloseClickhouseScope, CloseRaisesScope, ClosePostgresScope, LogOutcomeScope,
       LogRaisesScope, PassTaggerScope, ClearScope DEF Step
  <1>. QED
    BY <1>1, <1>2 DEF Next, AllDone

LEMMA ScopeHolds == Spec => []ScopeInv
  BY InvHolds, ScopeInit, ScopeNext, PTL DEF Spec

\* Every record of a task's logging, and every tag of Sentry while it works, carries the log
\* properties of that task (fastapi.py:46-54, dramatiq.py:40-45).
THEOREM PropertiesAreCarried == Spec => []LogsCarryProperties
  BY ScopeHolds, ScopeImplies, PTL

\* A task that has ended leaves no log properties behind, and no session and no client unless
\* closing one of them raised (db_connections_closer.py:7-9, log_properties_manager.py:32-33).
THEOREM NoneLeftBehind == Spec => []NothingLeftBehind
  BY ScopeHolds, ScopeImplies, PTL

\* The outcome in the log is the response the client got, or the result dramatiq saw, except
\* when closing the connections raised after the response was sent
\* (request_response_logging.py:60-65, task_logging.py:36-44).
THEOREM OutcomeIsTold == Spec => []LogTellsOutcome
  BY ScopeHolds, ScopeImplies, PTL

(***************************************************************************)
(* Types.  The bounds on blocks and writes are on how many all tasks have  *)
(* together, so that the type of one task's blocks is a matter of          *)
(* counting: its blocks, and the writes of each, are among all of them.    *)
(***************************************************************************)

Bounded ==
    /\ faults \in 0 .. MaxFaults
    /\ \A t \in Tasks : Len(stack[t]) <= MaxDepth
    /\ IsFiniteSet(AllBlocks) /\ Cardinality(AllBlocks) <= MaxBlocks
    /\ IsFiniteSet(AllWrites) /\ Cardinality(AllWrites) <= MaxWrites
    /\ db \subseteq AllWrites
    /\ \A t \in Tasks : pending[t] \subseteq AllWrites

\* All blocks and all writes, when the tasks have the blocks g: now, and after a step.
BlocksIn(g) == UNION {{t} \X DOMAIN g[t] : t \in Tasks}
WritesIn(g) == UNION {{<<b[1], b[2], i>> : i \in 1 .. g[b[1]][b[2]].writes} : b \in BlocksIn(g)}

LEMMA MembersOf ==
  ASSUME NEW g
  PROVE  /\ \A b : b \in BlocksIn(g) <=> \E t \in Tasks : \E k \in DOMAIN g[t] : b = <<t, k>>
         /\ \A w : w \in WritesIn(g) <=> \E t \in Tasks : \E k \in DOMAIN g[t] :
                                            \E i \in 1 .. g[t][k].writes : w = <<t, k, i>>
  <1>. DEFINE all == BlocksIn(g)
              writes == UNION {{<<b[1], b[2], i>> : i \in 1 .. g[b[1]][b[2]].writes} : b \in all}
  <1>1. \A b : b \in all <=> \E t \in Tasks : \E k \in DOMAIN g[t] : b = <<t, k>>
    BY DEF BlocksIn
  <1>. HIDE DEF all
  <1>2. ASSUME NEW w \in writes
        PROVE  \E t \in Tasks : \E k \in DOMAIN g[t] : \E i \in 1 .. g[t][k].writes : w = <<t, k, i>>
    <2>1. PICK b \in all : \E i \in 1 .. g[b[1]][b[2]].writes : w = <<b[1], b[2], i>>
      OBVIOUS
    <2>2. PICK t \in Tasks : \E k \in DOMAIN g[t] : b = <<t, k>>
      BY <1>1
    <2>3. PICK k \in DOMAIN g[t] : b = <<t, k>>
      BY <2>2
    <2>4. b[1] = t /\ b[2] = k
      BY <2>3
    <2>. QED
      BY <2>1, <2>4
  <1>3. ASSUME NEW t \in Tasks, NEW k \in DOMAIN g[t], NEW i \in 1 .. g[t][k].writes
        PROVE  <<t, k, i>> \in writes
    <2>. DEFINE b == <<t, k>>
    <2>1. b \in all /\ b[1] = t /\ b[2] = k
      BY <1>1
    <2>. HIDE DEF b
    <2>2. <<t, k, i>> \in {<<b[1], b[2], j>> : j \in 1 .. g[b[1]][b[2]].writes}
      BY <2>1
    <2>. QED
      BY <2>1, <2>2
  <1>4. writes = WritesIn(g)
    BY DEF all, WritesIn
  <1>. HIDE DEF writes
  <1>5. \A w : w \in writes <=> \E t \in Tasks : \E k \in DOMAIN g[t] :
                                   \E i \in 1 .. g[t][k].writes : w = <<t, k, i>>
    BY <1>2, <1>3
  <1>. QED
    BY <1>1, <1>4, <1>5 DEF all

LEMMA Members ==
  /\ \A b : b \in AllBlocks <=> \E t \in Tasks : \E k \in DOMAIN blocks[t] : b = <<t, k>>
  /\ \A w : w \in AllWrites <=> \E t \in Tasks : \E k \in DOMAIN blocks[t] :
                                   \E i \in 1 .. blocks[t][k].writes : w = <<t, k, i>>
  <1>1. AllBlocks = BlocksIn(blocks)
    BY DEF AllBlocks, BlocksIn
  <1>2. AllWrites = WritesIn(blocks)
    BY <1>1, Zenon DEF AllWrites, WritesOf, WritesIn
  <1>. QED
    BY <1>1, <1>2, MembersOf

LEMMA MembersNext ==
  /\ \A b : b \in AllBlocks' <=> \E t \in Tasks : \E k \in DOMAIN blocks'[t] : b = <<t, k>>
  /\ \A w : w \in AllWrites' <=> \E t \in Tasks : \E k \in DOMAIN blocks'[t] :
                                    \E i \in 1 .. blocks'[t][k].writes : w = <<t, k, i>>
  <1>1. AllBlocks' = BlocksIn(blocks')
    BY DEF AllBlocks, BlocksIn
  <1>2. AllWrites' = WritesIn(blocks')
    BY <1>1, Zenon DEF AllWrites, WritesOf, WritesIn
  <1>. QED
    BY <1>1, <1>2, MembersOf

\* A set that is counted by an initial segment of the naturals.
LEMMA CountedSubset ==
  ASSUME NEW S, IsFiniteSet(S), NEW n \in Nat,
         NEW f \in [1 .. n -> S], \A i, j \in 1 .. n : f[i] = f[j] => i = j
  PROVE  n <= Cardinality(S)
  <1>1. f \in Injection(1 .. n, S)
    BY DEF Injection, IsInjective
  <1>2. Cardinality(1 .. n) <= Cardinality(S)
    BY <1>1, FS_Injection
  <1>3. Cardinality(1 .. n) = n
    BY FS_Interval
  <1>. QED
    BY <1>2, <1>3

\* The blocks of one task, and the writes of one block, are no more than there are of all.
LEMMA BoundedEach ==
  ASSUME Inv, Bounded, NEW t \in Tasks
  PROVE  /\ Len(blocks[t]) <= MaxBlocks
         /\ \A k \in DOMAIN blocks[t] : blocks[t][k].writes <= MaxWrites
  <1>1. blocks[t] \in Seq(Block) /\ DOMAIN blocks[t] = 1 .. Len(blocks[t]) /\ Len(blocks[t]) \in Nat
    BY LenProperties DEF Inv, Shape
  <1>2. Cardinality(AllBlocks) \in Nat /\ Cardinality(AllWrites) \in Nat
    BY FS_CardinalityType DEF Bounded
  <1>3. Len(blocks[t]) <= Cardinality(AllBlocks)
    <2>. DEFINE n == Len(blocks[t])
                f == [k \in 1 .. n |-> <<t, k>>]
    <2>1. f \in [1 .. n -> AllBlocks]
      BY <1>1, Members
    <2>2. \A i, j \in 1 .. n : f[i] = f[j] => i = j
      OBVIOUS
    <2>3. n \in Nat /\ IsFiniteSet(AllBlocks)
      BY <1>1 DEF Bounded
    <2>. HIDE DEF f, n
    <2>4. n <= Cardinality(AllBlocks)
      BY <2>1, <2>2, <2>3, CountedSubset
    <2>. QED
      BY <2>4 DEF n
  <1>4. ASSUME NEW k \in DOMAIN blocks[t]
        PROVE  blocks[t][k].writes <= Cardinality(AllWrites)
    <2>. DEFINE n == blocks[t][k].writes
                f == [i \in 1 .. n |-> <<t, k, i>>]
    <2>1. f \in [1 .. n -> AllWrites]
      BY Members
    <2>2. \A i, j \in 1 .. n : f[i] = f[j] => i = j
      OBVIOUS
    <2>3. n \in Nat /\ IsFiniteSet(AllWrites)
      <3>1. blocks[t][k] \in Block
        BY <1>1, ElementOfSeq
      <3>. QED
        BY <3>1 DEF Block, Bounded
    <2>. HIDE DEF f, n
    <2>4. n <= Cardinality(AllWrites)
      BY <2>1, <2>2, <2>3, CountedSubset
    <2>. QED
      BY <2>4 DEF n
  <1>5. \A k \in DOMAIN blocks[t] : blocks[t][k].writes \in Nat
    <2>1. \A k \in DOMAIN blocks[t] : blocks[t][k] \in Block
      BY <1>1, ElementOfSeq
    <2>. QED
      BY <2>1 DEF Block
  <1>. QED
    BY <1>1, <1>2, <1>3, <1>4, <1>5, BoundsAssumption DEF Bounded

LEMMA BoundedInit == Init => Bounded
  <1>. SUFFICES ASSUME Init PROVE Bounded
    OBVIOUS
  <1>1. /\ \A t \in Tasks : stack[t] = <<>> /\ blocks[t] = <<>> /\ pending[t] = {}
        /\ db = {} /\ faults = 0
    BY DEF Init, WorkInit
  <1>2. AllBlocks = {} /\ AllWrites = {}
    BY <1>1, Members
  <1>. QED
    BY <1>1, <1>2, FS_EmptySet, BoundsAssumption DEF Bounded

\* A step that begins no block and writes nothing leaves the bounds alone.
LEMMA CountsKept ==
  ASSUME Bounded,
         \A t \in Tasks : DOMAIN blocks'[t] = DOMAIN blocks[t],
         \A t \in Tasks : \A k \in DOMAIN blocks[t] : blocks'[t][k].writes = blocks[t][k].writes,
         faults' \in 0 .. MaxFaults,
         \A t \in Tasks : Len(stack'[t]) <= MaxDepth,
         \A t \in Tasks : pending'[t] \in {pending[t], {}},
         db' = db \/ \E t \in Tasks : db' = db \cup pending[t]
  PROVE  Bounded'
  <1>1. ASSUME NEW b PROVE b \in AllBlocks' <=> b \in AllBlocks
    BY Members, MembersNext, Zenon
  <1>2. ASSUME NEW w PROVE w \in AllWrites' <=> w \in AllWrites
    <2>1. ASSUME NEW t \in Tasks, NEW k
          PROVE  (k \in DOMAIN blocks'[t] /\ \E i \in 1 .. blocks'[t][k].writes : w = <<t, k, i>>)
                    <=> (k \in DOMAIN blocks[t] /\ \E i \in 1 .. blocks[t][k].writes : w = <<t, k, i>>)
      OBVIOUS
    <2>2. w \in AllWrites <=> \E t \in Tasks : \E k : k \in DOMAIN blocks[t]
                                /\ \E i \in 1 .. blocks[t][k].writes : w = <<t, k, i>>
      BY Members, Zenon
    <2>3. w \in AllWrites' <=> \E t \in Tasks : \E k : k \in DOMAIN blocks'[t]
                                /\ \E i \in 1 .. blocks'[t][k].writes : w = <<t, k, i>>
      BY MembersNext, Zenon
    <2>. QED
      BY <2>1, <2>2, <2>3, Zenon
  <1>3. db' \subseteq AllWrites /\ \A t \in Tasks : pending'[t] \subseteq AllWrites
    BY DEF Bounded
  <1>4. AllBlocks' = AllBlocks /\ AllWrites' = AllWrites
    BY <1>1, <1>2
  <1>. QED
    BY <1>3, <1>4 DEF Bounded

\* An exception arises only as long as there may be one more.
LEMMA FaultsBounded ==
  ASSUME Bounded, [Next]_vars
  PROVE  faults' \in 0 .. MaxFaults
  <1>1. \/ faults' = faults
        \/ faults < MaxFaults /\ faults' = faults + 1
    <2>1. ASSUME NEW t \in Tasks, Step(t), ~RunWork(t)
          PROVE  faults' = faults \/ (faults < MaxFaults /\ faults' = faults + 1)
      BY <2>1 DEF Step, Open, Tag, LogStart, LogStartRaises, PassCloser, UseClickhouse, EndWork, CloseClickhouse,
             CloseClickhouseRaises, ClosePostgres, ClosePostgresRaises, LogOutcome, LogOutcomeRaises, PassTagger,
             Clear, workVars, AwaitRaises, Throw
    <2>2. ASSUME NEW t \in Tasks, Work(t)
          PROVE  faults' = faults \/ (faults < MaxFaults /\ faults' = faults + 1)
      BY <2>2 DEF Work, EnterAtomic, Write, StatementRaises, Raise, Swallow, ExitInner, ExitCommits,
             ExitCommitRaises, ExitRollsBack, ExitRollbackRaises, AwaitRaises, Throw
    <2>3. CASE UNCHANGED vars
      BY <2>3 DEF vars, workVars
    <2>. QED
      BY <2>1, <2>2, <2>3 DEF Next, AllDone, Step, RunWork
  <1>. QED
    BY <1>1, BoundsAssumption DEF Bounded

LEMMA EnterBounded ==
  ASSUME Inv, Bounded, NEW t \in Tasks, EnterAtomic(t)
  PROVE  Bounded'
  <1>. DEFINE new == [writes |-> 0, failed |-> FALSE, outcome |-> "open"]
  <1>1. /\ stack' = [stack EXCEPT ![t] = Append(@, InTransaction(t))]
        /\ Len(stack[t]) < MaxDepth
        /\ pending' = pending /\ db' = db /\ faults' = faults
        /\ stack[t] = <<>> => /\ Cardinality(AllBlocks) < MaxBlocks
                              /\ blocks' = [blocks EXCEPT ![t] = Append(@, new)]
        /\ stack[t] # <<>> => blocks' = blocks
    BY DEF EnterAtomic, Scope
  <1>2. /\ stack \in [Tasks -> Seq(BOOLEAN)] /\ blocks \in [Tasks -> Seq(Block)]
        /\ InTransaction(t) \in BOOLEAN /\ new \in Block /\ new.writes = 0
    BY DEF Inv, Shape, InTransaction, Block
  <1>. HIDE DEF new
  <1>3. \A s \in Tasks : Len(stack'[s]) <= MaxDepth
    <2>1. /\ Len(stack[t]) \in Nat /\ Len(stack'[t]) = Len(stack[t]) + 1
          /\ \A s \in Tasks \ {t} : stack'[s] = stack[s]
      BY <1>1, <1>2, AppendAt
    <2>2. Len(stack'[t]) <= MaxDepth
      BY <1>1, <2>1, BoundsAssumption
    <2>. QED
      BY <2>1, <2>2 DEF Bounded
  <1>4. CASE stack[t] # <<>>
    BY <1>1, <1>3, <1>4, CountsKept DEF Bounded
  <1>5. CASE stack[t] = <<>>
    <2>. DEFINE n == Len(blocks[t])
    <2>1. /\ \A s \in Tasks \ {t} : blocks'[s] = blocks[s]
          /\ n \in Nat /\ DOMAIN blocks[t] = 1 .. n /\ DOMAIN blocks'[t] = 1 .. n + 1
          /\ \A i \in 1 .. n : blocks'[t][i] = blocks[t][i]
          /\ blocks'[t][n + 1] = new
      <3>1. blocks' = [blocks EXCEPT ![t] = Append(@, new)]
        BY <1>1, <1>5
      <3>. QED
        BY <1>2, <3>1, AppendAt
    <2>. HIDE DEF n
    <2>2. DOMAIN blocks'[t] = DOMAIN blocks[t] \cup {n + 1} /\ n + 1 \notin DOMAIN blocks[t]
      BY <2>1
    <2>3. AllBlocks' = AllBlocks \cup {<<t, n + 1>>} /\ <<t, n + 1>> \notin AllBlocks
      BY <2>1, <2>2, Members, MembersNext
    <2>4. AllWrites' = AllWrites
      <3>1. \A i : i \notin 1 .. blocks'[t][n + 1].writes
        BY <1>2, <2>1
      <3>2. \A s \in Tasks : \A k \in DOMAIN blocks[s] :
               k \in DOMAIN blocks'[s] /\ blocks'[s][k] = blocks[s][k]
        BY <2>1, <2>2
      <3>3. \A s \in Tasks : \A k \in DOMAIN blocks'[s] :
               k \in DOMAIN blocks[s] \/ (s = t /\ k = n + 1)
        BY <2>1, <2>2
      <3>. QED
        <4>1. ASSUME NEW w, w \in AllWrites PROVE w \in AllWrites'
          <5>1. PICK s \in Tasks : \E k \in DOMAIN blocks[s] : \E i \in 1 .. blocks[s][k].writes : w = <<s, k, i>>
            BY <4>1, Members
          <5>2. PICK k \in DOMAIN blocks[s] : \E i \in 1 .. blocks[s][k].writes : w = <<s, k, i>>
            BY <5>1
          <5>3. PICK i \in 1 .. blocks[s][k].writes : w = <<s, k, i>>
            BY <5>2
          <5>4. k \in DOMAIN blocks'[s] /\ i \in 1 .. blocks'[s][k].writes
            BY <3>2
          <5>. QED
            BY <5>3, <5>4, MembersNext
        <4>2. ASSUME NEW w, w \in AllWrites' PROVE w \in AllWrites
          <5>1. PICK s \in Tasks : \E k \in DOMAIN blocks'[s] : \E i \in 1 .. blocks'[s][k].writes : w = <<s, k, i>>
            BY <4>2, MembersNext
          <5>2. PICK k \in DOMAIN blocks'[s] : \E i \in 1 .. blocks'[s][k].writes : w = <<s, k, i>>
            BY <5>1
          <5>3. PICK i \in 1 .. blocks'[s][k].writes : w = <<s, k, i>>
            BY <5>2
          <5>4. k \in DOMAIN blocks[s]
            BY <3>1, <3>3
          <5>5. i \in 1 .. blocks[s][k].writes
            BY <3>2, <5>4
          <5>. QED
            BY <5>3, <5>4, <5>5, Members
        <4>. QED
          BY <4>1, <4>2
    <2>5. IsFiniteSet(AllBlocks') /\ Cardinality(AllBlocks') = Cardinality(AllBlocks) + 1
      BY <2>3, FS_AddElement DEF Bounded
    <2>6. Cardinality(AllBlocks') <= MaxBlocks
      <3>1. Cardinality(AllBlocks) \in Nat
        BY FS_CardinalityType DEF Bounded
      <3>. QED
        BY <1>1, <1>5, <2>5, <3>1, BoundsAssumption
    <2>. QED
      BY <1>1, <1>3, <2>4, <2>5, <2>6 DEF Bounded
  <1>. QED
    BY <1>4, <1>5

LEMMA WriteBounded ==
  ASSUME Inv, Bounded, NEW t \in Tasks, Write(t)
  PROVE  Bounded'
  <1>. DEFINE k == Len(blocks[t])
              n == blocks[t][k].writes
              new == [blocks[t][k] EXCEPT !.writes = n + 1]
  <1>1. /\ stack[t] # <<>> /\ Cardinality(AllWrites) < MaxWrites
        /\ blocks' = [blocks EXCEPT ![t][k].writes = n + 1]
        /\ pending' = [pending EXCEPT ![t] = @ \cup {<<t, k, n + 1>>}]
        /\ db' = db /\ stack' = stack /\ faults' = faults
    BY DEF Write, Scope, Current
  <1>2. /\ blocks \in [Tasks -> Seq(Block)] /\ pending \in [Tasks -> SUBSET (Tasks \X Nat \X Nat)]
        /\ k \in DOMAIN blocks[t] /\ blocks[t][k] \in Block /\ n \in Nat
    <2>1. Shape /\ StackInv(t)
      BY DEF Inv
    <2>2. k \in DOMAIN blocks[t] /\ blocks[t][k] \in Block
      BY <1>1, <2>1, OpenBlock
    <2>. QED
      BY <2>1, <2>2 DEF Shape, Block
  <1>3. /\ \A s \in Tasks \ {t} : blocks'[s] = blocks[s]
        /\ DOMAIN blocks'[t] = DOMAIN blocks[t]
        /\ \A j \in DOMAIN blocks[t] : j # k => blocks'[t][j] = blocks[t][j]
        /\ blocks'[t][k].writes = n + 1
    <2>1. new \in Block /\ new.writes = n + 1
      <3>1. n + 1 \in Nat
        BY <1>2
      <3>. HIDE DEF n
      <3>. QED
        BY <1>2, <3>1 DEF Block
    <2>2. blocks' = [blocks EXCEPT ![t][k] = new]
      BY <1>1, <1>2
    <2>3. blocks'[t][k] = new /\ DOMAIN blocks'[t] = DOMAIN blocks[t]
      BY <1>2, <2>1, <2>2, UpdateAt
    <2>4. /\ \A s \in Tasks \ {t} : blocks'[s] = blocks[s]
          /\ \A j \in DOMAIN blocks[t] : j # k => blocks'[t][j] = blocks[t][j]
      BY <1>2, <2>1, <2>2, UpdateAt
    <2>. QED
      BY <2>1, <2>3, <2>4
  <1>4. 1 .. n + 1 = (1 .. n) \cup {n + 1} /\ n + 1 \notin 1 .. n
    BY <1>2
  <1>. HIDE DEF k, n, new
  <1>5. AllBlocks' = AllBlocks
    BY <1>3, Members, MembersNext
  <1>6. AllWrites' = AllWrites \cup {<<t, k, n + 1>>}
    <2>1. \A s \in Tasks : \A j \in DOMAIN blocks[s] : \A i :
             i \in 1 .. blocks'[s][j].writes
                <=> i \in 1 .. blocks[s][j].writes \/ (s = t /\ j = k /\ i = n + 1)
      <3>1. blocks[t][k].writes = n
        BY DEF n
      <3>. QED
        BY <1>3, <1>4, <3>1
    <2>2. \A s \in Tasks : DOMAIN blocks'[s] = DOMAIN blocks[s]
      BY <1>3
    <2>3. ASSUME NEW w
          PROVE  w \in AllWrites' <=> w \in AllWrites \/ w = <<t, k, n + 1>>
      <3>1. ASSUME w \in AllWrites' PROVE w \in AllWrites \/ w = <<t, k, n + 1>>
        <4>1. PICK s \in Tasks : \E j \in DOMAIN blocks'[s] : \E i \in 1 .. blocks'[s][j].writes : w = <<s, j, i>>
          BY <3>1, MembersNext
        <4>2. PICK j \in DOMAIN blocks'[s] : \E i \in 1 .. blocks'[s][j].writes : w = <<s, j, i>>
          BY <4>1
        <4>3. PICK i \in 1 .. blocks'[s][j].writes : w = <<s, j, i>>
          BY <4>2
        <4>4. j \in DOMAIN blocks[s]
          BY <2>2
        <4>5. i \in 1 .. blocks[s][j].writes \/ (s = t /\ j = k /\ i = n + 1)
          BY <2>1, <4>4
        <4>. QED
          BY <4>3, <4>4, <4>5, Members
      <3>2. ASSUME w \in AllWrites PROVE w \in AllWrites'
        <4>1. PICK s \in Tasks : \E j \in DOMAIN blocks[s] : \E i \in 1 .. blocks[s][j].writes : w = <<s, j, i>>
          BY <3>2, Members
        <4>2. PICK j \in DOMAIN blocks[s] : \E i \in 1 .. blocks[s][j].writes : w = <<s, j, i>>
          BY <4>1
        <4>3. PICK i \in 1 .. blocks[s][j].writes : w = <<s, j, i>>
          BY <4>2
        <4>4. j \in DOMAIN blocks'[s] /\ i \in 1 .. blocks'[s][j].writes
          BY <2>1, <2>2
        <4>. QED
          BY <4>3, <4>4, MembersNext
      <3>3. <<t, k, n + 1>> \in AllWrites'
        <4>1. k \in DOMAIN blocks'[t] /\ n + 1 \in 1 .. blocks'[t][k].writes
          BY <1>2, <2>1, <2>2
        <4>. QED
          BY <4>1, MembersNext
      <3>. QED
        BY <3>1, <3>2, <3>3
    <2>. QED
      BY <2>3
  <1>7. IsFiniteSet(AllWrites') /\ Cardinality(AllWrites') <= MaxWrites
    <2>1. /\ IsFiniteSet(AllWrites) /\ Cardinality(AllWrites) \in Nat
      BY FS_CardinalityType DEF Bounded
    <2>2. IsFiniteSet(AllWrites') /\ Cardinality(AllWrites') <= Cardinality(AllWrites) + 1
      <3>. DEFINE more == AllWrites \cup {<<t, k, n + 1>>}
      <3>1. /\ IsFiniteSet(more)
            /\ Cardinality(more) = IF <<t, k, n + 1>> \in AllWrites
                                   THEN Cardinality(AllWrites) ELSE Cardinality(AllWrites) + 1
        BY <2>1, FS_AddElement
      <3>2. AllWrites' = more
        BY <1>6
      <3>. HIDE DEF more
      <3>. QED
        BY <2>1, <3>1, <3>2
    <2>3. Cardinality(AllWrites') \in Nat
      BY <2>2, FS_CardinalityType
    <2>. QED
      BY <1>1, <2>1, <2>2, <2>3, BoundsAssumption
  <1>8. \A s \in Tasks : pending'[s] \subseteq AllWrites'
    BY <1>1, <1>2, <1>6 DEF Bounded
  <1>. QED
    BY <1>1, <1>5, <1>6, <1>7, <1>8 DEF Bounded

\* What closes or fails a block changes neither how many there are nor what they wrote.
LEMMA MarkKeepsCounts ==
  ASSUME Inv, NEW t \in Tasks, stack[t] # <<>>,
         \/ blocks' = blocks
         \/ blocks' = [blocks EXCEPT ![t][Current(t)].failed = TRUE]
         \/ \E outcome \in {"returned", "raised", "doubt"} :
               blocks' = [blocks EXCEPT ![t][Current(t)].outcome = outcome]
  PROVE  /\ \A s \in Tasks : DOMAIN blocks'[s] = DOMAIN blocks[s]
         /\ \A s \in Tasks : \A k \in DOMAIN blocks[s] : blocks'[s][k].writes = blocks[s][k].writes
  <1>. DEFINE k == Current(t)
  <1>1. /\ blocks \in [Tasks -> Seq(Block)] /\ k \in DOMAIN blocks[t] /\ blocks[t][k] \in Block
    <2>1. Shape /\ StackInv(t)
      BY DEF Inv
    <2>. QED
      BY <2>1, OpenBlock DEF Shape, Current
  <1>. HIDE DEF k
  <1>2. blocks' = blocks \/ \E e \in Block : e.writes = blocks[t][k].writes /\ blocks' = [blocks EXCEPT ![t][k] = e]
    <2>1. CASE blocks' = [blocks EXCEPT ![t][k].failed = TRUE]
      <3>. DEFINE e == [blocks[t][k] EXCEPT !.failed = TRUE]
      <3>1. e \in Block /\ e.writes = blocks[t][k].writes
        BY <1>1 DEF Block
      <3>2. blocks' = [blocks EXCEPT ![t][k] = e]
        BY <1>1, <2>1
      <3>. QED
        BY <3>1, <3>2
    <2>2. ASSUME NEW outcome \in {"returned", "raised", "doubt"},
                 blocks' = [blocks EXCEPT ![t][k].outcome = outcome]
          PROVE  \E e \in Block : e.writes = blocks[t][k].writes /\ blocks' = [blocks EXCEPT ![t][k] = e]
      <3>. DEFINE e == [blocks[t][k] EXCEPT !.outcome = outcome]
      <3>1. e \in Block /\ e.writes = blocks[t][k].writes
        BY <1>1 DEF Block
      <3>2. blocks' = [blocks EXCEPT ![t][k] = e]
        BY <1>1, <2>2
      <3>. QED
        BY <3>1, <3>2
    <2>. QED
      BY <2>1, <2>2 DEF k
  <1>3. CASE blocks' = blocks
    BY <1>3
  <1>4. ASSUME NEW e \in Block, e.writes = blocks[t][k].writes, blocks' = [blocks EXCEPT ![t][k] = e]
        PROVE  /\ \A s \in Tasks : DOMAIN blocks'[s] = DOMAIN blocks[s]
               /\ \A s \in Tasks : \A j \in DOMAIN blocks[s] : blocks'[s][j].writes = blocks[s][j].writes
    <2>1. /\ \A s \in Tasks \ {t} : blocks'[s] = blocks[s]
          /\ DOMAIN blocks'[t] = DOMAIN blocks[t]
          /\ \A j \in DOMAIN blocks[t] : j # k => blocks'[t][j] = blocks[t][j]
          /\ blocks'[t][k] = e
      BY <1>1, <1>4, UpdateAt
    <2>. QED
      BY <1>4, <2>1
  <1>. QED
    BY <1>2, <1>3, <1>4

LEMMA ExitBounded ==
  ASSUME Inv, Bounded, [Next]_vars, NEW t \in Tasks,
         \/ ExitInner(t) \/ ExitCommits(t) \/ ExitCommitRaises(t)
         \/ ExitRollsBack(t) \/ ExitRollbackRaises(t)
  PROVE  Bounded'
  <1>1. stack[t] # <<>> /\ \E outcome \in {"returned", "raised", "doubt"} : Leave(t, outcome)
    BY DEF ExitInner, ExitCommits, ExitCommitRaises, ExitRollsBack, ExitRollbackRaises,
           LeavesOwnTransaction
  <1>2. /\ \A s \in Tasks : DOMAIN blocks'[s] = DOMAIN blocks[s]
        /\ \A s \in Tasks : \A k \in DOMAIN blocks[s] : blocks'[s][k].writes = blocks[s][k].writes
    BY <1>1, MarkKeepsCounts DEF Leave
  <1>3. \A s \in Tasks : Len(stack'[s]) <= MaxDepth
    <2>1. stack \in [Tasks -> Seq(BOOLEAN)] /\ stack' = [stack EXCEPT ![t] = Front(@)]
      BY <1>1 DEF Inv, Shape, Leave
    <2>2. /\ \A s \in Tasks \ {t} : stack'[s] = stack[s]
          /\ Len(stack[t]) \in Nat \ {0} /\ Len(stack'[t]) = Len(stack[t]) - 1
      BY <1>1, <2>1, FrontAt
    <2>3. Len(stack'[t]) <= MaxDepth
      BY <2>2, BoundsAssumption DEF Bounded
    <2>. QED
      BY <2>2, <2>3 DEF Bounded
  <1>4. /\ \A s \in Tasks : pending'[s] \in {pending[s], {}}
        /\ db' = db \/ db' = db \cup pending[t]
    BY DEF ExitInner, ExitCommits, ExitCommitRaises, ExitRollsBack, ExitRollbackRaises,
           Scope, Inv, Shape
  <1>. QED
    BY <1>2, <1>3, <1>4, FaultsBounded, CountsKept

LEMMA BoundedNext == Inv /\ Bounded /\ [Next]_vars => Bounded'
  <1>. SUFFICES ASSUME Inv, Bounded, [Next]_vars PROVE Bounded'
    OBVIOUS
  <1>1. faults' \in 0 .. MaxFaults
    BY FaultsBounded
  <1>2. CASE /\ UNCHANGED <<stack, blocks, db>>
             /\ \A t \in Tasks : pending'[t] \in {pending[t], {}}
    <2>1. \A t \in Tasks : Len(stack'[t]) <= MaxDepth
      BY <1>2 DEF Bounded
    <2>. QED
      BY <1>1, <1>2, <2>1, CountsKept
  <1>3. CASE UNCHANGED vars
    BY <1>2, <1>3 DEF vars, workVars
  <1>4. ASSUME NEW t \in Tasks, RunWork(t) PROVE Bounded'
    <2>1. Work(t)
      BY <1>4 DEF RunWork
    <2>2. ASSUME Swallow(t) \/ \E e \in Exceptions : Raise(t, e) PROVE Bounded'
      BY <1>2, <2>2 DEF Swallow, Raise
    <2>3. ASSUME StatementRaises(t) PROVE Bounded'
      <3>1. /\ stack[t] # <<>> /\ stack' = stack /\ pending' = pending /\ db' = db
            /\ blocks' = [blocks EXCEPT ![t][Current(t)].failed = TRUE]
        BY <2>3 DEF StatementRaises
      <3>2. /\ \A s \in Tasks : DOMAIN blocks'[s] = DOMAIN blocks[s]
            /\ \A s \in Tasks : \A k \in DOMAIN blocks[s] : blocks'[s][k].writes = blocks[s][k].writes
        BY <3>1, MarkKeepsCounts
      <3>3. \A s \in Tasks : Len(stack'[s]) <= MaxDepth
        BY <3>1 DEF Bounded
      <3>. QED
        BY <1>1, <3>1, <3>2, <3>3, CountsKept
    <2>. QED
      BY <2>1, <2>2, <2>3, EnterBounded, WriteBounded, ExitBounded DEF Work
  <1>5. ASSUME NEW t \in Tasks, Step(t), ~RunWork(t) PROVE Bounded'
    <2>1. UNCHANGED <<stack, blocks, db>>
      BY <1>5 DEF Step, Open, Tag, LogStart, LogStartRaises, PassCloser, UseClickhouse, EndWork, CloseClickhouse,
             CloseClickhouseRaises, ClosePostgres, ClosePostgresRaises, LogOutcome, LogOutcomeRaises, PassTagger,
             Clear, workVars
    <2>2. pending' = pending \/ pending' = [pending EXCEPT ![t] = {}]
      BY <1>5 DEF Step, Open, Tag, LogStart, LogStartRaises, PassCloser, UseClickhouse, EndWork, CloseClickhouse,
             CloseClickhouseRaises, ClosePostgres, ClosePostgresRaises, LogOutcome, LogOutcomeRaises, PassTagger,
             Clear, workVars, ClearSession, Scope
    <2>3. \A s \in Tasks : pending'[s] \in {pending[s], {}}
      BY <2>2 DEF Inv, Shape
    <2>. QED
      BY <1>2, <2>1, <2>3
  <1>. QED
    BY <1>3, <1>4, <1>5 DEF Next, AllDone

\* Every variable of the work and of the layers keeps its type: sessions have the states they are
\* given, inner blocks never own a transaction, and no entry of a registry belongs to anybody but
\* a task (postgres.py:25-52, fastapi.py:46-54, facade.py:114-130).
THEOREM TypeCorrect == Spec => []TypeOK
  <1>1. Inv /\ Bounded /\ ScopeInv => TypeOK
    <2>. SUFFICES ASSUME Inv, Bounded, ScopeInv PROVE TypeOK
      OBVIOUS
    <2>1. ASSUME NEW t \in Tasks
          PROVE  /\ stack[t] \in BoundedSeq(BOOLEAN, MaxDepth)
                 /\ \A i \in 2 .. Len(stack[t]) : stack[t][i]
                 /\ blocks[t] \in BoundedSeq(Blocks, MaxBlocks)
      <3>1. /\ stack[t] \in Seq(BOOLEAN) /\ blocks[t] \in Seq(Block) /\ StackInv(t)
            /\ Len(stack[t]) <= MaxDepth
        BY DEF Inv, Shape, Bounded
      <3>2. stack[t] \in [1 .. Len(stack[t]) -> BOOLEAN] /\ Len(stack[t]) \in 0 .. MaxDepth
        BY <3>1, LenProperties, BoundsAssumption
      <3>3. Len(blocks[t]) \in 0 .. MaxBlocks /\ DOMAIN blocks[t] = 1 .. Len(blocks[t])
        BY <3>1, BoundedEach, LenProperties, BoundsAssumption
      <3>4. ASSUME NEW k \in 1 .. Len(blocks[t]) PROVE blocks[t][k] \in Blocks
        <4>1. blocks[t][k] \in Block /\ blocks[t][k].writes <= MaxWrites
          BY <3>1, <3>3, BoundedEach, ElementOfSeq
        <4>2. blocks[t][k].writes \in 0 .. MaxWrites
          BY <4>1, BoundsAssumption DEF Block
        <4>. QED
          BY <4>1, <4>2 DEF Block, Blocks
      <3>5. blocks[t] \in [1 .. Len(blocks[t]) -> Blocks]
        BY <3>1, <3>4, LenProperties
      <3>. QED
        BY <3>1, <3>2, <3>3, <3>5 DEF BoundedSeq, SeqOf, StackInv
    <2>2. AllWrites \subseteq Writes
      <3>. SUFFICES ASSUME NEW t \in Tasks, NEW k \in DOMAIN blocks[t],
                           NEW i \in 1 .. blocks[t][k].writes
                    PROVE  <<t, k, i>> \in Writes
        BY Members
      <3>1. /\ blocks[t] \in Seq(Block)
            /\ DOMAIN blocks[t] = 1 .. Len(blocks[t]) /\ Len(blocks[t]) \in Nat
        BY LenProperties DEF Inv, Shape
      <3>2. blocks[t][k] \in Block
        BY <3>1, ElementOfSeq
      <3>3. k \in 1 .. MaxBlocks /\ i \in 1 .. MaxWrites
        BY <3>1, <3>2, BoundedEach, BoundsAssumption DEF Block
      <3>. QED
        BY <3>3 DEF Writes
    <2>3. WorkTypeOK
      <3>1. pending \in [Tasks -> SUBSET Writes] /\ db \subseteq Writes
        BY <2>2 DEF Inv, Shape, Bounded
      <3>. QED
        BY <2>1, <3>1 DEF WorkTypeOK, Inv, Shape, Bounded
    <2>4. pc \in [Tasks -> {"in", "out", "postgres"} \X (1 .. Len(Layers("actor"))) \cup {Working, Done}]
      <3>1. Len(Layers("actor")) = 4
        BY ActorLayers DEF InOrder
      <3>2. Ways \subseteq {"in", "out", "postgres"} \X (1 .. 4) \cup {Working, Done}
        BY DEF Ways
      <3>. QED
        BY <3>1, <3>2 DEF ScopeInv, ScopeShape
    <2>. QED
      BY <2>3, <2>4 DEF TypeOK, ScopeInv, ScopeShape
  <1>2. Init => Bounded
    BY BoundedInit
  <1>. QED
    BY <1>1, <1>2, BoundedNext, InvHolds, ScopeHolds, PTL DEF Spec
==============================================================================

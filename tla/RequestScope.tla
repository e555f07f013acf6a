----------------------------- MODULE RequestScope -----------------------------
(***************************************************************************)
(* What surrounds the work of a task: the ASGI middlewares of a request    *)
(* (config/entrypoints/fastapi.py) and the actor middlewares that          *)
(* setup_tasks (share/dramatiq/facade.py) wraps around the function of     *)
(* every actor.  A task enters its layers from the outside in, works, and  *)
(* leaves them from the inside out, exceptions included.  Inside them run, *)
(* for a request, the exception handlers and the endpoint, for an actor    *)
(* the actor function: UnitOfWork is that innermost work.  The layer of    *)
(* CORS keeps no state and is left out.  The scope of Sentry is external:  *)
(* every task has one of its own.                                          *)
(*                                                                         *)
(* Starlette is external: the middleware that was added last is outermost, *)
(* ExceptionMiddleware runs the registered handlers inside all of them,    *)
(* ServerErrorMiddleware answers 500 outside them, when nothing has been   *)
(* sent yet.                                                               *)
(***************************************************************************)
EXTENDS UnitOfWork, SequencesExt

CONSTANT
    Mixes       \* which kinds of tasks occur together in a process

Kinds == {"http",        \* a request that is logged
             "options",     \* a request that is not
             "lifespan",    \* an ASGI scope that is no request
             "actor"}       \* a run of a dramatiq actor

ASSUME MixesAssumption == Mixes \subseteq [Tasks -> Kinds]

\* app.add_middleware, in the order of the calls.
AddedMiddlewares == <<"closer", "logging", "tagger", "properties">>

\* DramatiqFacade.actor_middlewares, the first of which is meant to be outermost.
ActorMiddlewares == <<"properties", "tagger", "logging", "closer">>

\* fn = middleware.wrap(fn), for every middleware of the list from the last to the first.
WrapAll(fn) ==
    LET middlewares == Reverse(ActorMiddlewares)
        wrapped[i \in 0 .. Len(middlewares)] ==
            IF i = 0 THEN fn ELSE <<middlewares[i]>> \o wrapped[i - 1]
    IN  wrapped[Len(middlewares)]

\* Mutant: whoever calls setup_tasks again wraps again.
SetupTasksAgain(process) == [isSetup |-> TRUE, fn |-> WrapAll(process.fn)]

\* setup_tasks: imports the actors and wraps them, once for a process.
SetupTasks(process) ==
    IF process.isSetup THEN process ELSE [isSetup |-> TRUE, fn |-> WrapAll(process.fn)]

\* Every process sets its tasks up when it imports the facade, and again in its own entrypoint.
Booted == SetupTasks(SetupTasks([isSetup |-> FALSE, fn |-> <<>>]))

\* The layers around the work, outermost first.
Layers(k) == IF k = "actor" THEN Booted.fn ELSE Reverse(AddedMiddlewares)

VARIABLES
    pc,         \* the layer a task is entering or leaving, or its work
    kind,       \* what it is
    tags,       \* whose log properties its Sentry scope has as tags
    client,     \* whether the ClickHouse registry has a client for each scope
    props,      \* the entry of the log properties registry: a task, or Nobody
    sent,       \* the response that was sent, or the result an actor hands to dramatiq
    log,        \* the records of a task's logging middleware
    closing     \* history: "raised" when closing the task's connections raised

scopeVars == <<pc, kind, tags, client, props, sent, log, closing>>
vars == <<workVars, scopeVars>>

Nobody == "nobody"

Statuses == {"none", "success", "4xx", "500"}

Records == [about : {"start", "outcome"}, status : Statuses, props : Tasks \cup {Nobody}]

Working == <<"work", 0>>
Done == <<"done", 0>>

TypeOK ==
    /\ WorkTypeOK
    /\ pc \in [Tasks -> {"in", "out", "postgres"} \X (1 .. Len(Layers("actor"))) \cup {Working, Done}]
    /\ kind \in [Tasks -> Kinds]
    /\ tags \in [Tasks -> Tasks \cup {Nobody}]
    /\ client \in [Tasks -> BOOLEAN]
    /\ props \in [Tasks -> Tasks \cup {Nobody}]
    /\ sent \in [Tasks -> Statuses]
    /\ log \in [Tasks -> SUBSET Records]
    /\ closing \in [Tasks -> {"fine", "raised"}]

Init ==
    /\ WorkInit
    /\ pc = [t \in Tasks |-> <<"in", 1>>]
    /\ kind \in Mixes
    /\ tags = [t \in Tasks |-> Nobody]
    /\ client = [s \in Tasks |-> FALSE]
    /\ props = [s \in Tasks |-> Nobody]
    /\ sent = [t \in Tasks |-> "none"]
    /\ log = [t \in Tasks |-> {}]
    /\ closing = [t \in Tasks |-> "fine"]

Move(t, to) == pc' = [pc EXCEPT ![t] = to]

At(t, way, layer) == pc[t][1] = way /\ Layers(kind[t])[pc[t][2]] = layer

\* On to the next layer inside, or to the work.
Inward(t) == Move(t, IF pc[t][2] = Len(Layers(kind[t])) THEN Working ELSE <<"in", pc[t][2] + 1>>)

\* Back to the next layer outside, or out of the last one.
Outward(t) == Move(t, IF pc[t][2] = 1 THEN Done ELSE <<"out", pc[t][2] - 1>>)

Logged(t) == kind[t] \in {"http", "actor"}

Record(t, about, status) ==
    log' = [log EXCEPT ![t] = @ \cup {[about |-> about, status |-> status, props |-> props[Scope(t)]]}]

\* LogPropertiesManagerMiddleware opens the entry of the task; a lifespan has none.
Open(t) ==
    /\ At(t, "in", "properties")
    /\ Inward(t)
    /\ props' = IF kind[t] = "lifespan" THEN props ELSE [props EXCEPT ![Scope(t)] = t]
    /\ UNCHANGED <<workVars, kind, tags, client, sent, log, closing>>

\* The logging middleware records the REQUEST, or the Started task, and calls on.
LogStart(t) ==
    /\ At(t, "in", "logging")
    /\ Inward(t)
    /\ IF Logged(t) THEN Record(t, "start", "none") ELSE UNCHANGED log
    /\ UNCHANGED <<workVars, kind, tags, client, props, sent, closing>>

\* Reading the body for the REQUEST record raises, or making the record does: nothing is recorded,
\* and the application is not called.
LogStartRaises(t) ==
    /\ At(t, "in", "logging")
    /\ Outward(t)
    /\ kind[t] = "http"
    /\ AwaitRaises(t)
    /\ UNCHANGED <<session, pending, db, stack, blocks, kind, tags, client, props, sent, log, closing>>

\* SentryTagsMiddleware of a request: reads the registry, which has no entry for a lifespan.
Tag(t) ==
    /\ At(t, "in", "tagger")
    /\ Inward(t)
    /\ tags' = [tags EXCEPT ![t] = props[Scope(t)]]
    /\ UNCHANGED <<workVars, kind, client, props, sent, log, closing>>

\* It has nothing to do on the way out.
PassTagger(t) ==
    /\ At(t, "out", "tagger")
    /\ Outward(t)
    /\ UNCHANGED <<workVars, kind, tags, client, props, sent, log, closing>>

\* The closer has nothing to do on the way in.
PassCloser(t) ==
    /\ At(t, "in", "closer")
    /\ Inward(t)
    /\ UNCHANGED <<workVars, kind, tags, client, props, sent, log, closing>>

(***************************************************************************)
(* The work itself: Atomic blocks, and queries of the task's ClickHouse    *)
(* client.  The application registers no lifespan handlers.                *)
(***************************************************************************)
RunWork(t) ==
    /\ pc[t] = Working
    /\ kind[t] # "lifespan"
    /\ Work(t)
    /\ UNCHANGED scopeVars

UseClickhouse(t) ==
    /\ pc[t] = Working
    /\ kind[t] # "lifespan"
    /\ exc[t] = "none"
    /\ ~client[Scope(t)]
    /\ client' = [client EXCEPT ![Scope(t)] = TRUE]
    /\ UNCHANGED <<workVars, pc, kind, tags, props, sent, log, closing>>

(***************************************************************************)
(* The work is over.  A request whose endpoint returned, or raised an      *)
(* error that has a handler, is answered here, inside all middlewares;     *)
(* every other exception goes on outwards, through the finally blocks.     *)
(***************************************************************************)
EndWork(t) ==
    /\ pc[t] = Working
    /\ Move(t, <<"out", Len(Layers(kind[t]))>>)
    /\ stack[t] = <<>>
    /\ \/ /\ exc[t] = "none"
          /\ sent' = [sent EXCEPT ![t] = IF kind[t] = "actor" THEN "none" ELSE "success"]
          /\ UNCHANGED exc
       \/ /\ exc[t] = "expected"
          /\ kind[t] \in {"http", "options"}
          /\ sent' = [sent EXCEPT ![t] = "4xx"]
          /\ exc' = [exc EXCEPT ![t] = "none"]
       \/ /\ exc[t] # "none"
          /\ exc[t] = "expected" => kind[t] \notin {"http", "options"}
          /\ UNCHANGED <<sent, exc>>
    /\ UNCHANGED <<session, pending, db, stack, blocks, faults, kind, tags, client, props, log, closing>>

\* close_db_connections: the ClickHouse client first.
CloseClickhouse(t) ==
    /\ At(t, "out", "closer")
    /\ Move(t, <<"postgres", pc[t][2]>>)
    /\ client' = [client EXCEPT ![Scope(t)] = FALSE]
    /\ UNCHANGED <<workVars, kind, tags, props, sent, log, closing>>

\* Closing the client raises, or is cancelled: the session is not closed any more.
CloseClickhouseRaises(t) ==
    /\ At(t, "out", "closer")
    /\ Outward(t)
    /\ client[Scope(t)]
    /\ closing' = [closing EXCEPT ![t] = "raised"]
    /\ AwaitRaises(t)
    /\ UNCHANGED <<session, pending, db, stack, blocks, kind, tags, client, props, sent, log>>

\* Mutant: the closer forgets the PostgreSQL sessions.
ClosePostgresForgets(t) ==
    /\ At(t, "postgres", "closer")
    /\ Outward(t)
    /\ UNCHANGED <<workVars, kind, tags, client, props, sent, log, closing>>

ClosePostgres(t) ==
    /\ At(t, "postgres", "closer")
    /\ Outward(t)
    /\ ClearSession(t)
    /\ UNCHANGED <<db, stack, blocks, exc, faults, kind, tags, client, props, sent, log, closing>>

\* Closing the session raises; whether the registry forgot it is not for the code to say.
ClosePostgresRaises(t) ==
    /\ At(t, "postgres", "closer")
    /\ Outward(t)
    /\ session[Scope(t)] # "none"
    /\ ClearSession(t) \/ UNCHANGED <<session, pending>>
    /\ closing' = [closing EXCEPT ![t] = "raised"]
    /\ AwaitRaises(t)
    /\ UNCHANGED <<db, stack, blocks, kind, tags, client, props, sent, log>>

\* Mutant: the RESPONSE is recorded in a finally block, exception or not.
LogSent(t) ==
    /\ At(t, "out", "logging")
    /\ Outward(t)
    /\ IF kind[t] = "http" THEN Record(t, "outcome", sent[t]) ELSE UNCHANGED log
    /\ UNCHANGED <<workVars, kind, tags, client, props, sent, closing>>

(***************************************************************************)
(* The logging middleware records the outcome it sees: the RESPONSE with   *)
(* the status that was sent, or 500 for an Exception; Finished or Failed   *)
(* for an actor, nothing for Retry.  A cancellation is not recorded.       *)
(***************************************************************************)
LogOutcome(t) ==
    /\ At(t, "out", "logging")
    /\ Outward(t)
    /\ \/ /\ Logged(t)
          /\ exc[t] = "none"
          /\ Record(t, "outcome", IF kind[t] = "http" THEN sent[t] ELSE "success")
       \/ /\ Logged(t)
          /\ exc[t] = "unexpected"
          /\ Record(t, "outcome", "500")
       \/ /\ ~Logged(t) \/ exc[t] \in {"expected", "cancelled"}
          /\ UNCHANGED log
    /\ UNCHANGED <<workVars, kind, tags, client, props, sent, closing>>

\* Making the RESPONSE record raises, behind the answer: no outcome is recorded.
LogOutcomeRaises(t) ==
    /\ At(t, "out", "logging")
    /\ Outward(t)
    /\ kind[t] = "http"
    /\ exc[t] = "none"
    /\ Throw(t, "unexpected")
    /\ UNCHANGED <<session, pending, db, stack, blocks, kind, tags, client, props, sent, log, closing>>

\* What becomes of a task that was not answered within its layers.
Unanswered(t) ==
    CASE exc[t] = "none"       -> "success"
      [] exc[t] = "expected"   -> "4xx"
      [] exc[t] = "unexpected" -> "500"
      [] exc[t] = "cancelled"  -> "none"

(***************************************************************************)
(* LogPropertiesManagerMiddleware clears the entry.  Outside it an         *)
(* exception becomes a 500 if nothing was sent, and an actor's outcome is  *)
(* what dramatiq sees: "4xx" stands for a Retry.                           *)
(***************************************************************************)
Clear(t) ==
    /\ At(t, "out", "properties")
    /\ Outward(t)
    /\ props' = IF kind[t] = "lifespan" THEN props ELSE [props EXCEPT ![Scope(t)] = Nobody]
    /\ sent' = IF sent[t] = "none" THEN [sent EXCEPT ![t] = Unanswered(t)] ELSE sent
    /\ UNCHANGED <<workVars, kind, tags, client, log, closing>>

\* Every task has ended.
AllDone == (\A t \in Tasks : pc[t] = Done) /\ UNCHANGED vars

Step(t) ==
    \/ Open(t) \/ Tag(t) \/ LogStart(t) \/ LogStartRaises(t) \/ PassCloser(t) \/ RunWork(t) \/ UseClickhouse(t) \/ EndWork(t)
    \/ CloseClickhouse(t) \/ CloseClickhouseRaises(t)
    \/ ClosePostgres(t) \/ ClosePostgresRaises(t)
    \/ LogOutcome(t) \/ LogOutcomeRaises(t) \/ PassTagger(t) \/ Clear(t)

Next == (\E t \in Tasks : Step(t)) \/ AllDone

Spec == Init /\ [][Next]_vars
-----------------------------------------------------------------------------
(***************************************************************************)
(* Every record of a task's logging middleware, and every tag of Sentry    *)
(* while the task works, carries the log properties of that task, not      *)
(* another's and not none (LOGGING.md: "automatically enriches every log   *)
(* record with LogProperties of the current request"; fastapi.py:46-54,    *)
(* dramatiq.py:40-45).                                                     *)
(***************************************************************************)
LogsCarryProperties ==
    \A t \in Tasks :
        /\ \A r \in log[t] : r.props = t
        /\ pc[t] = Working => tags[t] = IF kind[t] = "lifespan" THEN Nobody ELSE t

(***************************************************************************)
(* A task that has ended leaves no log properties behind, and no session   *)
(* and no client unless closing one of them raised                         *)
(* (db_connections_closer.py:7-9, log_properties_manager.py:32-33).        *)
(***************************************************************************)
NothingLeftBehind ==
    \A t \in Tasks : pc[t] = Done =>
        /\ props[t] = Nobody
        /\ closing[t] = "fine" => session[t] = "none" /\ ~client[t] /\ pending[t] = {}

(***************************************************************************)
(* The log tells what happened to a task: its outcome is the response the  *)
(* client got, or the result dramatiq saw, except when closing the         *)
(* connections raised after the response was sent                          *)
(* (request_response_logging.py:60-65, task_logging.py:36-44).             *)
(***************************************************************************)
LogTellsOutcome ==
    \A t \in Tasks : pc[t] = Done => \A r \in log[t] :
        (r.about = "outcome" /\ (closing[t] = "fine" \/ kind[t] = "actor")) => r.status = sent[t]
=============================================================================

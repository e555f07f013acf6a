------------------------------ MODULE TaskQueue ------------------------------
(***************************************************************************)
(* The life of the registration e-mail's message: sent to the broker by    *)
(* send_task (share/dramatiq/facade.py), executed by a dramatiq worker     *)
(* under the actor options of                                              *)
(* app/auth_context/infrastructure/ports/tasks/email_notification.py and   *)
(* the middleware of config/entrypoints/dramatiq.py.  The broker and the   *)
(* worker are dramatiq's, external; delivery is at least once: a message a *)
(* worker had taken when it died is handed out again.                      *)
(*                                                                         *)
(* There is one message per e-mail address: the one its registration sent. *)
(* The module has no behaviour of its own; Accounts composes its actions   *)
(* with the requests that send the messages.                               *)
(***************************************************************************)
EXTENDS Naturals

CONSTANTS
    Emails,     \* addresses, which name the messages
    MaxRetries, \* max_retries of the actor
    MaxFaults   \* bound: calls that raise and processes that die

ASSUME RetriesAssumption == MaxRetries \in Nat /\ MaxFaults \in Nat

VARIABLES
    mail,       \* where the message of each address is
    retries,    \* its "retries" option
    tooOld,     \* max_age has passed since it was created
    sent,       \* history: how often the e-mail went out
    lostRuns,   \* history: how often a worker died with the message
    faults      \* how many of the MaxFaults have happened

queueVars == <<mail, retries, tooOld, sent, lostRuns>>

\* "mailed" is a running actor that has sent its e-mail and not returned yet.
MailStates == {"none", "queued", "running", "mailed", "delayed",
               "done", "dead"}

QueueTypeOK ==
    /\ mail \in [Emails -> MailStates]
    /\ retries \in [Emails -> 0..MaxRetries]
    /\ tooOld \in [Emails -> BOOLEAN]
    /\ sent \in [Emails -> Nat]
    /\ lostRuns \in [Emails -> 0..MaxFaults]
    /\ faults \in 0..MaxFaults

QueueInit ==
    /\ mail = [e \in Emails |-> "none"]
    /\ retries = [e \in Emails |-> 0]
    /\ tooOld = [e \in Emails |-> FALSE]
    /\ sent = [e \in Emails |-> 0]
    /\ lostRuns = [e \in Emails |-> 0]
    /\ faults = 0

Fault ==
    /\ faults < MaxFaults
    /\ faults' = faults + 1

MoveMail(e, from, to) ==
    /\ mail[e] \in from
    /\ mail' = [mail EXCEPT ![e] = to]

\* send_task: the broker stores a fresh message.
SendTask(e) ==
    /\ mail' = [mail EXCEPT ![e] = "queued"]
    /\ UNCHANGED <<retries, tooOld, sent, lostRuns>>

\* Five minutes since the message was created.
Age(e) ==
    /\ mail[e] \notin {"none", "done", "dead"}
    /\ ~tooOld[e]
    /\ tooOld' = [tooOld EXCEPT ![e] = TRUE]
    /\ UNCHANGED <<mail, retries, sent, lostRuns, faults>>

\* Mutant: a message that is too old is passed over and stays in its queue.
TakeYoungMail(e) ==
    /\ MoveMail(e, {"queued"}, IF tooOld[e] THEN "queued" ELSE "running")
    /\ UNCHANGED <<retries, tooOld, sent, lostRuns, faults>>

\* A worker takes the message; AgeLimit fails one that is too old, and the
\* broker keeps it with the dead letters.
TakeMail(e) ==
    /\ MoveMail(e, {"queued"}, IF tooOld[e] THEN "dead" ELSE "running")
    /\ UNCHANGED <<retries, tooOld, sent, lostRuns, faults>>

\* email_notification_app_impl.send_registration_email
SendMail(e) ==
    /\ MoveMail(e, {"running"}, "mailed")
    /\ sent' = [sent EXCEPT ![e] = @ + 1]
    /\ UNCHANGED <<retries, tooOld, lostRuns, faults>>

\* Mutant: the message is given back although the actor returned.
GiveBack(e) ==
    /\ MoveMail(e, {"mailed"}, "queued")
    /\ UNCHANGED <<retries, tooOld, sent, lostRuns, faults>>

Acknowledge(e) ==
    /\ MoveMail(e, {"mailed"}, "done")
    /\ UNCHANGED <<retries, tooOld, sent, lostRuns, faults>>

\* The actor raises or runs into its time_limit, before or after the e-mail
\* went out.  Retries enqueues it with a delay until max_retries is reached.
ActorRaises(e) ==
    /\ Fault
    /\ IF retries[e] < MaxRetries
       THEN /\ MoveMail(e, {"running", "mailed"}, "delayed")
            /\ retries' = [retries EXCEPT ![e] = @ + 1]
       ELSE /\ MoveMail(e, {"running", "mailed"}, "dead")
            /\ UNCHANGED retries
    /\ UNCHANGED <<tooOld, sent, lostRuns>>

\* The backoff has passed.
Requeue(e) ==
    /\ MoveMail(e, {"delayed"}, "queued")
    /\ UNCHANGED <<retries, tooOld, sent, lostRuns, faults>>

\* The worker dies; the broker hands the message out again.
WorkerDies(e) ==
    /\ Fault
    /\ MoveMail(e, {"running", "mailed"}, "queued")
    /\ lostRuns' = [lostRuns EXCEPT ![e] = @ + 1]
    /\ UNCHANGED <<retries, tooOld, sent>>

\* What a worker does of its own accord.
Work(e) == TakeMail(e) \/ SendMail(e) \/ Acknowledge(e) \/ Requeue(e)

QueueStep(e) == Age(e) \/ Work(e) \/ ActorRaises(e) \/ WorkerDies(e)
=============================================================================

---------------------------- MODULE AccountsProofs ----------------------------
(***************************************************************************)
(* Theorems about accounts, tokens and registration e-mails, for every     *)
(* number of requests, emails and passwords, every time to live and every  *)
(* number of faults.                                                       *)
(*                                                                         *)
(* The bookkeeping behind all of them is that a row of the table is the    *)
(* row of the request that inserted it (RowsMatch), and that a request     *)
(* knows what it has done by the await it is at (RequestInv).              *)
(***************************************************************************)
EXTENDS Accounts, TLAPS

(***************************************************************************)
(* Types                                                                   *)
(***************************************************************************)

\* A worker does not die more often than faults have happened.
LossesAreFaults == \A e \in Emails : lostRuns[e] =< faults

\* What a request at each await has behind it.
RequestInv ==
    \A r \in Requests :
        /\ pc[r] \in {"lookup", "insert", "commit", "enqueue"}
              => call[r] \in Calls /\ status[r] = 0
        /\ pc[r] \in {"insert", "commit", "enqueue"}
              => call[r].kind = "register" /\ Hashable(call[r].password)
        /\ pc[r] = "new" => call[r] = NoCall /\ status[r] = 0
        /\ call[r].kind = "register" => call[r] \in Calls

LEMMA TypeInit == Init => TypeOK /\ LossesAreFaults /\ RequestInv
  <1>1. 0 \in 0 .. MaxRetries /\ 0 \in 0 .. MaxFaults /\ 0 \in 0 .. MaxTime
    BY RetriesAssumption, TtlAssumption
  <1>. SUFFICES ASSUME Init PROVE TypeOK /\ LossesAreFaults /\ RequestInv
    OBVIOUS
  <1>2. /\ mail \in [Emails -> MailStates] /\ sent \in [Emails -> Nat]
        /\ faults \in 0 .. MaxFaults
    BY <1>1 DEF Init, QueueInit, MailStates
  <1>3. retries \in [Emails -> 0 .. MaxRetries] /\ lostRuns \in [Emails -> 0 .. MaxFaults]
    BY <1>1 DEF Init, QueueInit
  <1>4. tooOld \in [Emails -> BOOLEAN]
    BY DEF Init, QueueInit
  <1>5. LossesAreFaults
    <2>. SUFFICES ASSUME NEW e \in Emails PROVE lostRuns[e] =< faults
      BY DEF LossesAreFaults
    <2>1. lostRuns[e] = 0 /\ faults = 0
      BY DEF Init, QueueInit
    <2>. QED
      BY <2>1
  <1>6. call \in [Requests -> Calls \cup {NoCall}]
    BY DEF Init
  <1>7. TypeOK
    BY <1>1, <1>2, <1>3, <1>4, <1>6 DEF Init, TypeOK, QueueTypeOK, Statuses
  <1>8. RequestInv
    <2>1. NoCall.kind = "none"
      BY DEF NoCall
    <2>2. \A r \in Requests : call[r] = NoCall /\ pc[r] = "new" /\ status[r] = 0
      BY DEF Init
    <2>. QED
      BY <2>1, <2>2 DEF RequestInv
  <1>. QED
    BY <1>5, <1>7, <1>8

\* The queue's own steps keep the queue's types.
LEMMA QueueTypeStep ==
  ASSUME QueueTypeOK, LossesAreFaults, NEW e \in Emails, QueueStep(e)
  PROVE  QueueTypeOK' /\ LossesAreFaults'
  <1>1. faults' \in 0 .. MaxFaults /\ faults' \in {faults, faults + 1}
    BY RetriesAssumption
       DEF QueueTypeOK, QueueStep, Age, Work, TakeMail, SendMail, Acknowledge, Requeue,
           ActorRaises, WorkerDies, Fault
  <1>2. mail' \in [Emails -> MailStates]
    BY DEF QueueTypeOK, QueueStep, Age, Work, TakeMail, SendMail, Acknowledge, Requeue,
           ActorRaises, WorkerDies, MoveMail, MailStates
  <1>3. retries' \in [Emails -> 0 .. MaxRetries]
    BY RetriesAssumption
       DEF QueueTypeOK, QueueStep, Age, Work, TakeMail, SendMail, Acknowledge, Requeue,
           ActorRaises, WorkerDies
  <1>4. tooOld' \in [Emails -> BOOLEAN]
    BY DEF QueueTypeOK, QueueStep, Age, Work, TakeMail, SendMail, Acknowledge, Requeue,
           ActorRaises, WorkerDies
  <1>5. sent' \in [Emails -> Nat]
    BY DEF QueueTypeOK, QueueStep, Age, Work, TakeMail, SendMail, Acknowledge, Requeue,
           ActorRaises, WorkerDies
  <1>6. lostRuns' \in [Emails -> 0 .. MaxFaults] /\ LossesAreFaults'
    BY <1>1, RetriesAssumption
       DEF QueueTypeOK, LossesAreFaults, QueueStep, Age, Work, TakeMail, SendMail,
           Acknowledge, Requeue, ActorRaises, WorkerDies, Fault
  <1>. QED
    BY <1>1, <1>2, <1>3, <1>4, <1>5, <1>6 DEF QueueTypeOK

\* Every token a request signs has a type, a user and an expiry within the bounds.
LEMMA IssuedTokens ==
  ASSUME TypeOK, NEW u \in Requests, IssueTokens(u)
  PROVE  tokens' \subseteq Tokens
  <1>1. /\ now + AccessTtl \in 0 .. (MaxTime + AccessTtl + RefreshTtl)
        /\ now + RefreshTtl \in 0 .. (MaxTime + AccessTtl + RefreshTtl)
    BY TtlAssumption DEF TypeOK
  <1>2. /\ SignedToken(u, "access", AccessTtl) \in Tokens
        /\ SignedToken(u, "refresh", RefreshTtl) \in Tokens
    BY <1>1 DEF SignedToken, Tokens
  <1>. QED
    BY <1>2 DEF IssueTokens, TypeOK

LEMMA FaultType ==
  ASSUME faults \in 0 .. MaxFaults, Fault
  PROVE  faults' \in 0 .. MaxFaults /\ faults =< faults'
  BY RetriesAssumption DEF Fault

LEMMA SendTaskType ==
  ASSUME QueueTypeOK, NEW e \in Emails, SendTask(e), faults' \in 0 .. MaxFaults
  PROVE  QueueTypeOK'
  BY DEF QueueTypeOK, SendTask, MailStates

LEMMA RegisterStepType ==
  ASSUME TypeOK, LossesAreFaults, RequestInv, NEW r \in Requests,
         \/ Lookup(r) \/ LookupExists(r) \/ BcryptRaises(r) \/ LoginRefused(r)
         \/ Insert(r) \/ InsertViolatesIndex(r)
  PROVE  TypeOK' /\ LossesAreFaults' /\ RequestInv'
  <1>1. UNCHANGED <<queueVars, faults, now, users, tokens, call>>
    BY DEF Lookup, LookupExists, BcryptRaises, LoginRefused, Insert, InsertViolatesIndex
  <1>2. /\ pc' \in [Requests -> {"new", "lookup", "insert", "commit", "enqueue", "done"}]
        /\ status' \in [Requests -> Statuses]
    BY DEF TypeOK, Lookup, LookupExists, BcryptRaises, LoginRefused, Insert,
           InsertViolatesIndex, Reply, Answer, Goto, Statuses
  <1>3. TypeOK' /\ LossesAreFaults'
    BY <1>1, <1>2 DEF TypeOK, QueueTypeOK, queueVars, LossesAreFaults
  <1>4. RequestInv'
    BY <1>1 DEF TypeOK, RequestInv, Lookup, LookupExists, BcryptRaises, LoginRefused, Insert,
           InsertViolatesIndex, Reply, Answer, Goto
  <1>. QED
    BY <1>3, <1>4

LEMMA WriteStepType ==
  ASSUME TypeOK, LossesAreFaults, RequestInv, NEW r \in Requests,
         Commit(r) \/ DatabaseRaises(r)
  PROVE  TypeOK' /\ LossesAreFaults' /\ RequestInv'
  <1>1. UNCHANGED <<queueVars, now, tokens, call>>
    BY DEF Commit, DatabaseRaises
  <1>2. faults' \in 0 .. MaxFaults /\ faults =< faults'
    BY FaultType DEF Commit, DatabaseRaises, TypeOK, QueueTypeOK
  <1>3. QueueTypeOK' /\ LossesAreFaults'
    BY <1>1, <1>2 DEF TypeOK, QueueTypeOK, queueVars, LossesAreFaults
  <1>4. pc[r] = "commit" => NewUser(r) \in Users
    BY DEF RequestInv, NewUser, Users, Calls
  <1>5. users' \subseteq Users
    BY <1>4 DEF TypeOK, Commit, DatabaseRaises, Goto
  <1>6. /\ pc' \in [Requests -> {"new", "lookup", "insert", "commit", "enqueue", "done"}]
        /\ status' \in [Requests -> Statuses]
    BY DEF TypeOK, Commit, DatabaseRaises, Reply, Answer, Goto, Statuses
  <1>7. RequestInv'
    BY <1>1 DEF TypeOK, RequestInv, Commit, DatabaseRaises, Reply, Answer, Goto
  <1>. QED
    BY <1>1, <1>3, <1>5, <1>6, <1>7 DEF TypeOK

LEMMA EnqueueType ==
  ASSUME TypeOK, LossesAreFaults, RequestInv, NEW r \in Requests,
         Enqueue(r) \/ EnqueueRaises(r)
  PROVE  TypeOK' /\ LossesAreFaults' /\ RequestInv'
  <1>1. UNCHANGED <<now, users, call>> /\ UNCHANGED lostRuns
    BY DEF Enqueue, EnqueueRaises, SendTask, queueVars
  <1>2. faults' \in 0 .. MaxFaults /\ faults =< faults'
    BY FaultType DEF Enqueue, EnqueueRaises, TypeOK, QueueTypeOK
  <1>3. call[r].email \in Emails
    BY DEF RequestInv, Calls, Enqueue, EnqueueRaises, Reply, Goto
  <1>4. QueueTypeOK'
    <2>1. CASE SendTask(call[r].email)
      BY <1>2, <1>3, <2>1, SendTaskType DEF TypeOK
    <2>2. CASE UNCHANGED queueVars
      BY <1>2, <2>2 DEF TypeOK, QueueTypeOK, queueVars
    <2>. QED
      BY <2>1, <2>2 DEF Enqueue, EnqueueRaises
  <1>5. LossesAreFaults'
    BY <1>1, <1>2 DEF TypeOK, QueueTypeOK, LossesAreFaults
  <1>6. tokens' \subseteq Tokens
    BY IssuedTokens DEF Enqueue, EnqueueRaises, TypeOK
  <1>7. /\ pc' \in [Requests -> {"new", "lookup", "insert", "commit", "enqueue", "done"}]
        /\ status' \in [Requests -> Statuses]
    BY DEF TypeOK, Enqueue, EnqueueRaises, Reply, Answer, Goto, Statuses
  <1>8. RequestInv'
    BY <1>1 DEF TypeOK, RequestInv, Enqueue, EnqueueRaises, Reply, Answer, Goto
  <1>. QED
    BY <1>1, <1>4, <1>5, <1>6, <1>7, <1>8 DEF TypeOK

LEMMA TokenStepType ==
  ASSUME TypeOK, LossesAreFaults, RequestInv, NEW r \in Requests,
         Login(r) \/ TokenCall(r)
  PROVE  TypeOK' /\ LossesAreFaults' /\ RequestInv'
  <1>1. UNCHANGED <<queueVars, faults, now, users, call>>
    BY DEF Login, TokenCall, Refresh, Verify, TokenRefused
  <1>2. tokens' \subseteq Tokens
    <2>1. CASE Login(r)
      <3>1. PICK u \in UsersOf(call[r].email) : IssueTokens(u.user)
        BY <2>1 DEF Login
      <3>2. u.user \in Requests
        BY <3>1 DEF UsersOf, TypeOK, Users
      <3>. QED
        BY <3>1, <3>2, IssuedTokens
    <2>2. CASE Refresh(r)
      <3>1. PICK t \in tokens : IssueTokens(t.user)
        BY <2>2 DEF Refresh
      <3>2. t.user \in Requests
        BY <3>1 DEF TypeOK, Tokens
      <3>. QED
        BY <3>1, <3>2, IssuedTokens
    <2>3. CASE Verify(r) \/ TokenRefused(r)
      BY <2>3 DEF Verify, TokenRefused, TypeOK
    <2>. QED
      BY <2>1, <2>2, <2>3 DEF TokenCall
  <1>3. /\ pc' \in [Requests -> {"new", "lookup", "insert", "commit", "enqueue", "done"}]
        /\ status' \in [Requests -> Statuses]
    BY DEF TypeOK, Login, TokenCall, Refresh, Verify, TokenRefused, Reply, Answer, Goto, Statuses
  <1>4. RequestInv'
    BY <1>1 DEF TypeOK, RequestInv, Login, TokenCall, Refresh, Verify, TokenRefused, Reply,
           Answer, Goto
  <1>5. LossesAreFaults'
    BY <1>1 DEF LossesAreFaults, queueVars
  <1>. QED
    BY <1>1, <1>2, <1>3, <1>4, <1>5 DEF TypeOK, QueueTypeOK, queueVars

LEMMA ArriveType ==
  ASSUME TypeOK, LossesAreFaults, RequestInv, NEW r \in Requests, Arrive(r)
  PROVE  TypeOK' /\ LossesAreFaults' /\ RequestInv'
  <1>1. PICK c \in Calls : call' = [call EXCEPT ![r] = c]
    BY DEF Arrive
  <1>2. RequestInv'
    BY <1>1 DEF Arrive, Goto, RequestInv, TypeOK
  <1>3. TypeOK'
    BY <1>1 DEF Arrive, Goto, TypeOK, QueueTypeOK, queueVars
  <1>. QED
    BY <1>2, <1>3 DEF Arrive, LossesAreFaults, queueVars

LEMMA ServerDiesType ==
  ASSUME TypeOK, LossesAreFaults, RequestInv, ServerDies
  PROVE  TypeOK' /\ LossesAreFaults' /\ RequestInv'
  <1>1. faults' \in 0 .. MaxFaults /\ faults =< faults'
    BY FaultType DEF ServerDies, TypeOK, QueueTypeOK
  <1>2. TypeOK'
    BY <1>1 DEF ServerDies, TypeOK, QueueTypeOK, queueVars
  <1>3. LossesAreFaults'
    BY <1>1 DEF ServerDies, LossesAreFaults, TypeOK, QueueTypeOK, queueVars
  <1>. QED
    BY <1>2, <1>3 DEF ServerDies, RequestInv, TypeOK

LEMMA TypeStep ==
  ASSUME TypeOK, LossesAreFaults, RequestInv, [Next]_vars
  PROVE  TypeOK' /\ LossesAreFaults' /\ RequestInv'
  <1>1. ASSUME NEW r \in Requests,
               Arrive(r) \/ Serve(r) \/ TokenCall(r) \/ DatabaseRaises(r) \/ EnqueueRaises(r)
        PROVE  TypeOK' /\ LossesAreFaults' /\ RequestInv'
    BY <1>1, ArriveType, RegisterStepType, WriteStepType, EnqueueType, TokenStepType DEF Serve
  <1>2. CASE Clock
    <2>1. now' \in 0 .. MaxTime
      BY <1>2, TtlAssumption DEF Clock, TypeOK
    <2>. QED
      BY <1>2, <2>1 DEF Clock, TypeOK, QueueTypeOK, queueVars, LossesAreFaults, RequestInv
  <1>3. CASE Queue
    <2>1. PICK e \in Emails : QueueStep(e) /\ UNCHANGED requestVars
      BY <1>3 DEF Queue
    <2>2. QueueTypeOK' /\ LossesAreFaults'
      BY <2>1, QueueTypeStep DEF TypeOK
    <2>. QED
      BY <2>1, <2>2 DEF TypeOK, RequestInv, requestVars
  <1>4. CASE UNCHANGED vars
    BY <1>4 DEF vars, queueVars, requestVars, TypeOK, QueueTypeOK, LossesAreFaults, RequestInv
  <1>. QED
    BY <1>1, <1>2, <1>3, <1>4, ServerDiesType DEF Next

\* Every variable of the model has its type in every state of every behaviour, for any
\* number of requests, emails and passwords (Accounts.tla as a whole).
THEOREM TypeCorrect == Spec => []TypeOK
  <1>. DEFINE IInv == TypeOK /\ LossesAreFaults /\ RequestInv
  <1>1. Init => IInv
    BY TypeInit
  <1>2. IInv /\ [Next]_vars => IInv'
    BY TypeStep
  <1>. QED
    BY <1>1, <1>2, PTL DEF Spec

(***************************************************************************)
(* Accounts                                                                *)
(***************************************************************************)

\* A row is the row of the request that inserted it, and that request is past its commit.
RowsMatch ==
    \A u \in users :
        /\ pc[u.user] \in {"enqueue", "done"}
        /\ call[u.user].kind = "register"
        /\ u = NewUser(u.user)
        /\ Hashable(u.password)

\* An insert that has been flushed is the only one of its email: the unique index has
\* looked at the table, and nobody else is in doubt.
OneInDoubt ==
    \A r \in Requests :
        pc[r] = "commit" => UsersOf(call[r].email) = {} /\ RowsInDoubt(r) = {}

\* A registration that is behind its commit, and one that was answered 200, has its row.
RegisteredHaveRows ==
    \A r \in Requests : pc[r] = "enqueue" \/ Registered(r) => NewUser(r) \in users

AccountInv == RowsMatch /\ OneAccountPerEmail /\ OneInDoubt /\ RegisteredHaveRows

LEMMA AccountInit == Init => AccountInv
  <1>1. NoCall.kind = "none"
    BY DEF NoCall
  <1>. QED
    BY <1>1 DEF Init, AccountInv, RowsMatch, OneAccountPerEmail, OneInDoubt, RegisteredHaveRows,
                Registered

\* The steps that leave the table and the calls alone and write no row: a request goes on
\* or ends, and only one that is at "enqueue", or no registration at all, is answered 200.
LEMMA TableUntouched ==
  ASSUME AccountInv, TypeOK, RequestInv,
         UNCHANGED <<users, call>>,
         \A q \in Requests :
            /\ pc[q] \in {"enqueue", "done"} => pc'[q] \in {"enqueue", "done"}
            /\ pc'[q] \in {"commit", "enqueue"} => pc[q] = pc'[q]
            /\ status'[q] # status[q] => \/ status'[q] # 200
                                        \/ call[q].kind # "register"
                                        \/ pc[q] = "enqueue"
  PROVE  AccountInv'
  <1>1. RowsMatch'
    BY DEF AccountInv, RowsMatch, NewUser, TypeOK, Users
  <1>2. OneAccountPerEmail'
    BY DEF AccountInv, OneAccountPerEmail
  <1>3. OneInDoubt'
    BY DEF AccountInv, OneInDoubt, UsersOf, RowsInDoubt
  <1>4. RegisteredHaveRows'
    BY DEF AccountInv, RegisteredHaveRows, Registered, NewUser
  <1>. QED
    BY <1>1, <1>2, <1>3, <1>4 DEF AccountInv

LEMMA AccountArrive ==
  ASSUME AccountInv, TypeOK, RequestInv, NEW r \in Requests, Arrive(r)
  PROVE  AccountInv'
  <1>1. \A q \in Requests \ {r} : call'[q] = call[q] /\ pc'[q] = pc[q]
    BY DEF Arrive, Goto, TypeOK
  <1>2. pc[r] = "new" /\ pc'[r] = "lookup" /\ UNCHANGED <<users, status>>
    BY DEF Arrive, Goto, TypeOK
  <1>3. \A u \in users : u.user \in Requests \ {r}
    BY <1>2 DEF AccountInv, RowsMatch, TypeOK, Users
  <1>4. status[r] = 0
    BY <1>2 DEF RequestInv
  <1>5. RowsMatch'
    BY <1>1, <1>2, <1>3 DEF AccountInv, RowsMatch, NewUser
  <1>6. OneInDoubt'
    BY <1>1, <1>2 DEF AccountInv, OneInDoubt, UsersOf, RowsInDoubt
  <1>7. RegisteredHaveRows'
    BY <1>1, <1>2, <1>4 DEF AccountInv, RegisteredHaveRows, Registered, NewUser
  <1>. QED
    BY <1>2, <1>5, <1>6, <1>7 DEF AccountInv, OneAccountPerEmail

LEMMA AccountInsert ==
  ASSUME AccountInv, TypeOK, RequestInv, NEW r \in Requests, Insert(r)
  PROVE  AccountInv'
  <1>1. /\ pc[r] = "insert" /\ pc' = [pc EXCEPT ![r] = "commit"]
        /\ UNCHANGED <<users, call, status>>
    BY DEF Insert, Goto
  <1>2. OneInDoubt'
    BY <1>1 DEF Insert, AccountInv, OneInDoubt, UsersOf, RowsInDoubt, TypeOK
  <1>3. RowsMatch'
    BY <1>1 DEF AccountInv, RowsMatch, NewUser, TypeOK, Users
  <1>4. RegisteredHaveRows'
    BY <1>1 DEF AccountInv, RegisteredHaveRows, Registered, NewUser, TypeOK
  <1>. QED
    BY <1>1, <1>2, <1>3, <1>4 DEF AccountInv, OneAccountPerEmail

\* A row is committed, whether or not the request gets to know: it goes on to the broker
\* or is answered 500.
LEMMA AccountWritten ==
  ASSUME AccountInv, TypeOK, RequestInv, NEW r \in Requests, pc[r] = "commit",
         users' = users \cup {NewUser(r)}, UNCHANGED call,
         NEW goal \in {"enqueue", "done"}, pc' = [pc EXCEPT ![r] = goal],
         NEW code \in {0, 500}, status' = [status EXCEPT ![r] = code]
  PROVE  AccountInv'
  <1>1. call[r].kind = "register" /\ Hashable(call[r].password)
    BY DEF RequestInv
  <1>2. /\ NewUser(r).user = r /\ NewUser(r).email = call[r].email
        /\ NewUser(r).password = call[r].password
    BY DEF NewUser
  <1>3. RowsMatch'
    <2>1. \A q \in Requests : NewUser(q)' = NewUser(q)
      BY DEF NewUser
    <2>2. \A u \in users : u.user \in Requests
      BY DEF TypeOK, Users
    <2>. QED
      BY <1>1, <1>2, <2>1, <2>2 DEF AccountInv, RowsMatch, TypeOK, Hashable
  <1>4. OneAccountPerEmail'
    BY <1>2 DEF AccountInv, OneAccountPerEmail, OneInDoubt, UsersOf
  <1>5. OneInDoubt'
    <2>1. ASSUME NEW q \in Requests, pc'[q] = "commit"
          PROVE  UsersOf(call[q].email)' = {} /\ RowsInDoubt(q)' = {}
      <3>1. q # r /\ pc[q] = "commit"
        BY <2>1 DEF TypeOK
      <3>2. call[q].email # call[r].email
        BY <3>1 DEF AccountInv, OneInDoubt, RowsInDoubt
      <3>. QED
        BY <1>2, <3>1, <3>2 DEF AccountInv, OneInDoubt, RowsInDoubt, UsersOf, TypeOK
    <2>. QED
      BY <2>1 DEF OneInDoubt
  <1>6. RegisteredHaveRows'
    BY DEF AccountInv, RegisteredHaveRows, Registered, NewUser, TypeOK
  <1>. QED
    BY <1>3, <1>4, <1>5, <1>6 DEF AccountInv

LEMMA AccountStep ==
  ASSUME AccountInv, TypeOK, RequestInv, [Next]_vars
  PROVE  AccountInv'
  <1>1. ASSUME NEW r \in Requests, Commit(r)
        PROVE  AccountInv'
    <2>1. pc[r] = "commit" /\ pc' = [pc EXCEPT ![r] = "enqueue"]
      BY <1>1 DEF Commit, Goto
    <2>2. status' = [status EXCEPT ![r] = 0]
      BY <1>1, <2>1 DEF Commit, RequestInv, TypeOK
    <2>. QED
      BY <1>1, <2>1, <2>2, AccountWritten DEF Commit
  <1>2. ASSUME NEW r \in Requests, DatabaseRaises(r), UNCHANGED users
        PROVE  AccountInv'
    BY <1>2, TableUntouched DEF DatabaseRaises, Reply, Answer, Goto, TypeOK
  <1>3. ASSUME NEW r \in Requests, DatabaseRaises(r), users' = users \cup {NewUser(r)}, pc[r] = "commit"
        PROVE  AccountInv'
    BY <1>3, AccountWritten DEF DatabaseRaises, Reply, Answer, Goto
  <1>4. ASSUME NEW r \in Requests,
               \/ Lookup(r) \/ LookupExists(r) \/ Login(r) \/ LoginRefused(r)
               \/ BcryptRaises(r) \/ InsertViolatesIndex(r)
        PROVE  AccountInv'
    <2>1. UNCHANGED <<users, call>>
      BY <1>4 DEF Lookup, LookupExists, Login, LoginRefused, BcryptRaises, InsertViolatesIndex
    <2>. QED
      BY <1>4, <2>1, TableUntouched
         DEF Lookup, LookupExists, Login, LoginRefused, BcryptRaises, InsertViolatesIndex,
             Reply, Answer, Goto, TypeOK, UserAlreadyExistsError
  <1>5. ASSUME NEW r \in Requests, Enqueue(r) \/ EnqueueRaises(r)
        PROVE  AccountInv'
    BY <1>5, TableUntouched DEF Enqueue, EnqueueRaises, Reply, Answer, Goto, TypeOK
  <1>6. ASSUME NEW r \in Requests, TokenCall(r)
        PROVE  AccountInv'
    <2>1. pc[r] = "new" /\ call[r].kind # "register"
      BY <1>6 DEF TokenCall, Refresh, Verify, TokenRefused, Reply, Goto, RequestInv, NoCall
    <2>. QED
      BY <1>6, <2>1, TableUntouched
         DEF TokenCall, Refresh, Verify, TokenRefused, Reply, Answer, Goto, TypeOK
  <1>7. CASE ServerDies
    BY <1>7, TableUntouched DEF ServerDies, TypeOK
  <1>8. CASE Clock \/ Queue \/ UNCHANGED vars
    BY <1>8, TableUntouched DEF Clock, Queue, vars, requestVars
  <1>. QED
    BY <1>1, <1>2, <1>3, <1>4, <1>5, <1>6, <1>7, <1>8, AccountArrive, AccountInsert
       DEF Next, Serve, DatabaseRaises

LEMMA InvHolds == Spec => [](TypeOK /\ LossesAreFaults /\ RequestInv /\ AccountInv)
  <1>. DEFINE IInv == TypeOK /\ LossesAreFaults /\ RequestInv /\ AccountInv
  <1>1. Init => IInv
    BY TypeInit, AccountInit
  <1>2. IInv /\ [Next]_vars => IInv'
    BY TypeStep, AccountStep
  <1>. QED
    BY <1>1, <1>2, PTL DEF Spec

\* However many registrations of one email interleave, at most one row of that email is
\* committed (auth.py:40-45 over the unique index).
THEOREM OneAccount == Spec => []OneAccountPerEmail
  <1>1. AccountInv => OneAccountPerEmail
    BY DEF AccountInv
  <1>. QED
    BY <1>1, InvHolds, PTL

\* Once a registration has been answered 200, its email and password log in: a login is
\* neither refused nor does bcrypt raise (auth.py:40-50 against auth.py:55-59).
THEOREM ReadYourWrites == Spec => LoginAfterRegister
  <1>. DEFINE Refuses(r, q) ==
         (Registered(q) /\ call[r].kind = "login" /\ (LoginRefused(r) \/ BcryptRaises(r)))
           => \/ call[r].email # call[q].email
              \/ call[r].password # call[q].password
  <1>1. AccountInv => \A r, q \in Requests : Refuses(r, q)
    <2>. SUFFICES ASSUME AccountInv, NEW r \in Requests, NEW q \in Requests,
                         Registered(q), call[r].kind = "login",
                         call[r].email = call[q].email, call[r].password = call[q].password
                  PROVE  ~LoginRefused(r) /\ ~BcryptRaises(r)
      OBVIOUS
    <2>1. NewUser(q) \in users /\ Hashable(call[q].password)
      BY DEF AccountInv, RegisteredHaveRows, RowsMatch, NewUser
    <2>2. NewUser(q) \in UsersOf(call[r].email) /\ NewUser(q).password = call[r].password
      BY <2>1 DEF UsersOf, NewUser
    <2>. QED
      BY <2>1, <2>2 DEF LoginRefused, BcryptRaises
  <1>2. AccountInv /\ [Next]_vars => [\A r, q \in Requests : Refuses(r, q)]_vars
    BY <1>1
  <1>. QED
    BY <1>2, InvHolds, PTL DEF Spec, LoginAfterRegister

(***************************************************************************)
(* Tokens                                                                  *)
(***************************************************************************)
LEMMA TokensInit == Init => TokensNameUsers
  BY DEF Init, TokensNameUsers

LEMMA TokensIssuedToUsers ==
  ASSUME TokensNameUsers, NEW n, IssueTokens(n), UNCHANGED users, \E u \in users : u.user = n
  PROVE  TokensNameUsers'
  BY DEF TokensNameUsers, IssueTokens, SignedToken

LEMMA TokensStep ==
  ASSUME TokensNameUsers, AccountInv, TypeOK, RequestInv, [Next]_vars
  PROVE  TokensNameUsers'
  <1>1. ASSUME NEW r \in Requests, Login(r)
        PROVE  TokensNameUsers'
    BY <1>1, TokensIssuedToUsers DEF Login, UsersOf
  <1>2. ASSUME NEW r \in Requests, Enqueue(r)
        PROVE  TokensNameUsers'
    <2>1. NewUser(r) \in users /\ NewUser(r).user = r
      BY <1>2 DEF Enqueue, Reply, Goto, AccountInv, RegisteredHaveRows, NewUser
    <2>. QED
      BY <1>2, <2>1, TokensIssuedToUsers DEF Enqueue
  <1>3. ASSUME NEW r \in Requests, Refresh(r)
        PROVE  TokensNameUsers'
    BY <1>3, TokensIssuedToUsers DEF Refresh, TokensNameUsers
  <1>4. ASSUME UNCHANGED tokens, users \subseteq users'
        PROVE  TokensNameUsers'
    BY <1>4 DEF TokensNameUsers
  <1>5. ASSUME NEW r \in Requests,
               \/ Arrive(r) \/ Lookup(r) \/ LookupExists(r) \/ LoginRefused(r) \/ BcryptRaises(r)
               \/ Insert(r) \/ InsertViolatesIndex(r) \/ Commit(r) \/ Verify(r)
               \/ TokenRefused(r) \/ DatabaseRaises(r) \/ EnqueueRaises(r)
        PROVE  UNCHANGED tokens /\ users \subseteq users'
    BY <1>5 DEF Arrive, Lookup, LookupExists, LoginRefused, BcryptRaises, Insert,
                InsertViolatesIndex, Commit, Verify, TokenRefused, DatabaseRaises, EnqueueRaises
  <1>6. CASE ServerDies \/ Clock \/ Queue \/ UNCHANGED vars
    BY <1>4, <1>6 DEF ServerDies, Clock, Queue, vars, requestVars
  <1>. QED
    BY <1>1, <1>2, <1>3, <1>4, <1>5, <1>6 DEF Next, Serve, TokenCall

\* Every signed token, from a registration, a login or a chain of refreshes, names a user
\* of the table (auth.py:45-50: tokens are made behind the commit).
THEOREM TokensHaveUsers == Spec => []TokensNameUsers
  <1>. DEFINE IInv == TypeOK /\ LossesAreFaults /\ RequestInv /\ AccountInv /\ TokensNameUsers
  <1>1. Init => IInv
    BY TypeInit, AccountInit, TokensInit
  <1>2. IInv /\ [Next]_vars => IInv'
    BY TypeStep, AccountStep, TokensStep
  <1>. QED
    BY <1>1, <1>2, PTL DEF Spec

(***************************************************************************)
(* E-mails                                                                 *)
(***************************************************************************)

\* Whose message there is, that registration is past the broker call.
MailIsSent ==
    \A e \in Emails : mail[e] # "none" => \E u \in UsersOf(e) : pc[u.user] = "done"

\* How often an e-mail went out, before and behind the sending of the run it is in.
SentSoFar ==
    \A e \in Emails :
        sent[e] =< retries[e] + lostRuns[e] + (IF mail[e] \in {"mailed", "done", "dead"} THEN 1 ELSE 0)

MailInv == MailIsSent /\ AccountHasMail /\ SentSoFar

LEMMA MailInit == Init => MailInv
  <1>1. Init => MailIsSent /\ AccountHasMail
    BY DEF Init, QueueInit, MailIsSent, AccountHasMail
  <1>2. Init => SentSoFar
    <2>. SUFFICES ASSUME Init, NEW e \in Emails
                  PROVE  sent[e] =< retries[e] + lostRuns[e]
                                      + (IF mail[e] \in {"mailed", "done", "dead"} THEN 1 ELSE 0)
      BY DEF SentSoFar
    <2>1. sent[e] = 0 /\ retries[e] = 0 /\ lostRuns[e] = 0 /\ mail[e] = "none"
      BY DEF Init, QueueInit
    <2>. QED
      BY <2>1
  <1>. QED
    BY <1>1, <1>2 DEF MailInv

\* The requests that neither write a row nor call the broker.
LEMMA QueueUntouched ==
  ASSUME MailInv, AccountInv, TypeOK, RequestInv,
         UNCHANGED <<mail, retries, sent, lostRuns, users>>,
         \A q \in Requests :
            /\ pc[q] = "done" => pc'[q] = "done"
            /\ pc[q] = "enqueue" /\ pc'[q] # "enqueue" => status'[q] \in {0, 500}
            /\ pc[q] = "done" => status'[q] = status[q]
  PROVE  MailInv'
  <1>1. \A u \in users : u.user \in Requests /\ pc[u.user] \in {"enqueue", "done"}
    BY DEF TypeOK, Users, AccountInv, RowsMatch
  <1>2. MailIsSent'
    BY <1>1 DEF MailInv, MailIsSent, UsersOf
  <1>3. AccountHasMail'
    BY <1>1 DEF MailInv, AccountHasMail
  <1>. QED
    BY <1>2, <1>3 DEF MailInv, SentSoFar

LEMMA MailEnqueue ==
  ASSUME MailInv, AccountInv, TypeOK, RequestInv, NEW r \in Requests,
         Enqueue(r) \/ EnqueueRaises(r), SendTask(call[r].email)
  PROVE  MailInv'
  <1>. DEFINE e == call[r].email
  <1>0. /\ pc[r] = "enqueue" /\ pc' = [pc EXCEPT ![r] = "done"]
        /\ UNCHANGED <<users, call>>
        /\ \A q \in Requests \ {r} : status'[q] = status[q]
    BY DEF Enqueue, EnqueueRaises, Reply, Answer, Goto, TypeOK
  <1>1. NewUser(r) \in UsersOf(e) /\ NewUser(r).user = r /\ e \in Emails
    BY <1>0 DEF AccountInv, RegisteredHaveRows, UsersOf, NewUser, RequestInv, Calls
  <1>2. mail[e] = "none"
    <2>1. SUFFICES ASSUME mail[e] # "none" PROVE FALSE
      OBVIOUS
    <2>2. PICK u \in UsersOf(e) : pc[u.user] = "done"
      BY <1>1, <2>1 DEF MailInv, MailIsSent
    <2>3. u = NewUser(r)
      BY <1>1, <2>2 DEF AccountInv, OneAccountPerEmail, UsersOf
    <2>. QED
      BY <1>0, <1>1, <2>2, <2>3
  <1>3. \A d \in Emails \ {e} : mail'[d] = mail[d]
    BY DEF SendTask, TypeOK, QueueTypeOK
  <1>4. mail'[e] = "queued" /\ UNCHANGED <<retries, sent, lostRuns>>
    BY <1>1 DEF SendTask, TypeOK, QueueTypeOK
  <1>5. \A u \in users : u.user \in Requests /\ u.email \in Emails
    BY DEF TypeOK, Users
  <1>6. MailIsSent'
    <2>1. \A u \in users : pc[u.user] = "done" => pc'[u.user] = "done"
      BY <1>0, <1>5 DEF TypeOK
    <2>2. pc'[NewUser(r).user] = "done"
      BY <1>0, <1>1 DEF TypeOK
    <2>3. NewUser(r) \in users' /\ NewUser(r).email = e
      BY <1>0, <1>1 DEF UsersOf
    <2>4. ASSUME NEW d \in Emails, mail'[d] # "none"
          PROVE  \E u \in UsersOf(d)' : pc'[u.user] = "done"
      <3>1. CASE d = e
        BY <2>2, <2>3, <3>1 DEF UsersOf
      <3>2. CASE d # e
        BY <1>0, <1>3, <2>1, <2>4, <3>2 DEF MailInv, MailIsSent, UsersOf
      <3>. QED
        BY <3>1, <3>2
    <2>. QED
      BY <1>0, <2>4 DEF MailIsSent, UsersOf
  <1>7. AccountHasMail'
    <2>. SUFFICES ASSUME NEW u \in users, mail'[u.email] = "none"
                  PROVE  pc'[u.user] = "enqueue" \/ status'[u.user] \in {0, 500}
      BY <1>0 DEF AccountHasMail
    <2>1. u.email # e /\ mail[u.email] = "none"
      BY <1>3, <1>4, <1>5
    <2>2. u.user # r
      BY <2>1 DEF AccountInv, RowsMatch, NewUser
    <2>. QED
      BY <1>0, <1>5, <2>1, <2>2 DEF MailInv, AccountHasMail, TypeOK
  <1>8. SentSoFar'
    BY <1>2, <1>3, <1>4 DEF MailInv, SentSoFar
  <1>. QED
    BY <1>6, <1>7, <1>8 DEF MailInv

\* What the broker and the workers do with a message.
LEMMA MailQueue ==
  ASSUME MailInv, TypeOK, NEW e \in Emails, QueueStep(e), UNCHANGED requestVars
  PROVE  MailInv'
  <1>1. /\ \A d \in Emails : mail[d] # "none" <=> mail'[d] # "none"
        /\ \A d \in Emails \ {e} : mail'[d] = mail[d]
    BY DEF TypeOK, QueueTypeOK, QueueStep, Age, Work, TakeMail, SendMail, Acknowledge, Requeue,
           ActorRaises, WorkerDies, MoveMail
  <1>2. MailIsSent' /\ AccountHasMail'
    <2>1. \A u \in users : u.email \in Emails
      BY DEF TypeOK, Users
    <2>. QED
      BY <1>1, <2>1 DEF requestVars, MailInv, MailIsSent, AccountHasMail, UsersOf
  <1>3. \A d \in Emails : sent[d] \in Nat /\ retries[d] \in Nat /\ lostRuns[d] \in Nat
    BY RetriesAssumption DEF TypeOK, QueueTypeOK
  <1>4. \A d \in Emails \ {e} :
           sent'[d] = sent[d] /\ retries'[d] = retries[d] /\ lostRuns'[d] = lostRuns[d]
    BY DEF TypeOK, QueueTypeOK, QueueStep, Age, Work, TakeMail, SendMail, Acknowledge, Requeue,
           ActorRaises, WorkerDies
  <1>5. sent'[e] =< retries'[e] + lostRuns'[e]
                      + (IF mail'[e] \in {"mailed", "done", "dead"} THEN 1 ELSE 0)
    <2>. DEFINE Slack(m) == IF m \in {"mailed", "done", "dead"} THEN 1 ELSE 0
    <2>1. sent[e] =< retries[e] + lostRuns[e] + Slack(mail[e])
      BY DEF MailInv, SentSoFar
    <2>2. CASE Age(e) \/ TakeMail(e) \/ SendMail(e) \/ Acknowledge(e) \/ Requeue(e)
      BY <1>3, <2>1, <2>2
         DEF TypeOK, QueueTypeOK, Age, TakeMail, SendMail, Acknowledge, Requeue, MoveMail
    <2>3. CASE ActorRaises(e)
      BY <1>3, <2>1, <2>3 DEF TypeOK, QueueTypeOK, ActorRaises, MoveMail
    <2>4. CASE WorkerDies(e)
      BY <1>3, <2>1, <2>4 DEF TypeOK, QueueTypeOK, WorkerDies, MoveMail
    <2>. QED
      BY <2>2, <2>3, <2>4 DEF QueueStep, Work
  <1>6. SentSoFar'
    BY <1>1, <1>4, <1>5 DEF MailInv, SentSoFar
  <1>. QED
    BY <1>2, <1>6 DEF MailInv

LEMMA MailStep ==
  ASSUME MailInv, AccountInv, TypeOK, RequestInv, [Next]_vars
  PROVE  MailInv'
  <1>1. ASSUME NEW r \in Requests, Enqueue(r)
        PROVE  MailInv'
    BY <1>1, MailEnqueue DEF Enqueue
  <1>2. ASSUME NEW r \in Requests, EnqueueRaises(r)
        PROVE  MailInv'
    <2>1. pc[r] = "enqueue" /\ pc' = [pc EXCEPT ![r] = "done"]
          /\ status' = [status EXCEPT ![r] = 500] /\ UNCHANGED <<users, call>>
      BY <1>2 DEF EnqueueRaises, Reply, Answer, Goto
    <2>2. CASE SendTask(call[r].email)
      BY <1>2, <2>2, MailEnqueue
    <2>3. CASE UNCHANGED queueVars
      BY <2>1, <2>3, QueueUntouched DEF queueVars, TypeOK
    <2>. QED
      BY <1>2, <2>2, <2>3 DEF EnqueueRaises
  <1>3. ASSUME NEW r \in Requests, UNCHANGED queueVars, pc[r] = "commit",
               users' = users \cup {NewUser(r)}, UNCHANGED call,
               NEW goal \in {"enqueue", "done"}, pc' = [pc EXCEPT ![r] = goal],
               NEW code \in {0, 500}, status' = [status EXCEPT ![r] = code]
        PROVE  MailInv'
    <2>1. NewUser(r).user = r
      BY DEF NewUser
    <2>2. \A u \in users : u.user \in Requests \ {r}
      BY <1>3 DEF TypeOK, Users, AccountInv, RowsMatch
    <2>3. \A u \in users : pc'[u.user] = pc[u.user] /\ status'[u.user] = status[u.user]
      BY <1>3, <2>2 DEF TypeOK
    <2>4. MailIsSent'
      BY <1>3, <2>3 DEF MailInv, MailIsSent, UsersOf, queueVars
    <2>5. AccountHasMail'
      BY <1>3, <2>1, <2>3 DEF MailInv, AccountHasMail, queueVars, TypeOK
    <2>6. SentSoFar'
      BY <1>3 DEF MailInv, SentSoFar, queueVars
    <2>. QED
      BY <2>4, <2>5, <2>6 DEF MailInv
  <1>4. ASSUME NEW r \in Requests, Commit(r)
        PROVE  MailInv'
    <2>1. pc[r] = "commit" /\ pc' = [pc EXCEPT ![r] = "enqueue"]
      BY <1>4 DEF Commit, Goto
    <2>2. status' = [status EXCEPT ![r] = 0]
      BY <1>4, <2>1 DEF Commit, RequestInv, TypeOK
    <2>. QED
      BY <1>3, <1>4, <2>1, <2>2 DEF Commit
  <1>5. ASSUME NEW r \in Requests, DatabaseRaises(r)
        PROVE  MailInv'
    <2>1. CASE UNCHANGED users
      BY <1>5, <2>1, QueueUntouched DEF DatabaseRaises, Reply, Answer, Goto, TypeOK, queueVars
    <2>2. CASE pc[r] = "commit" /\ users' = users \cup {NewUser(r)}
      BY <1>3, <1>5, <2>2 DEF DatabaseRaises, Reply, Answer, Goto
    <2>. QED
      BY <1>5, <2>1, <2>2 DEF DatabaseRaises
  <1>6. ASSUME NEW r \in Requests,
               \/ Arrive(r) \/ Lookup(r) \/ LookupExists(r) \/ Login(r) \/ LoginRefused(r)
               \/ BcryptRaises(r) \/ Insert(r) \/ InsertViolatesIndex(r) \/ TokenCall(r)
        PROVE  MailInv'
    <2>1. UNCHANGED <<queueVars, users>>
      BY <1>6 DEF Arrive, Lookup, LookupExists, Login, LoginRefused, BcryptRaises, Insert,
                  InsertViolatesIndex, TokenCall, Refresh, Verify, TokenRefused
    <2>2. \A q \in Requests :
             /\ pc[q] = "done" => pc'[q] = "done" /\ status'[q] = status[q]
             /\ pc[q] = "enqueue" => pc'[q] = "enqueue"
      BY <1>6 DEF Arrive, Lookup, LookupExists, Login, LoginRefused, BcryptRaises, Insert,
                  InsertViolatesIndex, TokenCall, Refresh, Verify, TokenRefused, Reply, Answer,
                  Goto, TypeOK
    <2>. QED
      BY <2>1, <2>2, QueueUntouched DEF queueVars
  <1>7. CASE ServerDies
    <2>1. \A q \in Requests : pc[q] = "enqueue" => status[q] = 0
      BY DEF RequestInv
    <2>. QED
      BY <1>7, <2>1, QueueUntouched DEF ServerDies, queueVars, TypeOK
  <1>8. CASE Queue
    BY <1>8, MailQueue DEF Queue
  <1>9. CASE Clock \/ UNCHANGED vars
    BY <1>9, QueueUntouched DEF Clock, vars, queueVars, requestVars
  <1>. QED
    BY <1>1, <1>2, <1>4, <1>5, <1>6, <1>7, <1>8, <1>9 DEF Next, Serve

LEMMA MailInvHolds == Spec => [](TypeOK /\ LossesAreFaults /\ MailInv)
  <1>. DEFINE IInv == TypeOK /\ LossesAreFaults /\ RequestInv /\ AccountInv /\ MailInv
  <1>1. Init => IInv
    BY TypeInit, AccountInit, MailInit
  <1>2. IInv /\ [Next]_vars => IInv'
    BY TypeStep, AccountStep, MailStep
  <1>. QED
    BY <1>1, <1>2, PTL DEF Spec

\* No message exists, and so no e-mail is sent, before the account it announces is
\* committed (auth.py:45-47 in this order).
THEOREM NoMailBeforeAccount == Spec => []MailNamesAccount
  <1>1. MailInv => MailNamesAccount
    BY DEF MailInv, MailIsSent, MailNamesAccount
  <1>. QED
    BY <1>1, MailInvHolds, PTL

\* An account without a message belongs to a registration that is still at it or was not
\* answered 200 (auth.py:47 raising out of register).
THEOREM MailOrNoSuccess == Spec => []AccountHasMail
  <1>1. MailInv => AccountHasMail
    BY DEF MailInv
  <1>. QED
    BY <1>1, MailInvHolds, PTL

\* An e-mail goes out again only for a retry or for a worker that died with its message
\* (the actor options of email_notification.py under at-least-once delivery).
THEOREM MailsAreBudgeted == Spec => []MailBudget
  <1>1. ASSUME TypeOK, MailInv
        PROVE  MailBudget
    <2>. SUFFICES ASSUME NEW e \in Emails
                  PROVE  sent[e] =< 1 + retries[e] + lostRuns[e]
      BY DEF MailBudget
    <2>1. sent[e] \in Nat /\ retries[e] \in Nat /\ lostRuns[e] \in Nat
      BY <1>1, RetriesAssumption DEF TypeOK, QueueTypeOK
    <2>. QED
      BY <1>1, <2>1 DEF MailInv, SentSoFar
  <1>. QED
    BY <1>1, MailInvHolds, PTL
===============================================================================

------------------------------- MODULE Accounts -------------------------------
(***************************************************************************)
(* The auth context (app/auth_context): concurrent HTTP requests that      *)
(* register, log in, refresh and verify, over the user table and the task  *)
(* queue.  A request is a task of the event loop; its pc names the await   *)
(* it is at.  Every repository call is an outermost Atomic block, so the   *)
(* transaction of a lookup ends before the insert's begins, and a message  *)
(* is sent only behind the commit.                                         *)
(*                                                                         *)
(* A user is named by the request that created it (User.factory draws a    *)
(* fresh uuid).  The table has the unique index on email: an insert waits  *)
(* for an uncommitted row of the same email and then fails if that row     *)
(* was committed (PostgreSQL, external).                                   *)
(***************************************************************************)
EXTENDS TaskQueue

CONSTANTS
    Requests,       \* requests, each made at most once
    Passwords,
    TooLong,        \* passwords of more than 72 bytes
    AccessTtl,      \* JWT_ACCESS_TOKEN_EXPIRE_MINUTES, in clock ticks
    RefreshTtl,     \* JWT_REFRESH_TOKEN_EXPIRE_MINUTES
    MaxTime         \* bound: the last clock tick

ASSUME PasswordAssumption == TooLong \subseteq Passwords

ASSUME TtlAssumption == AccessTtl \in Nat /\ RefreshTtl \in Nat
                        /\ MaxTime \in Nat

VARIABLES
    now,
    users,      \* committed rows of the user table
    tokens,     \* tokens the service has signed
    call,       \* what each request asks for
    pc,         \* the await each request is at
    status      \* HTTP status of the answer, 0 while there is none

requestVars == <<now, users, tokens, call, pc, status>>
vars == <<queueVars, faults, requestVars>>

Users == [user : Requests, email : Emails, password : Passwords]
Tokens == [user : Requests, type : {"access", "refresh"},
           exp : 0..(MaxTime + AccessTtl + RefreshTtl)]
Calls == [kind : {"register", "login"}, email : Emails, password : Passwords]
NoCall == [kind |-> "none"]

\* The status codes of the domain errors.
UserAlreadyExistsError == 400
InvalidCredentialsError == 401
InvalidTokenError == 401

\* 200, the domain errors, unhandled exceptions 500, no answer 0
Statuses == {0, 200, UserAlreadyExistsError, InvalidCredentialsError, InvalidTokenError, 500}

TypeOK ==
    /\ QueueTypeOK
    /\ now \in 0..MaxTime
    /\ users \subseteq Users
    /\ tokens \subseteq Tokens
    /\ call \in [Requests -> Calls \cup {NoCall}]
    /\ pc \in [Requests -> {"new", "lookup", "insert", "commit", "enqueue",
                            "done"}]
    /\ status \in [Requests -> Statuses]

Init ==
    /\ QueueInit
    /\ now = 0
    /\ users = {}
    /\ tokens = {}
    /\ call = [r \in Requests |-> NoCall]
    /\ pc = [r \in Requests |-> "new"]
    /\ status = [r \in Requests |-> 0]

UsersOf(email) == {u \in users : u.email = email}

\* bcrypt refuses to hash or to check more than 72 bytes, with a ValueError.
Hashable(password) == password \notin TooLong

\* The row User.factory makes of a register call.
NewUser(r) == [user |-> r, email |-> call[r].email,
               password |-> call[r].password]

\* GenerateTokenService: what the service signs.
SignedToken(user, type, ttl) == [user |-> user, type |-> type, exp |-> now + ttl]

\* _generate_token_pair
IssueTokens(user) ==
    tokens' = tokens \cup {SignedToken(user, "access", AccessTtl),
                           SignedToken(user, "refresh", RefreshTtl)}

Goto(r, from, to) == pc[r] = from /\ pc' = [pc EXCEPT ![r] = to]

Answer(r, code) == status' = [status EXCEPT ![r] = code]

Reply(r, from, code) == Goto(r, from, "done") /\ Answer(r, code)

(***************************************************************************)
(* register and login                                                      *)
(***************************************************************************)
Arrive(r) ==
    /\ Goto(r, "new", "lookup")
    /\ \E c \in Calls : call' = [call EXCEPT ![r] = c]
    /\ UNCHANGED <<queueVars, faults, now, users, tokens, status>>

\* register: get_by_email found nobody, so hash the password and go on to create
Lookup(r) ==
    /\ call[r].kind = "register"
    /\ UsersOf(call[r].email) = {}
    /\ Hashable(call[r].password)
    /\ Goto(r, "lookup", "insert")
    /\ UNCHANGED <<queueVars, faults, now, users, tokens, call, status>>

LookupExists(r) ==
    /\ call[r].kind = "register"
    /\ UsersOf(call[r].email) # {}
    /\ Reply(r, "lookup", UserAlreadyExistsError)
    /\ UNCHANGED <<queueVars, faults, now, users, tokens, call>>

Login(r) ==
    /\ call[r].kind = "login"
    /\ Hashable(call[r].password)
    /\ \E u \in UsersOf(call[r].email) :
          /\ u.password = call[r].password
          /\ IssueTokens(u.user)
    /\ Reply(r, "lookup", 200)
    /\ UNCHANGED <<queueVars, faults, now, users, call>>

\* An unknown email, or a wrong password.
LoginRefused(r) ==
    /\ call[r].kind = "login"
    /\ \A u \in UsersOf(call[r].email) :
          Hashable(call[r].password) /\ u.password # call[r].password
    /\ Reply(r, "lookup", InvalidCredentialsError)
    /\ UNCHANGED <<queueVars, faults, now, users, tokens, call>>

\* A registration that found nobody and a login that found somebody come to bcrypt,
\* whose ValueError no exception handler takes.
BcryptRaises(r) ==
    /\ Reply(r, "lookup", 500)
    /\ (call[r].kind = "register") <=> (UsersOf(call[r].email) = {})
    /\ ~Hashable(call[r].password)
    /\ UNCHANGED <<queueVars, faults, now, users, tokens, call>>

\* Mutant: whoever is about to insert is waited for as well.
RowsToCome(r) == {q \in Requests \ {r} : pc[q] \in {"insert", "commit"}
                                        /\ call[q].email = call[r].email}

\* The flush of the insert waits for uncommitted rows with the same email.
RowsInDoubt(r) == {q \in Requests \ {r} : pc[q] = "commit"
                                          /\ call[q].email = call[r].email}

\* Mutant: the user table has no unique index.
InsertAnyway(r) ==
    /\ Goto(r, "insert", "commit")
    /\ UNCHANGED <<queueVars, faults, now, users, tokens, call, status>>

\* Mutant: the block is not the outermost one and leaves the commit to others.
InsertUncommitted(r) ==
    /\ Goto(r, "insert", "enqueue")
    /\ UNCHANGED <<queueVars, faults, now, users, tokens, call, status>>

Insert(r) ==
    /\ Goto(r, "insert", "commit")
    /\ RowsInDoubt(r) = {}
    /\ UsersOf(call[r].email) = {}
    /\ UNCHANGED <<queueVars, faults, now, users, tokens, call, status>>

\* IntegrityError: no exception handler takes it
InsertViolatesIndex(r) ==
    /\ Reply(r, "insert", 500)
    /\ RowsInDoubt(r) = {}
    /\ UsersOf(call[r].email) # {}
    /\ UNCHANGED <<queueVars, faults, now, users, tokens, call>>

Commit(r) ==
    /\ Goto(r, "commit", "enqueue")
    /\ users' = users \cup {NewUser(r)}
    /\ UNCHANGED <<queueVars, faults, now, tokens, call, status>>

\* The database call of a request raises; a commit may have been applied.
DatabaseRaises(r) ==
    /\ pc[r] \in {"lookup", "insert", "commit"}
    /\ Fault
    /\ Reply(r, pc[r], 500)
    /\ \/ UNCHANGED users
       \/ pc[r] = "commit" /\ users' = users \cup {NewUser(r)}
    /\ UNCHANGED <<queueVars, now, tokens, call>>

\* send_task, the token pair, the answer: no await between them
Enqueue(r) ==
    /\ Reply(r, "enqueue", 200)
    /\ SendTask(call[r].email)
    /\ IssueTokens(r)
    /\ UNCHANGED <<faults, now, users, call>>

\* Mutant: a broker that cannot be reached is not reported.
EnqueueSwallows(r) ==
    /\ Fault
    /\ Reply(r, "enqueue", 200)
    /\ IssueTokens(r)
    /\ UNCHANGED <<queueVars, now, users, call>>

\* The broker call raises, with the message stored or not.  The user stays.
EnqueueRaises(r) ==
    /\ Fault
    /\ Reply(r, "enqueue", 500)
    /\ SendTask(call[r].email) \/ UNCHANGED queueVars
    /\ UNCHANGED <<now, users, tokens, call>>

(***************************************************************************)
(* refresh and verify_token: no await, one step                            *)
(***************************************************************************)

\* jwt.decode accepts a signed token until it expires
Accepts(t, type) == t.exp > now /\ t.type = type

Refresh(r) ==
    /\ \E t \in tokens : Accepts(t, "refresh") /\ IssueTokens(t.user)
    /\ Reply(r, "new", 200)
    /\ UNCHANGED <<queueVars, faults, now, users, call>>

Verify(r) ==
    /\ \E t \in tokens : Accepts(t, "access")
    /\ Reply(r, "new", 200)
    /\ UNCHANGED <<queueVars, faults, now, users, tokens, call>>

\* Expired, of the wrong type, or not signed by the service at all
TokenRefused(r) ==
    /\ Reply(r, "new", InvalidTokenError)
    /\ UNCHANGED <<queueVars, faults, now, users, tokens, call>>

(***************************************************************************)
(* The API process dies with the requests it serves; PostgreSQL rolls back *)
(* what they had not committed.                                            *)
(***************************************************************************)
ServerDies ==
    /\ Fault
    /\ \E r \in Requests : pc[r] \notin {"new", "done"}
    /\ pc' = [r \in Requests |-> IF pc[r] = "new" THEN "new" ELSE "done"]
    /\ UNCHANGED <<queueVars, now, users, tokens, call, status>>

Clock ==
    /\ now < MaxTime
    /\ now' = now + 1
    /\ UNCHANGED <<queueVars, faults, users, tokens, call, pc, status>>

Serve(r) ==
    \/ Lookup(r) \/ LookupExists(r) \/ Login(r) \/ LoginRefused(r) \/ BcryptRaises(r)
    \/ Insert(r) \/ InsertViolatesIndex(r) \/ Commit(r) \/ Enqueue(r)

TokenCall(r) == Refresh(r) \/ Verify(r) \/ TokenRefused(r)

Queue == \E e \in Emails : QueueStep(e) /\ UNCHANGED requestVars

Next ==
    \/ \E r \in Requests : \/ Arrive(r) \/ Serve(r) \/ TokenCall(r)
                           \/ DatabaseRaises(r) \/ EnqueueRaises(r)
    \/ ServerDies
    \/ Clock
    \/ Queue

Spec == Init /\ [][Next]_vars

\* The event loop and the workers run what can run; nothing has to arrive or fail.
FairSpec ==
    /\ Spec
    /\ \A r \in Requests : WF_vars(Serve(r))
    /\ \A e \in Emails : WF_vars(Work(e) /\ UNCHANGED requestVars)

(***************************************************************************)
(* Properties                                                              *)
(***************************************************************************)

\* However registrations of one email interleave between their lookup and their
\* commit (auth.py:40-45), at most one row of that email is ever committed.
OneAccountPerEmail == \A u, v \in users : u.email = v.email => u = v

Registered(r) == call[r].kind = "register" /\ status[r] = 200

\* Read your writes: once a registration has been answered 200, no login with its
\* email and password is refused, and none ends in an exception of bcrypt.
LoginAfterRegister ==
    [][\A r, q \in Requests :
          (Registered(q) /\ call[r].kind = "login" /\ (LoginRefused(r) \/ BcryptRaises(r)))
              => \/ call[r].email # call[q].email
                 \/ call[r].password # call[q].password]_vars

\* No token, be it from a registration, a login or a chain of refreshes, names a
\* user who is not in the table: tokens are made behind the commit.
TokensNameUsers ==
    \A t \in tokens : \E u \in users : u.user = t.user

\* An e-mail is never sent, and no message for it exists, before the account it
\* announces is committed (auth.py:45-47 in this order).
MailNamesAccount ==
    \A e \in Emails : mail[e] # "none" => UsersOf(e) # {}

\* A committed account without a message is one whose registration is still on its
\* way to the broker, or ended without being answered 200: a client that was told
\* of success gets its e-mail attempted.
AccountHasMail ==
    \A u \in users :
        mail[u.email] = "none"
            => pc[u.user] = "enqueue" \/ status[u.user] \in {0, 500}

\* The same e-mail goes out again only for a retry or a worker that died with the
\* message, and never for a second message.
MailBudget ==
    \A e \in Emails : sent[e] =< 1 + retries[e] + lostRuns[e]

\* Every request that has begun is answered or dies with the server: no insert
\* waits for ever for another's row.
RequestsEnd ==
    \A r \in Requests : (pc[r] # "new") ~> (pc[r] = "done")

\* Every message is acknowledged or ends with the dead letters, whatever the
\* actor raises and however often workers die.
MailSettles ==
    \A e \in Emails : (mail[e] # "none") ~> (mail[e] \in {"done", "dead"})

\* ERRORS.md: "All errors are transformed into 4XX responses."
ErrorsAre4XX == \A r \in Requests : status[r] < 500
=============================================================================

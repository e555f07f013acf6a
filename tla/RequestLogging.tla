---------------------------- MODULE RequestLogging ----------------------------
(***************************************************************************)
(* RequestResponseLoggingMiddleware (share/fastapi/middlewares/            *)
(* request_response_logging.py), for one request after the other: it       *)
(* resolves the mask of the path (UrlMask), reads the body of a POST, PUT  *)
(* or PATCH to its end to log it, and hands the application a receive that *)
(* gives the body again; the application's messages pass through a send    *)
(* that notes them for the log.                                            *)
(*                                                                         *)
(* The ASGI server and the application are external.  A body is the        *)
(* sequence of its pieces, which are numbered.  A client that leaves       *)
(* before its body is complete makes receive answer http.disconnect, which *)
(* has neither a body nor a more_body.                                     *)
(***************************************************************************)
EXTENDS UrlMask

CONSTANTS
    MaxBodyLogSize,     \* MAX_BODY_LOG_SIZE, in pieces
    MaxPieces,          \* bound: pieces of a body
    MaxReceives,        \* bound: calls of receive by the application
    MaxLoggedRoutes     \* bound: routes of an application whose requests are
                        \* followed behind the resolver

ASSUME LoggingAssumption ==
    {MaxBodyLogSize, MaxPieces, MaxReceives, MaxLoggedRoutes} \subseteq Nat

VARIABLES
    stage,      \* where the middleware is
    request,    \* what the client sends
    received,   \* how many messages the server has handed out
    observed,   \* the pieces _observe_request_data has read
    bodySent,   \* body_sent of receive_wrapper
    got,        \* the messages the application has received
    noted,      \* what send_wrapper has noted: status_code and response_body_parts
    answered,   \* what the client has been sent
    records     \* the records of the request

exchangeVars == <<request, received, observed, bodySent, got, noted, answered>>
vars == <<maskVars, stage, exchangeVars, records>>

NoStatus == 0

Requests == [observed : BOOLEAN,            \* the method is one of METHODS_WITH_BODY
             pieces   : 0 .. MaxPieces,     \* what arrives of the body
             whole    : BOOLEAN]            \* whether that is all of it

Silence == [status |-> NoStatus, body |-> <<>>]

TypeOK ==
    /\ MaskTypeOK
    /\ stage \in {"resolving", "observing", "logging", "application", "over"}
    /\ request \in Requests
    /\ received \in Nat
    /\ observed \in Seq(Nat)
    /\ bodySent \in BOOLEAN
    /\ got \in Seq([type : {"request", "disconnect"}, body : Seq(Nat), more : BOOLEAN])
    /\ {noted, answered} \subseteq [status : Nat, body : Seq(Nat)]
    /\ Len(records) <= 2

Init ==
    /\ MaskInit
    /\ stage = "over"
    /\ request = [observed |-> FALSE, pieces |-> 0, whole |-> TRUE]
    /\ received = 0 /\ observed = <<>> /\ bodySent = FALSE
    /\ got = <<>> /\ noted = Silence /\ answered = Silence
    /\ records = <<>>

\* The body that arrives.
Body == [i \in 1 .. request.pieces |-> i]

\* The next message of the server: the pieces, the end of the body, and then the client is gone.
NextMessage ==
    CASE received < request.pieces ->
             [type |-> "request", body |-> <<received + 1>>, more |-> TRUE]
      [] received = request.pieces /\ request.whole ->
             [type |-> "request", body |-> <<>>, more |-> FALSE]
      [] OTHER ->
             [type |-> "disconnect", body |-> <<>>, more |-> FALSE]

Followed == Len(routes) <= MaxLoggedRoutes

Goto(from, to) == stage = from /\ stage' = to

(***************************************************************************)
(* A request arrives, and its mask is resolved.                            *)
(***************************************************************************)
Arrive(p) ==
    /\ stage = "over" \/ (answer # <<>> /\ ~Followed)
    /\ stage' = "resolving"
    /\ Request(p)
    /\ request' = [observed |-> FALSE, pieces |-> 0, whole |-> TRUE]
    /\ received' = 0 /\ observed' = <<>> /\ bodySent' = FALSE
    /\ got' = <<>> /\ noted' = Silence /\ answered' = Silence
    /\ records' = <<>>

ResolveMask == stage = "resolving" /\ Resolve /\ UNCHANGED <<stage, exchangeVars, records>>

\* _observe_request_data: only the methods with a body are observed.
Observe ==
    /\ stage = "resolving" /\ answer # <<>> /\ Followed
    /\ request' \in Requests
    /\ stage' = IF request'.observed THEN "observing" ELSE "logging"
    /\ UNCHANGED <<maskVars, received, observed, bodySent, got, noted, answered, records>>

\* message.get('body', b''), and the end when there is no message.get('more_body', False).
ObserveMessage ==
    /\ stage = "observing"
    /\ received' = received + 1
    /\ observed' = observed \o NextMessage.body
    /\ stage' = IF NextMessage.more THEN "observing" ELSE "logging"
    /\ UNCHANGED <<maskVars, request, bodySent, got, noted, answered, records>>

(***************************************************************************)
(* The data field of a record: none for an empty body; format_body, whose  *)
(* decoding is left out, replaces a body that is too large.  Making a      *)
(* record can raise (FormatRaises).                                        *)
(***************************************************************************)
Formatted(body) == IF Len(body) > MaxBodyLogSize THEN "too large" ELSE <<"body", body>>

DataField(body) == IF body = <<>> THEN "none" ELSE Formatted(body)

WriteRecord(type, body, status) ==
    records' = Append(records, [type |-> type, mask |-> answer, data |-> DataField(body), status |-> status])

LogRequest ==
    /\ Goto("logging", "application")
    /\ WriteRecord("REQUEST", observed, NoStatus)
    /\ UNCHANGED <<maskVars, exchangeVars>>

(***************************************************************************)
(* The application calls receive.  For an observed request that is         *)
(* receive_wrapper, which gives the whole body once and then passes on     *)
(* what the server has to say.                                             *)
(***************************************************************************)
ReceiveFromServer ==
    /\ got' = Append(got, NextMessage)
    /\ received' = received + 1
    /\ UNCHANGED bodySent

Receiving == stage = "application" /\ Len(got) < MaxReceives

\* Mutant: body_sent is a local variable of receive_wrapper.
ReceiveEveryTime ==
    /\ Receiving
    /\ IF request.observed
       THEN /\ got' = Append(got, [type |-> "request", body |-> observed, more |-> FALSE])
            /\ UNCHANGED <<received, bodySent>>
       ELSE ReceiveFromServer
    /\ UNCHANGED <<maskVars, stage, request, observed, noted, answered, records>>

Receive ==
    /\ Receiving
    /\ IF request.observed /\ ~bodySent
       THEN /\ got' = Append(got, [type |-> "request", body |-> observed, more |-> FALSE])
            /\ bodySent' = TRUE
            /\ UNCHANGED received
       ELSE ReceiveFromServer
    /\ UNCHANGED <<maskVars, stage, request, observed, noted, answered, records>>

(***************************************************************************)
(* The application sends the start of its response and pieces of its body. *)
(* send_wrapper notes every message and passes it on.                      *)
(***************************************************************************)
Reply ==
    /\ stage = "application"
    /\ \/ /\ noted.status = NoStatus
          /\ noted' \in [status : {200, 400}, body : {<<>>}]
       \/ /\ noted.status # NoStatus
          /\ Len(noted.body) < MaxPieces
          /\ noted' = [noted EXCEPT !.body = Append(@, Len(@) + 1)]

Send ==
    /\ Reply
    /\ answered' = noted'
    /\ UNCHANGED <<maskVars, stage, request, received, observed, bodySent, got, records>>

\* Passing a message on raises, or the application raises: the RESPONSE is recorded as 500.
ApplicationRaises ==
    /\ Goto("application", "over")
    /\ Reply \/ UNCHANGED noted
    /\ WriteRecord("RESPONSE", <<>>, 500)
    /\ UNCHANGED <<maskVars, request, received, observed, bodySent, got, answered>>

\* The braces of a path are taken for fields of the message, or a body nested too deeply is parsed:
\* the REQUEST is not recorded and the application not called, or the RESPONSE is not recorded.
FormatRaises ==
    /\ stage = "logging" \/ (stage = "application" /\ noted.status # NoStatus)
    /\ stage' = "over"
    /\ UNCHANGED <<maskVars, exchangeVars, records>>

\* A CancelledError is no Exception: nothing is recorded any more.
Cancel ==
    /\ stage \in {"observing", "application"}
    /\ stage' = "over"
    /\ UNCHANGED <<maskVars, exchangeVars, records>>

LogResponse ==
    /\ Goto("application", "over")
    /\ noted.status # NoStatus
    /\ WriteRecord("RESPONSE", noted.body, noted.status)
    /\ UNCHANGED <<maskVars, exchangeVars>>

Next ==
    \/ \E route \in Routes : Register(route) /\ UNCHANGED <<stage, exchangeVars, records>>
    \/ \E p \in Paths : Arrive(p)
    \/ ResolveMask
    \/ Observe
    \/ ObserveMessage
    \/ LogRequest
    \/ Receive
    \/ Send
    \/ ApplicationRaises
    \/ FormatRaises
    \/ Cancel
    \/ LogResponse

Spec == Init /\ [][Next]_vars
-----------------------------------------------------------------------------
Read == FlattenSeq([i \in DOMAIN got |-> got[i].body])

ToldComplete == \E i \in DOMAIN got : got[i].type = "request" /\ ~got[i].more

\* What the application reads is what the client sent.
BodyReadOnce ==
    /\ IsPrefix(Read, Body)
    /\ ToldComplete => Read = Body
    /\ (ToldComplete /\ ~request.observed) => request.whole

\* What is logged is what went to and fro.
RecordsTell ==
    \A i \in DOMAIN records :
        LET r == records[i] IN
        /\ r.type = "REQUEST" => r.data = DataField(IF request.observed THEN Body ELSE <<>>)
        /\ r.type = "RESPONSE" /\ r.status # 500 =>
               r.status = answered.status /\ r.data = DataField(answered.body)
        /\ r.type = "RESPONSE" /\ r.status = 500 => r.data = "none"

(***************************************************************************)
(* Observing a request does not disturb it: the application reads every    *)
(* piece of the body once and in order, is told that it is complete only   *)
(* when it has read all that arrived, and the records show the bodies and  *)
(* the status that were exchanged.  That the body is all the client meant  *)
(* to send holds for the requests that are not observed only: to an        *)
(* observed one a client that leaves looks like the end of its body        *)
(* (request_response_logging.py:57-65, 74-111).                            *)
(***************************************************************************)
ExchangeUndisturbed == BodyReadOnce /\ RecordsTell
=============================================================================

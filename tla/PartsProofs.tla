---------------------------- MODULE PartsProofs ----------------------------
(***************************************************************************)
(* The parts of the program that are checked alone, for every value of the *)
(* constants.  Each part has an inductive invariant of its own, which the  *)
(* steps of the other parts leave alone: first the worker of the           *)
(* redirector, then the pollers, the caches, the messages over pipes,      *)
(* whose numbers are written and read by functions that are defined by     *)
(* recursion, and the coroutine that reads an HTTP client.                 *)
(***************************************************************************)
EXTENDS MCParts, TLAPS, WellFoundedInduction

-----------------------------------------------------------------------------
(* The worker of the redirector.                                           *)

WorkerRequests == Worker!HTTPRequests \cup Worker!OtherRequests

\* A program is asked only what it can be asked.
Askable(r) ==
    /\ r.source # "web"
    /\ protocol = "url" => r.source \in {"proxy", "tls"}
    /\ r.source = "proxy" =>
         /\ r.parsed = "whole"
         /\ r.method = "content" \/ (r.method = "CONNECT" /\ r.port)

WorkerTypes ==
    /\ protocol \in {"url", "icap"} /\ enabled \in BOOLEAN
    /\ child \in {"runs", "gone", "absent"} /\ (~enabled => child = "absent")
    /\ unread \in Nat
    /\ w_place \in {"idle", "decide", "asked"}
    /\ w_place # "idle" => request \in WorkerRequests

WorkerInv ==
    /\ WorkerTypes
    /\ w_place = "asked" => Askable(request)
    /\ Worker!InStep /\ Worker!AnswersFit

Classifications == {"permit", "unknown", "http", "file", "redirect", "intercept", "fail"}
Allowed == {"download", "connect", "intercept", "page", "close", "fail"}

\* A command of a message: there is a server to ask only for what its method allows.
Fits(message, command) ==
    /\ command \in Allowed
    /\ command = "download" => message.method # "CONNECT"
    /\ command \in {"connect", "intercept"} => message.method = "CONNECT"

\* What a message is given for a classification fits its method.
LEMMA ResponseFits ==
    ASSUME NEW m, NEW classification \in Classifications
    PROVE  Fits(m, Worker!response(m, classification))
  <1> USE DEF Fits, Classifications, Allowed
  <1>1. CASE classification = "fail" \/ m.parsed = "none"
    BY <1>1 DEF Worker!response
  <1>2. CASE ~(classification = "fail" \/ m.parsed = "none") /\ m.method = "content"
    <2>1. Worker!response(m, classification) = Worker!contentResponse(m, classification)
      BY <1>2 DEF Worker!response
    <2> QED
      BY <1>2, <2>1 DEF Worker!contentResponse
  <1>3. CASE ~(classification = "fail" \/ m.parsed = "none") /\ m.method = "CONNECT"
    <2>1. Worker!response(m, classification) = Worker!connectResponse(m, classification)
      BY <1>3 DEF Worker!response
    <2> QED
      BY <1>3, <2>1 DEF Worker!connectResponse
  <1>4. CASE ~(classification = "fail" \/ m.parsed = "none") /\ m.method \notin {"content", "CONNECT"}
    BY <1>4 DEF Worker!response
  <1> QED
    BY <1>1, <1>2, <1>3, <1>4

\* An outcome that may be given to the client, or the failure of the worker.
Suits(r, outcome) ==
    /\ outcome.command \in Worker!CommandsOf(r.source) \cup {"fail"}
    /\ r.source = "proxy" => Fits(outcome.message, outcome.command)
    /\ r.source = "proxy" /\ (r.parsed # "whole" \/ (r.method = "CONNECT" /\ ~r.port)) =>
         outcome.command \in {"page", "close", "fail"}

\* What can be asked is the same before and after a step.
LEMMA RequestsStay == WorkerRequests' = WorkerRequests
  BY DEF WorkerRequests, Worker!HTTPRequests, Worker!OtherRequests, Worker!Parsed,
         Worker!Methods

\* A request that the worker takes is one of its kind.
LEMMA RequestTypes ==
    ASSUME NEW r \in WorkerRequests
    PROVE  /\ r.source \in {"proxy", "web", "tls", "icap", "passthrough"}
           /\ r.source = "proxy" =>
                /\ r.parsed \in {"none", "host", "whole"} /\ r.port \in BOOLEAN
                /\ r.method \in {"content", "CONNECT", "OPTIONS", "webdav", "other"}
  BY DEF WorkerRequests, Worker!HTTPRequests, Worker!OtherRequests, Worker!Parsed,
         Worker!Methods

\* What is decided without asking suits an HTTP request, unless the program is asked.
LEMMA HTTPDecided ==
    ASSUME NEW r \in WorkerRequests, r.source = "proxy", NEW command,
           command = Worker!doHTTP(r)
    PROVE  \/ /\ command = "defer" /\ enabled /\ Askable(r)
           \/ Suits(r, Worker!Outcome(Worker!MessageOf(r), command))
  <1> DEFINE outcome == Worker!Outcome(Worker!MessageOf(r), command)
  <1>1. outcome.command = command /\ outcome.message.method = r.method
    BY DEF Worker!Outcome, Worker!MessageOf
  <1>2. command = "page" => Suits(r, outcome)
    BY <1>1 DEF Suits, Fits, Allowed, Worker!CommandsOf
  <1>3. CASE r.parsed # "whole"
    BY <1>2, <1>3 DEF Worker!doHTTP
  <1>4. CASE r.parsed = "whole" /\ r.method = "content"
    <2>1. command = IF enabled THEN "defer" ELSE "download"
      BY <1>4 DEF Worker!doHTTP, Worker!doHTTPRequest
    <2> QED
      BY <1>1, <1>4, <2>1 DEF Suits, Fits, Allowed, Worker!CommandsOf, Askable
  <1>5. CASE r.parsed = "whole" /\ r.method = "CONNECT"
    <2>1. command = Worker!doHTTPConnect(r)
      BY <1>5 DEF Worker!doHTTP
    <2> QED
      BY <1>1, <1>2, <1>5, <2>1, RequestTypes
      DEF Suits, Fits, Allowed, Worker!CommandsOf, Askable, Worker!doHTTPConnect
  <1>6. CASE r.parsed = "whole" /\ r.method = "OPTIONS"
    <2>1. command = Worker!doHTTPOptions(r)
      BY <1>6 DEF Worker!doHTTP
    <2> QED
      BY <1>1, <1>2, <1>6, <2>1 DEF Suits, Fits, Allowed, Worker!CommandsOf, Worker!doHTTPOptions
  <1>7. CASE r.parsed = "whole" /\ r.method = "webdav"
    <2>1. command = "download"
      BY <1>7 DEF Worker!doHTTP
    <2> QED
      BY <1>1, <1>7, <2>1 DEF Suits, Fits, Allowed, Worker!CommandsOf
  <1>8. CASE r.parsed = "whole" /\ r.method = "other"
    BY <1>2, <1>8 DEF Worker!doHTTP
  <1> QED
    BY <1>3, <1>4, <1>5, <1>6, <1>7, <1>8, RequestTypes

\* And every other request.
LEMMA DecidedSuits ==
    ASSUME WorkerTypes, NEW r \in WorkerRequests, NEW command, command = Worker!Decided(r)
    PROVE  \/ command = "defer" /\ (child = "runs" => Askable(r))
           \/ Suits(r, Worker!Outcome(Worker!MessageOf(r), command))
  <1> DEFINE outcome == Worker!Outcome(Worker!MessageOf(r), command)
  <1>1. outcome.command = command
    BY DEF Worker!Outcome
  <1>2. CASE command = "fail"
    BY <1>1, <1>2 DEF Suits, Fits, Allowed, Worker!CommandsOf
  <1>3. CASE r.source = "proxy" /\ command # "fail"
    <2>1. command = Worker!doHTTP(r)
      BY <1>3 DEF Worker!Decided, Worker!decideURL, Worker!decideICAP
    <2> QED
      BY <1>3, <2>1, HTTPDecided
  <1>4. CASE r.source \in {"web", "tls", "icap", "passthrough"} /\ command # "fail" /\ protocol = "url"
    <2>1. command = Worker!decideURL(r)
      BY <1>4 DEF Worker!Decided
    <2> QED
      BY <1>1, <1>4, <2>1
      DEF Worker!decideURL, Worker!doMonitor, Worker!doTLS, Suits, Worker!CommandsOf, Askable
  <1>5. CASE r.source \in {"web", "tls", "icap", "passthrough"} /\ command # "fail" /\ protocol # "url"
    <2>1. command = Worker!decideICAP(r)
      BY <1>5 DEF Worker!Decided
    <2> QED
      BY <1>1, <1>5, <2>1 DEF Worker!decideICAP, Worker!doMonitor, Suits, Worker!CommandsOf, Askable
  <1> QED
    BY <1>2, <1>3, <1>4, <1>5, RequestTypes

\* What a program says of a message suits the request.
LEMMA MessageAnswered ==
    ASSUME NEW r, r.source = "proxy", Askable(r), NEW message, NEW command,
           Fits(message, command)
    PROVE  Suits(r, Worker!Outcome(message, command))
  BY DEF Worker!Outcome, Askable, Suits, Fits, Allowed, Worker!CommandsOf

\* An answer of a program that is told URLs suits the request it was asked about.
LEMMA URLSuits ==
    ASSUME NEW r, Askable(r), protocol = "url", NEW line \in Worker!URLAnswers
    PROVE  Suits(r, Worker!progressURL(r, line))
  <1>1. CASE r.source = "tls"
    BY <1>1 DEF Worker!progressURL, Worker!Outcome, Suits, Worker!CommandsOf
  <1>2. CASE r.source = "proxy"
    <2> DEFINE m == Worker!MessageOf(r)
               classification == Worker!classifyURL(line)
    <2>1. classification \in Classifications
      BY DEF Worker!classifyURL, Worker!URLAnswers, Classifications
    <2>2. Fits(m, Worker!response(m, classification))
      BY <2>1, ResponseFits
    <2>3. Worker!progressURL(r, line) = Worker!Outcome(m, Worker!response(m, classification))
      BY <1>2 DEF Worker!progressURL
    <2> HIDE DEF m, classification
    <2> QED
      BY <1>2, <2>2, <2>3, MessageAnswered
  <1> QED
    BY <1>1, <1>2 DEF Askable

\* So does an answer of a program that is told whole messages.
LEMMA ICAPSuits ==
    ASSUME NEW r \in WorkerRequests, Askable(r), NEW a \in Worker!ICAPAnswers
    PROVE  Suits(r, Worker!progressICAP(r, a))
  <1> DEFINE m == Worker!MessageOf(r)
             outcome == Worker!progressICAP(r, a)
  <1>0. a.kind \in {"permit", "content", "other", "unreadable", "modify", "intercept"}
    BY DEF Worker!ICAPAnswers
  <1>1. CASE a.kind = "unreadable"
    BY <1>1 DEF Worker!progressICAP, Worker!Outcome, Suits, Fits, Allowed
  <1>2. CASE a.kind # "unreadable" /\ r.source = "icap"
    BY <1>2 DEF Worker!progressICAP, Worker!Outcome, Suits, Worker!CommandsOf
  <1>3. CASE a.kind # "unreadable" /\ r.source = "tls"
    <2>1. outcome = Worker!Outcome(m, Worker!decideTLS(r, a))
      BY <1>3 DEF Worker!progressICAP
    <2>2. Worker!decideTLS(r, a) \in {"intercept", "fail", "close"}
      BY DEF Worker!decideTLS
    <2> QED
      BY <1>3, <2>1, <2>2 DEF Worker!Outcome, Suits, Worker!CommandsOf
  <1>4. CASE a.kind # "unreadable" /\ r.source = "passthrough"
    <2>1. outcome = Worker!Outcome(m, Worker!decidePassthrough(a))
      BY <1>4 DEF Worker!progressICAP
    <2> QED
      BY <1>4, <2>1 DEF Worker!decidePassthrough, Worker!Outcome, Suits, Worker!CommandsOf
  <1>5. CASE a.kind # "unreadable" /\ r.source = "proxy"
    <2>1. outcome = Worker!decideHTTP(r, a)
      BY <1>5 DEF Worker!progressICAP
    <2>2. /\ {"permit", "http", "intercept", "unknown"} \subseteq Classifications
          /\ Fits(m, "fail")
      BY DEF Classifications, Fits, Allowed
    <2>3. PICK message, command : outcome = Worker!Outcome(message, command) /\ Fits(message, command)
      <3>1. CASE a.kind \in {"permit", "other"}
        BY <2>1, <2>2, <3>1, ResponseFits DEF Worker!decideHTTP
      <3>2. CASE a.kind = "content"
        BY <2>1, <2>2, <3>2, ResponseFits DEF Worker!decideHTTP
      <3>3. CASE a.kind = "intercept"
        BY <2>1, <2>2, <3>3, ResponseFits DEF Worker!decideHTTP
      <3>4. CASE a.kind = "modify"
        BY <2>1, <2>2, <3>4, ResponseFits DEF Worker!decideHTTP
      <3> QED
        BY <1>0, <1>5, <3>1, <3>2, <3>3, <3>4
    <2> QED
      BY <1>5, <2>3, MessageAnswered
  <1> QED
    BY <1>1, <1>2, <1>3, <1>4, <1>5, RequestTypes DEF Askable

\* A suitable outcome becomes an answer that fits.
LEMMA AnsweredFits ==
    ASSUME NEW outcome, Suits(request, outcome), outcome.command # "fail",
           Worker!answered(outcome)
    PROVE  w_place' = "idle" /\ Worker!AnswersFit'
  <1>1. /\ w_place' = "idle"
        /\ answer' = [request |-> request, message |-> outcome.message, command |-> outcome.command]
    BY DEF Worker!answered
  <1> QED
    BY <1>1 DEF Worker!AnswersFit, Worker!CommandsOf, Suits, Fits

\* A failure leaves no answer unread, whatever the program did.
LEMMA FailedKeeps ==
    ASSUME WorkerInv, request \in WorkerRequests, Worker!failed,
           UNCHANGED <<protocol, enabled>>
    PROVE  WorkerInv'
  <1>1. /\ child' \in {"runs", "gone", "absent"} /\ (~enabled' => child' = "absent")
        /\ unread' = 0
    BY DEF Worker!failed
  <1>2. /\ w_place' \in {"idle", "decide"} /\ Worker!AnswersFit'
        /\ w_place' = "decide" => request' = request
    <2>1. CASE tainted
      <3> DEFINE outcome == Worker!Outcome(Worker!MessageOf(request), "close")
      <3>1. Worker!answered(outcome) /\ outcome.command = "close"
        BY <2>1 DEF Worker!failed, Worker!Outcome
      <3>2. Suits(request, outcome)
        BY <3>1, RequestTypes DEF Suits, Fits, Allowed, Worker!CommandsOf
      <3> HIDE DEF outcome
      <3> QED
        BY <3>1, <3>2, AnsweredFits
    <2>2. CASE ~tainted
      BY <2>2 DEF Worker!failed, WorkerInv, Worker!AnswersFit, Worker!CommandsOf
    <2> QED
      BY <2>1, <2>2
  <1> QED
    BY <1>1, <1>2, RequestsStay DEF WorkerInv, WorkerTypes, Worker!InStep

\* Every step of the worker preserves its invariant.
LEMMA WorkerStep ==
    ASSUME WorkerInv, Worker!Next
    PROVE  WorkerInv'
  <1>1. ASSUME NEW r \in Worker!HTTPRequests \cup Worker!OtherRequests, Worker!receive(r)
        PROVE  WorkerInv'
    BY <1>1, RequestsStay DEF Worker!receive, WorkerInv, WorkerTypes, WorkerRequests, Worker!InStep,
       Worker!AnswersFit, Worker!NoAnswer
  <1>2. ASSUME Worker!decide
        PROVE  WorkerInv'
    <2> DEFINE command == Worker!Decided(request)
               outcome == Worker!Outcome(Worker!MessageOf(request), command)
    <2>0. request \in WorkerRequests /\ WorkerTypes
      BY <1>2 DEF Worker!decide, WorkerInv, WorkerTypes, WorkerRequests
    <2>1. \/ command = "defer" /\ (child = "runs" => Askable(request))
          \/ Suits(request, outcome)
      BY <2>0, DecidedSuits
    <2>2. outcome.command = command
      BY DEF Worker!Outcome
    <2>3. UNCHANGED <<protocol, enabled>> /\ w_place = "decide"
      BY <1>2 DEF Worker!decide
    <2>4. CASE /\ command = "defer" /\ child = "runs"
               /\ w_place' = "asked" /\ unread' = unread + 1
               /\ UNCHANGED <<child, request, tainted, answer>>
      <3>1. Askable(request)'
        <4>1. Askable(request)
          BY <2>0, <2>1, <2>2, <2>4, RequestTypes DEF Suits, Worker!CommandsOf
        <4> QED
          BY <2>3, <2>4, <4>1 DEF Askable
      <3>2. Worker!AnswersFit'
        BY <2>4 DEF WorkerInv, Worker!AnswersFit, Worker!CommandsOf
      <3> QED
        BY RequestsStay, <2>0, <2>3, <2>4, <3>1, <3>2 DEF WorkerInv, WorkerTypes, WorkerRequests, Worker!InStep
    <2>5. CASE Worker!failed
      BY <2>0, <2>3, <2>5, FailedKeeps
    <2>6. CASE /\ command \notin {"defer", "fail"}
               /\ Worker!answered(outcome)
               /\ UNCHANGED <<child, unread>>
      <3>1. w_place' = "idle" /\ Worker!AnswersFit'
        BY <2>1, <2>2, <2>6, AnsweredFits
      <3> QED
        BY <2>0, <2>3, <2>6, <3>1 DEF WorkerInv, WorkerTypes, Worker!InStep
    <2> QED
      BY <1>2, <2>4, <2>5, <2>6 DEF Worker!decide
  <1>3. ASSUME Worker!childExits
        PROVE  WorkerInv'
    BY RequestsStay, <1>3 DEF Worker!childExits, WorkerInv, WorkerTypes, Worker!InStep, Worker!AnswersFit,
       Worker!CommandsOf, Askable
  <1>4. ASSUME Worker!progress
        PROVE  WorkerInv'
    <2>0. request \in WorkerRequests /\ WorkerTypes /\ Askable(request)
          /\ w_place = "asked" /\ UNCHANGED <<protocol, enabled>>
      BY <1>4 DEF Worker!progress, WorkerInv, WorkerTypes, WorkerRequests
    <2>1. ASSUME child = "runs", NEW outcome, Suits(request, outcome), Worker!reads(outcome)
          PROVE  WorkerInv'
      <3>1. CASE outcome.command = "fail"
        BY <2>0, <2>1, <3>1, FailedKeeps DEF Worker!reads, Worker!settled
      <3>2. CASE outcome.command # "fail"
        <4>1. Worker!answered(outcome) /\ child' = child /\ unread' = unread - 1
          BY <2>1, <3>2 DEF Worker!reads, Worker!settled
        <4>2. w_place' = "idle" /\ Worker!AnswersFit'
          BY <2>1, <3>2, <4>1, AnsweredFits
        <4> QED
          BY <2>0, <2>1, <4>1, <4>2 DEF WorkerInv, WorkerTypes, Worker!InStep
      <3> QED
        BY <3>1, <3>2
    <2>2. CASE child = "runs"
      <3>1. CASE protocol = "url" /\ \E line \in Worker!URLAnswers : Worker!reads(Worker!progressURL(request, line))
        BY <2>0, <2>1, <2>2, <3>1, URLSuits
      <3>2. CASE protocol = "icap" /\ \E a \in Worker!ICAPAnswers : Worker!reads(Worker!progressICAP(request, a))
        BY <2>0, <2>1, <2>2, <3>2, ICAPSuits
      <3> QED
        BY <1>4, <2>2, <3>1, <3>2 DEF Worker!progress
    <2>3. CASE child # "runs" /\ protocol = "url" /\ request.source = "tls"
      <3> DEFINE outcome == Worker!Outcome(Worker!MessageOf(request), "close")
      <3>1. Worker!answered(outcome) /\ outcome.command = "close" /\ UNCHANGED <<child, unread>>
        BY <1>4, <2>3 DEF Worker!progress, Worker!Outcome
      <3>2. Suits(request, outcome)
        BY <2>3, <3>1 DEF Suits, Worker!CommandsOf
      <3> HIDE DEF outcome
      <3>3. w_place' = "idle" /\ Worker!AnswersFit'
        BY <3>1, <3>2, AnsweredFits
      <3> QED
        BY <2>0, <2>3, <3>1, <3>3 DEF WorkerInv, WorkerTypes, Worker!InStep
    <2>4. CASE child # "runs" /\ ~(protocol = "url" /\ request.source = "tls")
      <3>1. Worker!failed
        BY <1>4, <2>4 DEF Worker!progress
      <3> QED
        BY <2>0, <3>1, FailedKeeps
    <2> QED
      BY <2>2, <2>3, <2>4
  <1> QED
    BY <1>1, <1>2, <1>3, <1>4 DEF Worker!Next

\* And so do the steps of the other parts.
LEMMA WorkerStutters ==
    ASSUME WorkerInv, UNCHANGED worker
    PROVE  WorkerInv'
  <1> USE DEF worker
  <1>1. WorkerTypes'
    BY RequestsStay DEF WorkerInv, WorkerTypes
  <1>2. (w_place = "asked" => Askable(request))' /\ Worker!InStep'
    BY DEF WorkerInv, Askable, Worker!InStep
  <1>3. Worker!AnswersFit'
    BY DEF WorkerInv, Worker!AnswersFit, Worker!CommandsOf, Worker!NoAnswer
  <1> QED
    BY <1>1, <1>2, <1>3 DEF WorkerInv

\* A worker whose program runs is in step with it, and clients get commands that fit them
\* and their requests (reactor/redirector/worker.py, icap.py, response.py).
THEOREM DecisionsAlwaysFit == Spec => []DecisionsFit
  <1>1. Init => WorkerInv
    BY DEF Init, Worker!Init, WorkerInv, WorkerTypes, Worker!InStep, Worker!AnswersFit
  <1>2. WorkerInv /\ [Next]_vars => WorkerInv'
    <2> SUFFICES ASSUME WorkerInv, [Next]_vars
                 PROVE  WorkerInv'
      OBVIOUS
    <2>1. Worker!Next \/ UNCHANGED worker
      BY DEF Next, Others, vars
    <2> QED
      BY <2>1, WorkerStep, WorkerStutters
  <1>3. WorkerInv => DecisionsFit
    BY DEF WorkerInv, DecisionsFit
  <1> QED
    BY <1>1, <1>2, <1>3, PTL DEF Spec
-----------------------------------------------------------------------------
(* The pollers that are made of epoll descriptors.                         *)

Events == ReadEvents \cup WriteEvents
Interest(e) == IF e \in ReadEvents THEN "in" ELSE "out"

\* The tables of a poller, and the descriptors, which sockets do not share.
Tables(fd, sockets, corked, fdtosock, errors) ==
    /\ fd \in [Socks -> Fds \cup {NoFd}]
    /\ \A s, t \in Socks : fd[s] = fd[t] /\ fd[s] # NoFd => s = t
    /\ sockets \in [Events -> SUBSET Socks]
    /\ corked \in [Events -> SUBSET Socks]
    /\ \A e \in Events : corked[e] \subseteq sockets[e]
    /\ fdtosock \in [Events -> [Fds -> Socks \cup {NoSock}]]
    /\ errors \in [Socks -> Events \cup {NoEvent}]

\* The kernel waits for the descriptors of the sockets that are watched, and for what
\* their event is about.
Registered(fd, sockets, corked, registered) ==
    /\ registered \in [Events -> SUBSET (Fds \X {"in", "out"})]
    /\ \A e \in Events : \A f \in Fds : \A i \in {"in", "out"} :
         <<f, i>> \in registered[e] <=>
           i = Interest(e) /\ \E s \in sockets[e] \ corked[e] : fd[s] = f

\* What is watched is open, and the descriptor of a subscribed socket leads to it.
Related(fd, sockets, corked, fdtosock) ==
    \A e \in Events : \A s \in sockets[e] :
      /\ s \notin corked[e] => fd[s] # NoFd
      /\ fd[s] # NoFd => fdtosock[e][fd[s]] = s

EpollInv ==
    /\ Tables(e_fd, e_sockets, e_corked, e_fdtosock, e_errors)
    /\ Registered(e_fd, e_sockets, e_corked, e_registered)
    /\ Related(e_fd, e_sockets, e_corked, e_fdtosock)

\* The sockets and the failures of each event, as Polling has them.
Subscribed(sockets, corked) ==
    [e \in Events |-> [socks |-> sockets[e], corked |-> corked[e]]]
Failed(errors) == [e \in Events |-> {s \in Socks : errors[s] = e}]

\* A first failure of a socket is remembered, a second is not.
LEMMA ErrorReported ==
    ASSUME NEW errors \in [Socks -> Events \cup {NoEvent}], NEW e \in Events, NEW s \in Socks,
           NEW later \in [Socks -> Events \cup {NoEvent}],
           \A t \in Socks : later[t] = IF t = s /\ errors[s] = NoEvent THEN e ELSE errors[t]
    PROVE  Failed(later) =
             IF \E x \in Events : s \in Failed(errors)[x] THEN Failed(errors)
             ELSE [Failed(errors) EXCEPT ![e] = @ \cup {s}]
  <1>1. (\E x \in Events : s \in Failed(errors)[x]) <=> errors[s] # NoEvent
    BY PartsAssumption DEF Failed, Events
  <1>2. CASE errors[s] # NoEvent
    <2>1. later = errors
      BY <1>2
    <2> QED
      BY <1>1, <1>2, <2>1
  <1>3. CASE errors[s] = NoEvent
    <2>1. \A t \in Socks : later[t] = IF t = s THEN e ELSE errors[t]
      BY <1>3
    <2>2. \A x \in Events : {t \in Socks : later[t] = x} =
            IF x = e THEN {t \in Socks : errors[t] = x} \cup {s} ELSE {t \in Socks : errors[t] = x}
      BY <1>3, <2>1, PartsAssumption DEF Events
    <2>3. Failed(later) = [Failed(errors) EXCEPT ![e] = @ \cup {s}]
      BY <2>2 DEF Failed
    <2> QED
      BY <1>1, <1>3, <2>3
  <1> QED
    BY <1>2, <1>3

\* A failure that is reported is forgotten.
LEMMA ErrorForgotten ==
    ASSUME NEW errors \in [Socks -> Events \cup {NoEvent}], NEW s \in Socks,
           NEW later \in [Socks -> Events \cup {NoEvent}],
           \A t \in Socks : later[t] = IF t = s THEN NoEvent ELSE errors[t]
    PROVE  Failed(later) = [x \in Events |-> Failed(errors)[x] \ {s}]
  <1>2. \A x \in Events : {t \in Socks : later[t] = x} = {t \in Socks : errors[t] = x} \ {s}
    BY PartsAssumption DEF Events
  <1> QED
    BY <1>2 DEF Failed

\* One socket of an event is not watched any more.
Unwatched(e, s, fd, sockets, corked, registered, left, leftCorked, kept) ==
    /\ \A x \in Events : left[x] \ leftCorked[x] =
         IF x = e THEN (sockets[x] \ corked[x]) \ {s} ELSE sockets[x] \ corked[x]
    /\ kept = [registered EXCEPT ![e] = @ \ {<<fd[s], Interest(e)>>}]

\* A socket that is not watched any more takes its own descriptor with it and no other.
LEMMA Unregistered ==
    ASSUME NEW fd, NEW sockets, NEW corked, NEW fdtosock, NEW errors, NEW registered,
           Tables(fd, sockets, corked, fdtosock, errors),
           Registered(fd, sockets, corked, registered),
           NEW e \in Events, NEW s \in Socks, NEW left, NEW leftCorked, NEW kept,
           Unwatched(e, s, fd, sockets, corked, registered, left, leftCorked, kept)
    PROVE  Registered(fd, left, leftCorked, kept)
  <1> USE DEF Unwatched
  <1>1. /\ kept \in [Events -> SUBSET (Fds \X {"in", "out"})]
        /\ \A x \in Events \ {e} : kept[x] = registered[x]
        /\ kept[e] = registered[e] \ {<<fd[s], Interest(e)>>}
    BY DEF Registered
  <1>2. ASSUME NEW f \in Fds, NEW i \in {"in", "out"}
        PROVE  <<f, i>> \in kept[e] <=>
                 i = Interest(e) /\ \E t \in left[e] \ leftCorked[e] : fd[t] = f
    <2>1. f # NoFd
      BY PartsAssumption
    <2>2. <<f, i>> \in registered[e] <=>
            i = Interest(e) /\ \E t \in sockets[e] \ corked[e] : fd[t] = f
      BY DEF Registered
    <2>3. CASE f = fd[s]
      <3>1. \A t \in sockets[e] \ corked[e] : fd[t] = f => t = s
        BY <2>1, <2>3 DEF Tables
      <3>2. ~\E t \in left[e] \ leftCorked[e] : fd[t] = f
        BY <3>1
      <3>3. i = Interest(e) => <<f, i>> \notin kept[e]
        BY <1>1, <2>3
      <3>4. i # Interest(e) => <<f, i>> \notin kept[e]
        BY <1>1, <2>2
      <3> QED
        BY <3>2, <3>3, <3>4
    <2>4. CASE f # fd[s]
      <3>1. <<f, i>> \in kept[e] <=> <<f, i>> \in registered[e]
        BY <1>1, <2>4
      <3>2. (\E t \in left[e] \ leftCorked[e] : fd[t] = f) <=>
              \E t \in sockets[e] \ corked[e] : fd[t] = f
        BY <2>4
      <3> QED
        BY <2>2, <3>1, <3>2
    <2> QED
      BY <2>3, <2>4
  <1>3. ASSUME NEW x \in Events \ {e}, NEW f \in Fds, NEW i \in {"in", "out"}
        PROVE  <<f, i>> \in kept[x] <=>
                 i = Interest(x) /\ \E t \in left[x] \ leftCorked[x] : fd[t] = f
    BY <1>1, ZenonT(40) DEF Registered
  <1> QED
    BY <1>1, <1>2, <1>3 DEF Registered

\* Each operation keeps the tables related, and is the operation of Polling on the sockets
\* that the tables stand for.
LEMMA EpollInit ==
    ASSUME Epoll!Init
    PROVE  EpollInv /\ Epoll!Abstract!Init
  <1> USE DEF Epoll!Init, Epoll!Events, Events
  <1>1. Tables(e_fd, e_sockets, e_corked, e_fdtosock, e_errors)
    BY PartsAssumption DEF Tables
  <1>2. Registered(e_fd, e_sockets, e_corked, e_registered)
    BY DEF Registered
  <1>3. Related(e_fd, e_sockets, e_corked, e_fdtosock)
    BY DEF Related
  <1>4. Epoll!Abstract!Init
    BY PartsAssumption DEF Epoll!Abstract!Init, Epoll!Abstract!Events, Epoll!NotPolled,
       Epoll!Abstract!NotPolled, Epoll!Abstract!NoSockets
  <1> QED
    BY <1>1, <1>2, <1>3, <1>4 DEF EpollInv

\* A socket is given a descriptor that no other has.
LEMMA EpollOpen ==
    ASSUME EpollInv, NEW s \in Socks, Epoll!open(s)
    PROVE  EpollInv' /\ Epoll!Abstract!Proceed
  <1> USE DEF EpollInv
  <1>0. PICK f \in Fds :
          /\ \A t \in Socks : e_fd[t] # f
          /\ e_fd' = [e_fd EXCEPT ![s] = f]
    BY DEF Epoll!open
  <1>1. /\ UNCHANGED <<e_sockets, e_corked, e_fdtosock, e_errors, e_registered>>
        /\ \A e \in Events : s \notin e_sockets[e]
    BY DEF Epoll!open, Epoll!Events, Events
  <1>2. Tables(e_fd, e_sockets, e_corked, e_fdtosock, e_errors)'
    BY <1>0, <1>1 DEF Tables
  <1>3. Registered(e_fd, e_sockets, e_corked, e_registered)'
    <2>1. \A e \in Events : \A t \in e_sockets[e] : e_fd'[t] = e_fd[t]
      BY <1>0, <1>1 DEF Tables
    <2> QED
      BY <1>1, <2>1 DEF Registered, Events
  <1>4. Related(e_fd, e_sockets, e_corked, e_fdtosock)'
    <2>1. \A e \in Events : \A t \in e_sockets[e] : e_fd'[t] = e_fd[t]
      BY <1>0, <1>1 DEF Tables
    <2> QED
      BY <1>1, <2>1 DEF Related, Events
  <1>5. Epoll!Abstract!Proceed
    BY <1>1 DEF Epoll!open, Epoll!Abstract!Proceed, Epoll!Events, Epoll!Abstract!Events,
       Epoll!NotPolled, Epoll!Abstract!NotPolled
  <1> QED
    BY <1>2, <1>3, <1>4, <1>5

\* A socket that is closed while it is corked stays in the tables.
LEMMA EpollClose ==
    ASSUME EpollInv, NEW s \in Socks, Epoll!close(s)
    PROVE  EpollInv' /\ Epoll!Abstract!Proceed
  <1> USE DEF EpollInv
  <1>0. e_fd' = [e_fd EXCEPT ![s] = NoFd] /\ e_fd[s] # NoFd
    BY DEF Epoll!close
  <1>1. /\ UNCHANGED <<e_sockets, e_corked, e_fdtosock, e_errors, e_registered>>
        /\ \A e \in Events : s \in e_sockets[e] => s \in e_corked[e]
    BY DEF Epoll!close, Epoll!Events, Events
  <1>2. Tables(e_fd, e_sockets, e_corked, e_fdtosock, e_errors)'
    BY <1>0, <1>1 DEF Tables
  <1>3. Registered(e_fd, e_sockets, e_corked, e_registered)'
    <2>1. \A e \in Events : \A t \in e_sockets[e] \ e_corked[e] : e_fd'[t] = e_fd[t]
      BY <1>0, <1>1 DEF Tables
    <2> QED
      BY <1>1, <2>1 DEF Registered, Events
  <1>4. Related(e_fd, e_sockets, e_corked, e_fdtosock)'
    <2>1. \A e \in Events : \A t \in e_sockets[e] : e_fd'[t] = IF t = s THEN NoFd ELSE e_fd[t]
      BY <1>0, <1>1 DEF Tables
    <2> QED
      BY <1>1, <2>1 DEF Related, Events
  <1>5. Epoll!Abstract!Proceed
    BY <1>1 DEF Epoll!close, Epoll!Abstract!Proceed, Epoll!Events, Epoll!Abstract!Events,
       Epoll!NotPolled, Epoll!Abstract!NotPolled
  <1> QED
    BY <1>2, <1>3, <1>4, <1>5
\* A socket is watched from now on, or its registration fails.
LEMMA EpollAdd ==
    ASSUME EpollInv, NEW e \in Events, NEW s \in Socks, Epoll!add(e, s, Interest(e))
    PROVE  EpollInv' /\ (Epoll!Abstract!Add(e, s) \/ Epoll!Abstract!Fail(e, s))
  <1> USE DEF EpollInv
  <1>0. /\ UNCHANGED <<e_fd, e_corked>> /\ s \notin e_sockets[e]
        /\ e_polled' = Epoll!NotPolled
    BY DEF Epoll!add
  <1>1. CASE e_fd[s] = NoFd
    <2>1. /\ UNCHANGED <<e_sockets, e_registered, e_fdtosock>>
          /\ e_errors' = [e_errors EXCEPT ![s] = IF @ = NoEvent THEN e ELSE @]
      BY <1>1 DEF Epoll!add, Epoll!report
    <2>2. Tables(e_fd, e_sockets, e_corked, e_fdtosock, e_errors)'
      BY <1>0, <2>1 DEF Tables
    <2>3. Registered(e_fd, e_sockets, e_corked, e_registered)'
      BY <1>0, <2>1 DEF Registered
    <2>4. Related(e_fd, e_sockets, e_corked, e_fdtosock)'
      BY <1>0, <2>1 DEF Related
    <2>5. Epoll!Abstract!Fail(e, s)
      <3>1. Subscribed(e_sockets', e_corked') =
              [Subscribed(e_sockets, e_corked) EXCEPT ![e] = Epoll!Abstract!removeSocket(@, s)]
        <4>1. e_sockets[e] \ {s} = e_sockets[e] /\ e_corked[e] \ {s} = e_corked[e]
          BY <1>0 DEF Tables
        <4> QED
          BY <1>0, <2>1, <4>1 DEF Subscribed, Epoll!Abstract!removeSocket
      <3>2. Failed(e_errors') =
              IF \E x \in Events : s \in Failed(e_errors)[x] THEN Failed(e_errors)
              ELSE [Failed(e_errors) EXCEPT ![e] = @ \cup {s}]
        <4>1. e_errors \in [Socks -> Events \cup {NoEvent}]
          BY DEF Tables
        <4>2. e_errors' \in [Socks -> Events \cup {NoEvent}]
          BY <2>2 DEF Tables
        <4>3. \A t \in Socks :
                e_errors'[t] = IF t = s /\ e_errors[s] = NoEvent THEN e ELSE e_errors[t]
          BY <2>1, <4>1
        <4> QED
          BY <4>1, <4>2, <4>3, ErrorReported
      <3> QED
        BY <1>0, <3>1, <3>2 DEF Epoll!Abstract!Fail, Subscribed, Failed, Epoll!Events,
           Epoll!Abstract!Events, Events, Epoll!NotPolled, Epoll!Abstract!NotPolled
    <2> QED
      BY <2>2, <2>3, <2>4, <2>5
  <1>2. CASE e_fd[s] # NoFd
    <2>1. /\ e_sockets' = [e_sockets EXCEPT ![e] = @ \cup {s}]
          /\ e_registered' = [e_registered EXCEPT ![e] = @ \cup {<<e_fd[s], Interest(e)>>}]
          /\ e_fdtosock' = [e_fdtosock EXCEPT ![e][e_fd[s]] = s]
          /\ UNCHANGED e_errors
      BY <1>2 DEF Epoll!add
    <2>2. Tables(e_fd, e_sockets, e_corked, e_fdtosock, e_errors)'
      BY <1>0, <1>2, <2>1 DEF Tables
    <2>3. Registered(e_fd, e_sockets, e_corked, e_registered)'
      BY <1>0, <1>2, <2>1 DEF Tables, Registered, Interest
    <2>4. Related(e_fd, e_sockets, e_corked, e_fdtosock)'
      BY <1>0, <1>2, <2>1 DEF Tables, Related
    <2>5. Epoll!Abstract!Add(e, s)
      BY <1>0, <2>1 DEF Tables, Epoll!Abstract!Add, Epoll!Abstract!addSocket, Epoll!Events,
         Epoll!Abstract!Events, Events, Epoll!NotPolled, Epoll!Abstract!NotPolled
    <2> QED
      BY <2>2, <2>3, <2>4, <2>5
  <1> QED
    BY <1>1, <1>2
\* A socket is not watched any more, whether or not its descriptor is still its own.
LEMMA EpollRemove ==
    ASSUME EpollInv, NEW e \in Events, NEW s \in Socks, Epoll!remove(e, s, Interest(e))
    PROVE  EpollInv' /\ Epoll!Abstract!Remove(e, s)
  <1> USE DEF EpollInv
  <1>0. /\ e_fd' = e_fd
        /\ e_sockets' = [e_sockets EXCEPT ![e] = @ \ {s}]
        /\ e_corked' = [e_corked EXCEPT ![e] = @ \ {s}]
        /\ e_errors' = [e_errors EXCEPT ![s] = NoEvent]
        /\ e_polled' = Epoll!NotPolled
    BY DEF Epoll!remove
  <1>1. e_fdtosock' = IF s \notin e_sockets[e] \/ e_fd[s] = NoFd THEN e_fdtosock
                      ELSE [e_fdtosock EXCEPT ![e][e_fd[s]] = NoSock]
    BY DEF Epoll!remove
  <1>2. e_registered' = IF s \notin e_sockets[e] THEN e_registered
                        ELSE [e_registered EXCEPT ![e] = @ \ {<<e_fd[s], Interest(e)>>}]
    BY DEF Epoll!remove
  <1>3. Tables(e_fd, e_sockets, e_corked, e_fdtosock, e_errors)'
    BY <1>0, <1>1 DEF Tables
  <1>4. Registered(e_fd, e_sockets, e_corked, e_registered)'
    <2>1. CASE s \notin e_sockets[e]
      <3>1. e_sockets' = e_sockets /\ e_corked' = e_corked
        BY <1>0, <2>1 DEF Tables
      <3> QED
        BY <1>0, <1>2, <2>1, <3>1 DEF Registered
    <2>2. CASE s \in e_sockets[e]
      <3>1. Unwatched(e, s, e_fd, e_sockets, e_corked, e_registered,
                      e_sockets', e_corked', e_registered')
        BY <1>0, <1>2, <2>2 DEF Tables, Unwatched
      <3>2. Registered(e_fd, e_sockets', e_corked', e_registered')
        BY <3>1, Unregistered
      <3> QED
        BY <1>0, <3>2 DEF Registered
    <2> QED
      BY <2>1, <2>2
  <1>5. Related(e_fd, e_sockets, e_corked, e_fdtosock)'
    BY <1>0, <1>1 DEF Tables, Related
  <1>6. Epoll!Abstract!Remove(e, s)
    <2>1. Subscribed(e_sockets', e_corked') =
            [Subscribed(e_sockets, e_corked) EXCEPT ![e] = Epoll!Abstract!removeSocket(@, s)]
      BY <1>0 DEF Tables, Subscribed, Epoll!Abstract!removeSocket
    <2>2. Failed(e_errors') = [x \in Events |-> Failed(e_errors)[x] \ {s}]
      <3>1. e_errors \in [Socks -> Events \cup {NoEvent}] /\ e_errors' \in [Socks -> Events \cup {NoEvent}]
        BY <1>3 DEF Tables
      <3>2. \A t \in Socks : e_errors'[t] = IF t = s THEN NoEvent ELSE e_errors[t]
        BY <1>0, <3>1
      <3> QED
        BY <3>1, <3>2, ErrorForgotten
    <2> QED
      BY <1>0, <2>1, <2>2 DEF Epoll!Abstract!Remove, Subscribed, Failed, Epoll!Events,
         Epoll!Abstract!Events, Events, Epoll!NotPolled, Epoll!Abstract!NotPolled
  <1> QED
    BY <1>3, <1>4, <1>5, <1>6

\* A corked socket stays in the table, without a registration.
LEMMA EpollCork ==
    ASSUME EpollInv, NEW e \in Events, NEW s \in Socks, Epoll!cork(e, s, Interest(e))
    PROVE  EpollInv' /\ Epoll!Abstract!Cork(e, s)
  <1> USE DEF EpollInv
  <1>0. /\ s \in e_sockets[e] \ e_corked[e]
        /\ e_corked' = [e_corked EXCEPT ![e] = @ \cup {s}]
        /\ e_registered' = [e_registered EXCEPT ![e] = @ \ {<<e_fd[s], Interest(e)>>}]
        /\ UNCHANGED <<e_fd, e_sockets, e_fdtosock, e_errors>>
        /\ e_polled' = Epoll!NotPolled
    BY DEF Epoll!cork
  <1>1. Tables(e_fd, e_sockets, e_corked, e_fdtosock, e_errors)'
    BY <1>0 DEF Tables
  <1>2. Registered(e_fd, e_sockets, e_corked, e_registered)'
    <2>1. Unwatched(e, s, e_fd, e_sockets, e_corked, e_registered,
                    e_sockets', e_corked', e_registered')
      BY <1>0 DEF Tables, Unwatched
    <2>2. Registered(e_fd, e_sockets', e_corked', e_registered')
      BY <2>1, Unregistered
    <2> QED
      BY <1>0, <2>2 DEF Registered
  <1>3. Related(e_fd, e_sockets, e_corked, e_fdtosock)'
    BY <1>0 DEF Tables, Related
  <1>4. Epoll!Abstract!Cork(e, s)
    BY <1>0 DEF Tables, Epoll!Abstract!Cork, Epoll!Abstract!corkSocket, Epoll!Events,
       Epoll!Abstract!Events, Events, Epoll!NotPolled, Epoll!Abstract!NotPolled
  <1> QED
    BY <1>1, <1>2, <1>3, <1>4

\* A socket that is uncorked is registered again, or was closed and has failed.
LEMMA EpollUncork ==
    ASSUME EpollInv, NEW e \in Events, NEW s \in Socks, Epoll!uncork(e, s, Interest(e))
    PROVE  EpollInv' /\ (Epoll!Abstract!Uncork(e, s) \/ Epoll!Abstract!Fail(e, s))
  <1> USE DEF EpollInv
  <1>0. /\ s \in e_corked[e] /\ s \in e_sockets[e]
        /\ e_corked' = [e_corked EXCEPT ![e] = @ \ {s}]
        /\ UNCHANGED <<e_fd, e_fdtosock>>
        /\ e_polled' = Epoll!NotPolled
    BY DEF Epoll!uncork, Tables
  <1>1. CASE e_fd[s] = NoFd
    <2>1. /\ e_sockets' = [e_sockets EXCEPT ![e] = @ \ {s}]
          /\ e_errors' = [e_errors EXCEPT ![s] = IF @ = NoEvent THEN e ELSE @]
          /\ UNCHANGED e_registered
      BY <1>1 DEF Epoll!uncork, Epoll!report
    <2>2. Tables(e_fd, e_sockets, e_corked, e_fdtosock, e_errors)'
      BY <1>0, <2>1 DEF Tables
    <2>3. Registered(e_fd, e_sockets, e_corked, e_registered)'
      <3>1. \A x \in Events : e_sockets'[x] \ e_corked'[x] = e_sockets[x] \ e_corked[x]
        BY <1>0, <2>1 DEF Tables
      <3> QED
        BY <1>0, <2>1, <3>1 DEF Registered
    <2>4. Related(e_fd, e_sockets, e_corked, e_fdtosock)'
      BY <1>0, <2>1 DEF Tables, Related
    <2>5. Epoll!Abstract!Fail(e, s)
      <3>1. Subscribed(e_sockets', e_corked') =
              [Subscribed(e_sockets, e_corked) EXCEPT ![e] = Epoll!Abstract!removeSocket(@, s)]
        BY <1>0, <2>1 DEF Tables, Subscribed, Epoll!Abstract!removeSocket
      <3>2. Failed(e_errors') =
              IF \E x \in Events : s \in Failed(e_errors)[x] THEN Failed(e_errors)
              ELSE [Failed(e_errors) EXCEPT ![e] = @ \cup {s}]
        <4>1. e_errors \in [Socks -> Events \cup {NoEvent}]
          BY DEF Tables
        <4>2. e_errors' \in [Socks -> Events \cup {NoEvent}]
          BY <2>2 DEF Tables
        <4>3. \A t \in Socks :
                e_errors'[t] = IF t = s /\ e_errors[s] = NoEvent THEN e ELSE e_errors[t]
          BY <2>1, <4>1
        <4> QED
          BY <4>1, <4>2, <4>3, ErrorReported
      <3> QED
        BY <1>0, <3>1, <3>2 DEF Epoll!Abstract!Fail, Subscribed, Failed, Epoll!Events,
           Epoll!Abstract!Events, Events, Epoll!NotPolled, Epoll!Abstract!NotPolled
    <2> QED
      BY <2>2, <2>3, <2>4, <2>5
  <1>2. CASE e_fd[s] # NoFd
    <2>1. /\ e_registered' = [e_registered EXCEPT ![e] = @ \cup {<<e_fd[s], Interest(e)>>}]
          /\ UNCHANGED <<e_sockets, e_errors>>
      BY <1>2 DEF Epoll!uncork
    <2>2. Tables(e_fd, e_sockets, e_corked, e_fdtosock, e_errors)'
      BY <1>0, <2>1 DEF Tables
    <2>3. Registered(e_fd, e_sockets, e_corked, e_registered)'
      BY <1>0, <1>2, <2>1 DEF Tables, Registered, Interest
    <2>4. Related(e_fd, e_sockets, e_corked, e_fdtosock)'
      BY <1>0, <1>2, <2>1 DEF Tables, Related
    <2>5. Epoll!Abstract!Uncork(e, s)
      BY <1>0, <2>1 DEF Tables, Epoll!Abstract!Uncork, Epoll!Abstract!uncorkSocket, Epoll!Events,
         Epoll!Abstract!Events, Events, Epoll!NotPolled, Epoll!Abstract!NotPolled
    <2> QED
      BY <2>2, <2>3, <2>4, <2>5
  <1> QED
    BY <1>1, <1>2

\* An event is cleared of all its sockets.
LEMMA EpollClear ==
    ASSUME EpollInv, NEW e \in Events, Epoll!clear(e)
    PROVE  EpollInv' /\ Epoll!Abstract!Clear(e)
  <1> USE DEF EpollInv
  <1>0. /\ e_sockets' = [e_sockets EXCEPT ![e] = {}]
        /\ e_corked' = [e_corked EXCEPT ![e] = {}]
        /\ e_fdtosock' = [e_fdtosock EXCEPT ![e] = [f \in Fds |-> NoSock]]
        /\ e_registered' = [e_registered EXCEPT ![e] = {}]
        /\ UNCHANGED <<e_fd, e_errors>>
        /\ e_polled' = Epoll!NotPolled
    BY DEF Epoll!clear
  <1>1. Tables(e_fd, e_sockets, e_corked, e_fdtosock, e_errors)'
    BY <1>0 DEF Tables
  <1>2. Registered(e_fd, e_sockets, e_corked, e_registered)'
    BY <1>0 DEF Tables, Registered
  <1>3. Related(e_fd, e_sockets, e_corked, e_fdtosock)'
    BY <1>0 DEF Tables, Related
  <1>4. Epoll!Abstract!Clear(e)
    BY <1>0 DEF Tables, Epoll!Abstract!Clear, Epoll!Abstract!NoSockets, Epoll!Events,
       Epoll!Abstract!Events, Events, Epoll!NotPolled, Epoll!Abstract!NotPolled
  <1> QED
    BY <1>1, <1>2, <1>3, <1>4

\* A poll reports what Polling may report, and the failures that are remembered.
LEMMA EpollPoll ==
    ASSUME EpollInv, NEW ready \in Epoll!Ready, Epoll!poll(ready)
    PROVE  EpollInv' /\ ready \in Epoll!Abstract!Ready /\ Epoll!Abstract!Poll(ready)
  <1> USE DEF EpollInv
  <1>0. UNCHANGED <<e_fd, e_sockets, e_corked, e_fdtosock, e_errors, e_registered>>
    BY DEF Epoll!poll
  <1>1. EpollInv'
    BY <1>0 DEF Tables, Registered, Related
  <1>2. /\ ready \in SUBSET (Socks \X {"in", "out"})
        /\ \A s \in Socks, i \in {"in", "out"} : <<s, i>> \in ready => e_fd[s] # NoFd
    BY DEF Epoll!Ready
  <1>3. \A e \in Events :
          Epoll!polledSockets(e, ready) =
            {s \in e_sockets[e] \ e_corked[e] : <<s, Interest(e)>> \in ready}
    <2> SUFFICES ASSUME NEW e \in Events
                 PROVE  Epoll!polledSockets(e, ready) =
                          {s \in e_sockets[e] \ e_corked[e] : <<s, Interest(e)>> \in ready}
      OBVIOUS
    <2>1. ASSUME NEW x \in Epoll!polledSockets(e, ready)
          PROVE  x \in {s \in e_sockets[e] \ e_corked[e] : <<s, Interest(e)>> \in ready}
      <3>1. PICK f \in Fds, s \in Socks, i \in {"in", "out"} :
              /\ x = e_fdtosock[e][f]
              /\ e_fd[s] = f /\ <<s, i>> \in ready /\ <<f, i>> \in e_registered[e]
        BY DEF Epoll!polledSockets
      <3>2. PICK t \in e_sockets[e] \ e_corked[e] : e_fd[t] = f /\ i = Interest(e)
        BY <3>1 DEF Registered
      <3>3. t = s
        BY <1>2, <3>1, <3>2 DEF Tables
      <3> QED
        BY <1>2, <3>1, <3>2, <3>3 DEF Related
    <2>2. ASSUME NEW s \in e_sockets[e] \ e_corked[e], <<s, Interest(e)>> \in ready
          PROVE  s \in Epoll!polledSockets(e, ready)
      <3>1. s \in Socks /\ Interest(e) \in {"in", "out"}
        BY DEF Tables, Interest
      <3>2. e_fd[s] \in Fds /\ e_fdtosock[e][e_fd[s]] = s
        BY <1>2, <2>2, <3>1 DEF Tables, Related
      <3>3. <<e_fd[s], Interest(e)>> \in e_registered[e]
        BY <3>1, <3>2 DEF Registered
      <3> QED
        BY <2>2, <3>1, <3>2, <3>3 DEF Epoll!polledSockets
    <2> QED
      BY <2>1, <2>2
  <1>4. Epoll!Abstract!Poll(ready)
    <2>1. Epoll!Abstract!Reports(ready) =
            [e \in Events |-> Epoll!polledSockets(e, ready) \cup {s \in Socks : e_errors[s] = e}]
      BY <1>3 DEF Epoll!Abstract!Reports, Epoll!Abstract!Watched, Epoll!Abstract!Interest, Interest,
         Epoll!Abstract!Events, Epoll!Events, Events
    <2> QED
      BY <1>0, <2>1 DEF Epoll!poll, Epoll!Abstract!Poll, Epoll!Events, Events
  <1> QED
    BY <1>1, <1>2, <1>4 DEF Epoll!Abstract!Ready

\* Every step of the poller is one of the operations above.
LEMMA EpollStep ==
    ASSUME EpollInv, Epoll!Next
    PROVE  EpollInv' /\ Epoll!Abstract!Next
  <1> USE DEF Epoll!Events, Epoll!Abstract!Events, Events
  <1>1. ASSUME NEW s \in Socks, Epoll!open(s) \/ Epoll!close(s)
        PROVE  EpollInv' /\ Epoll!Abstract!Next
    BY <1>1, EpollOpen, EpollClose DEF Epoll!Abstract!Next
  <1>2. ASSUME NEW e \in Events, Epoll!clearRead(e) \/ Epoll!clearWrite(e)
        PROVE  EpollInv' /\ Epoll!Abstract!Next
    BY <1>2, EpollClear DEF Epoll!Abstract!Next, Epoll!clearRead, Epoll!clearWrite
  <1>3. ASSUME NEW e \in Events, NEW s \in Socks, Epoll!Calls(e, s)
        PROVE  EpollInv' /\ Epoll!Abstract!Next
    <2>1. \/ Epoll!add(e, s, Interest(e)) \/ Epoll!remove(e, s, Interest(e))
          \/ Epoll!cork(e, s, Interest(e)) \/ Epoll!uncork(e, s, Interest(e))
      BY <1>3, PartsAssumption DEF Interest, Epoll!Calls,
         Epoll!addReadSocket, Epoll!removeReadSocket, Epoll!corkReadSocket, Epoll!uncorkReadSocket,
         Epoll!addWriteSocket, Epoll!removeWriteSocket, Epoll!corkWriteSocket,
         Epoll!uncorkWriteSocket
    <2> QED
      BY <2>1, EpollAdd, EpollRemove, EpollCork, EpollUncork DEF Epoll!Abstract!Next
  <1>4. ASSUME NEW ready \in Epoll!Ready, Epoll!poll(ready)
        PROVE  EpollInv' /\ Epoll!Abstract!Next
    BY <1>4, EpollPoll DEF Epoll!Abstract!Next
  <1> QED
    BY <1>1, <1>2, <1>3, <1>4 DEF Epoll!Next

\* A poller made of epoll descriptors implements Polling (network/async/epoll.py).
LEMMA EpollImplements == Spec => Epoll!Implements
  <1>1. Init => EpollInv /\ Epoll!Abstract!Init
    BY EpollInit DEF Init
  <1>2. EpollInv /\ [Next]_vars => EpollInv' /\ [Epoll!Abstract!Next]_(Epoll!Abstract!vars)
    <2> SUFFICES ASSUME EpollInv, [Next]_vars
                 PROVE  EpollInv' /\ [Epoll!Abstract!Next]_(Epoll!Abstract!vars)
      OBVIOUS
    <2>1. CASE Epoll!Next
      BY <2>1, EpollStep
    <2>2. CASE UNCHANGED epoll
      BY <2>2 DEF epoll, EpollInv, Tables, Registered, Related, Epoll!Abstract!vars, Epoll!Events
    <2> QED
      BY <2>1, <2>2 DEF Next, Others, vars
  <1> QED
    BY <1>1, <1>2, PTL DEF Spec, Epoll!Implements, Epoll!Abstract!Spec
-----------------------------------------------------------------------------
(* Kernel queues.                                                          *)

\* The table of descriptors has the sockets that are subscribed, and no others.
Matched(fd, sockets, fdtosock) ==
    \A e \in Events :
      /\ \A s \in sockets[e] : fd[s] # NoFd /\ fdtosock[e][fd[s]] = s
      /\ \A f \in Fds : fdtosock[e][f] # NoSock =>
           fdtosock[e][f] \in sockets[e] /\ fd[fdtosock[e][f]] = f

KQueueInv ==
    /\ Tables(k_fd, k_sockets, k_corked, k_fdtosock, k_errors)
    /\ Registered(k_fd, k_sockets, k_corked, k_filters)
    /\ Matched(k_fd, k_sockets, k_fdtosock)
    /\ KQueue!NeverRaises

\* As for epoll, each operation keeps the tables related and is one of Polling.
LEMMA KQueueInit ==
    ASSUME KQueue!Init
    PROVE  KQueueInv /\ KQueue!Abstract!Init
  <1> USE DEF KQueue!Init, KQueue!Events, Events
  <1>1. Tables(k_fd, k_sockets, k_corked, k_fdtosock, k_errors)
    BY PartsAssumption DEF Tables
  <1>2. Registered(k_fd, k_sockets, k_corked, k_filters)
    BY DEF Registered
  <1>3. Matched(k_fd, k_sockets, k_fdtosock) /\ KQueue!NeverRaises
    BY DEF Matched, KQueue!NeverRaises
  <1>4. KQueue!Abstract!Init
    BY PartsAssumption DEF KQueue!Abstract!Init, KQueue!Abstract!Events, KQueue!NotPolled,
       KQueue!Abstract!NotPolled, KQueue!Abstract!NoSockets
  <1> QED
    BY <1>1, <1>2, <1>3, <1>4 DEF KQueueInv

\* A socket is given a descriptor that no other has.
LEMMA KQueueOpen ==
    ASSUME KQueueInv, NEW s \in Socks, KQueue!open(s)
    PROVE  KQueueInv' /\ KQueue!Abstract!Proceed
  <1> USE DEF KQueueInv
  <1>0. PICK f \in Fds :
          /\ \A t \in Socks : k_fd[t] # f
          /\ k_fd' = [k_fd EXCEPT ![s] = f]
    BY DEF KQueue!open
  <1>1. /\ UNCHANGED <<k_sockets, k_corked, k_fdtosock, k_errors, k_filters, raised>>
        /\ \A e \in Events : s \notin k_sockets[e]
    BY DEF KQueue!open, KQueue!Events, Events
  <1>2. Tables(k_fd, k_sockets, k_corked, k_fdtosock, k_errors)'
    BY <1>0, <1>1 DEF Tables
  <1>3. \A e \in Events : \A t \in k_sockets[e] : k_fd'[t] = k_fd[t]
    BY <1>0, <1>1 DEF Tables
  <1>4. Registered(k_fd, k_sockets, k_corked, k_filters)'
    BY <1>1, <1>3 DEF Registered, Events
  <1>5. Matched(k_fd, k_sockets, k_fdtosock)' /\ KQueue!NeverRaises'
    BY <1>1, <1>3 DEF Matched, KQueue!NeverRaises, Events
  <1>6. KQueue!Abstract!Proceed
    BY <1>1 DEF KQueue!open, KQueue!Abstract!Proceed, KQueue!Events, KQueue!Abstract!Events,
       KQueue!NotPolled, KQueue!Abstract!NotPolled
  <1> QED
    BY <1>2, <1>4, <1>5, <1>6

\* A socket is closed when nothing watches it.
LEMMA KQueueClose ==
    ASSUME KQueueInv, NEW s \in Socks, KQueue!close(s)
    PROVE  KQueueInv' /\ KQueue!Abstract!Proceed
  <1> USE DEF KQueueInv
  <1>0. k_fd' = [k_fd EXCEPT ![s] = NoFd] /\ k_fd[s] # NoFd
    BY DEF KQueue!close
  <1>1. /\ UNCHANGED <<k_sockets, k_corked, k_fdtosock, k_errors, k_filters, raised>>
        /\ \A e \in Events : s \notin k_sockets[e]
    BY DEF KQueue!close, KQueue!Events, Events
  <1>2. Tables(k_fd, k_sockets, k_corked, k_fdtosock, k_errors)'
    BY <1>0, <1>1 DEF Tables
  <1>3. \A e \in Events : \A t \in k_sockets[e] : k_fd'[t] = k_fd[t]
    BY <1>0, <1>1 DEF Tables
  <1>4. Registered(k_fd, k_sockets, k_corked, k_filters)'
    BY <1>1, <1>3 DEF Registered, Events
  <1>5. Matched(k_fd, k_sockets, k_fdtosock)' /\ KQueue!NeverRaises'
    BY <1>1, <1>3 DEF Matched, KQueue!NeverRaises, Events
  <1>6. KQueue!Abstract!Proceed
    BY <1>1 DEF KQueue!close, KQueue!Abstract!Proceed, KQueue!Events, KQueue!Abstract!Events,
       KQueue!NotPolled, KQueue!Abstract!NotPolled
  <1> QED
    BY <1>2, <1>4, <1>5, <1>6

\* A socket is watched from now on, and no assertion fails.
LEMMA KQueueAdd ==
    ASSUME KQueueInv, NEW e \in Events, NEW s \in Socks, KQueue!add(e, s, Interest(e))
    PROVE  KQueueInv' /\ KQueue!Abstract!Add(e, s)
  <1> USE DEF KQueueInv
  <1>0. /\ s \notin k_sockets[e] /\ k_fd[s] # NoFd
        /\ k_sockets' = [k_sockets EXCEPT ![e] = @ \cup {s}]
        /\ UNCHANGED <<k_fd, k_corked, k_errors>>
        /\ k_polled' = KQueue!NotPolled
    BY DEF KQueue!add
  <1>1. k_fdtosock[e][k_fd[s]] = NoSock
    <2>1. k_fd[s] \in Fds
      BY <1>0 DEF Tables
    <2> QED
      BY <1>0, <2>1 DEF Tables, Matched
  <1>2. /\ k_fdtosock' = [k_fdtosock EXCEPT ![e][k_fd[s]] = s]
        /\ k_filters' = [k_filters EXCEPT ![e] = @ \cup {<<k_fd[s], Interest(e)>>}]
        /\ UNCHANGED raised
    BY <1>1 DEF KQueue!add
  <1>3. Tables(k_fd, k_sockets, k_corked, k_fdtosock, k_errors)'
    BY <1>0, <1>2 DEF Tables
  <1>4. Registered(k_fd, k_sockets, k_corked, k_filters)'
    BY <1>0, <1>2 DEF Tables, Registered, Interest
  <1>5. Matched(k_fd, k_sockets, k_fdtosock)' /\ KQueue!NeverRaises'
    BY <1>0, <1>1, <1>2 DEF Tables, Matched, KQueue!NeverRaises
  <1>6. KQueue!Abstract!Add(e, s)
    <2>1. Subscribed(k_sockets', k_corked') =
            [Subscribed(k_sockets, k_corked) EXCEPT ![e] = KQueue!Abstract!addSocket(@, s)]
      BY <1>0 DEF Tables, Subscribed, KQueue!Abstract!addSocket
    <2> QED
      BY <1>0, <2>1 DEF KQueue!Abstract!Add, Subscribed, KQueue!Events,
         KQueue!Abstract!Events, Events, KQueue!NotPolled, KQueue!Abstract!NotPolled
  <1> QED
    BY <1>3, <1>4, <1>5, <1>6

\* A socket is not watched any more.
LEMMA KQueueRemove ==
    ASSUME KQueueInv, NEW e \in Events, NEW s \in Socks, KQueue!remove(e, s, Interest(e))
    PROVE  KQueueInv' /\ KQueue!Abstract!Remove(e, s)
  <1> USE DEF KQueueInv
  <1>0. /\ k_fd' = k_fd /\ raised' = raised /\ k_fd[s] # NoFd
        /\ k_sockets' = [k_sockets EXCEPT ![e] = @ \ {s}]
        /\ k_corked' = [k_corked EXCEPT ![e] = @ \ {s}]
        /\ k_errors' = [k_errors EXCEPT ![s] = NoEvent]
        /\ k_polled' = KQueue!NotPolled
    BY DEF KQueue!remove
  <1>1. k_fdtosock' = IF s \notin k_sockets[e] THEN k_fdtosock
                      ELSE [k_fdtosock EXCEPT ![e][k_fd[s]] = NoSock]
    BY DEF KQueue!remove
  <1>2. k_filters' = IF s \notin k_sockets[e] THEN k_filters
                     ELSE [k_filters EXCEPT ![e] = @ \ {<<k_fd[s], Interest(e)>>}]
    BY DEF KQueue!remove
  <1>3. Tables(k_fd, k_sockets, k_corked, k_fdtosock, k_errors)'
    BY <1>0, <1>1 DEF Tables
  <1>4. Registered(k_fd, k_sockets, k_corked, k_filters)' /\ Matched(k_fd, k_sockets, k_fdtosock)'
    <2>1. CASE s \notin k_sockets[e]
      <3>1. k_sockets' = k_sockets /\ k_corked' = k_corked
        BY <1>0, <2>1 DEF Tables
      <3> QED
        BY <1>0, <1>1, <1>2, <2>1, <3>1 DEF Registered, Matched
    <2>2. CASE s \in k_sockets[e]
      <3>1. Unwatched(e, s, k_fd, k_sockets, k_corked, k_filters,
                      k_sockets', k_corked', k_filters')
        BY <1>0, <1>2, <2>2 DEF Tables, Unwatched
      <3>2. Registered(k_fd, k_sockets', k_corked', k_filters')
        BY <3>1, Unregistered
      <3>3. Matched(k_fd, k_sockets, k_fdtosock)'
        BY <1>0, <1>1, <2>2 DEF Tables, Matched
      <3> QED
        BY <1>0, <3>2, <3>3 DEF Registered
    <2> QED
      BY <2>1, <2>2
  <1>5. KQueue!Abstract!Remove(e, s)
    <2>1. Subscribed(k_sockets', k_corked') =
            [Subscribed(k_sockets, k_corked) EXCEPT ![e] = KQueue!Abstract!removeSocket(@, s)]
      BY <1>0 DEF Tables, Subscribed, KQueue!Abstract!removeSocket
    <2>2. Failed(k_errors') = [x \in Events |-> Failed(k_errors)[x] \ {s}]
      <3>1. k_errors \in [Socks -> Events \cup {NoEvent}] /\ k_errors' \in [Socks -> Events \cup {NoEvent}]
        BY <1>3 DEF Tables
      <3>2. \A t \in Socks : k_errors'[t] = IF t = s THEN NoEvent ELSE k_errors[t]
        BY <1>0, <3>1
      <3> QED
        BY <3>1, <3>2, ErrorForgotten
    <2> QED
      BY <1>0, <2>1, <2>2 DEF KQueue!Abstract!Remove, Subscribed, Failed, KQueue!Events,
         KQueue!Abstract!Events, Events, KQueue!NotPolled, KQueue!Abstract!NotPolled
  <1> QED
    BY <1>0, <1>3, <1>4, <1>5 DEF KQueue!NeverRaises

\* A corked socket keeps its descriptor and loses its filter.
LEMMA KQueueCork ==
    ASSUME KQueueInv, NEW e \in Events, NEW s \in Socks, KQueue!cork(e, s, Interest(e))
    PROVE  KQueueInv' /\ KQueue!Abstract!Cork(e, s)
  <1> USE DEF KQueueInv
  <1>0. /\ s \in k_sockets[e] \ k_corked[e]
        /\ k_corked' = [k_corked EXCEPT ![e] = @ \cup {s}]
        /\ k_filters' = [k_filters EXCEPT ![e] = @ \ {<<k_fd[s], Interest(e)>>}]
        /\ UNCHANGED <<k_fd, k_sockets, k_fdtosock, k_errors, raised>>
        /\ k_polled' = KQueue!NotPolled
    BY DEF KQueue!cork
  <1>1. Tables(k_fd, k_sockets, k_corked, k_fdtosock, k_errors)'
    BY <1>0 DEF Tables
  <1>2. Registered(k_fd, k_sockets, k_corked, k_filters)'
    <2>1. Unwatched(e, s, k_fd, k_sockets, k_corked, k_filters,
                    k_sockets', k_corked', k_filters')
      BY <1>0 DEF Tables, Unwatched
    <2>2. Registered(k_fd, k_sockets', k_corked', k_filters')
      BY <2>1, Unregistered
    <2> QED
      BY <1>0, <2>2 DEF Registered
  <1>3. Matched(k_fd, k_sockets, k_fdtosock)' /\ KQueue!NeverRaises'
    BY <1>0 DEF Matched, KQueue!NeverRaises
  <1>4. KQueue!Abstract!Cork(e, s)
    BY <1>0 DEF Tables, KQueue!Abstract!Cork, KQueue!Abstract!corkSocket, KQueue!Events,
       KQueue!Abstract!Events, Events, KQueue!NotPolled, KQueue!Abstract!NotPolled
  <1> QED
    BY <1>1, <1>2, <1>3, <1>4

\* A socket that is uncorked has its filter again.
LEMMA KQueueUncork ==
    ASSUME KQueueInv, NEW e \in Events, NEW s \in Socks, KQueue!uncork(e, s, Interest(e))
    PROVE  KQueueInv' /\ KQueue!Abstract!Uncork(e, s)
  <1> USE DEF KQueueInv
  <1>0. /\ s \in k_corked[e] /\ s \in k_sockets[e]
        /\ k_corked' = [k_corked EXCEPT ![e] = @ \ {s}]
        /\ k_filters' = [k_filters EXCEPT ![e] = @ \cup {<<k_fd[s], Interest(e)>>}]
        /\ UNCHANGED <<k_fd, k_sockets, k_fdtosock, k_errors, raised>>
        /\ k_polled' = KQueue!NotPolled
    BY DEF KQueue!uncork, Tables
  <1>1. Tables(k_fd, k_sockets, k_corked, k_fdtosock, k_errors)'
    BY <1>0 DEF Tables
  <1>2. Registered(k_fd, k_sockets, k_corked, k_filters)'
    <2>1. k_fd[s] # NoFd
      BY <1>0 DEF Matched
    <2> QED
      BY <1>0, <2>1 DEF Tables, Registered, Interest
  <1>3. Matched(k_fd, k_sockets, k_fdtosock)' /\ KQueue!NeverRaises'
    BY <1>0 DEF Matched, KQueue!NeverRaises
  <1>4. KQueue!Abstract!Uncork(e, s)
    BY <1>0 DEF Tables, KQueue!Abstract!Uncork, KQueue!Abstract!uncorkSocket, KQueue!Events,
       KQueue!Abstract!Events, Events, KQueue!NotPolled, KQueue!Abstract!NotPolled
  <1> QED
    BY <1>1, <1>2, <1>3, <1>4

\* An event is cleared of all its sockets.
LEMMA KQueueClear ==
    ASSUME KQueueInv, NEW e \in Events, KQueue!clear(e)
    PROVE  KQueueInv' /\ KQueue!Abstract!Clear(e)
  <1> USE DEF KQueueInv
  <1>0. /\ k_sockets' = [k_sockets EXCEPT ![e] = {}]
        /\ k_corked' = [k_corked EXCEPT ![e] = {}]
        /\ k_fdtosock' = [k_fdtosock EXCEPT ![e] = [f \in Fds |-> NoSock]]
        /\ k_filters' = [k_filters EXCEPT ![e] = {}]
        /\ UNCHANGED <<k_fd, k_errors, raised>>
        /\ k_polled' = KQueue!NotPolled
    BY DEF KQueue!clear
  <1>1. Tables(k_fd, k_sockets, k_corked, k_fdtosock, k_errors)'
    BY <1>0 DEF Tables
  <1>2. Registered(k_fd, k_sockets, k_corked, k_filters)'
    BY <1>0 DEF Tables, Registered
  <1>3. Matched(k_fd, k_sockets, k_fdtosock)' /\ KQueue!NeverRaises'
    BY <1>0 DEF Tables, Matched, KQueue!NeverRaises
  <1>4. KQueue!Abstract!Clear(e)
    BY <1>0 DEF Tables, KQueue!Abstract!Clear, KQueue!Abstract!NoSockets, KQueue!Events,
       KQueue!Abstract!Events, Events, KQueue!NotPolled, KQueue!Abstract!NotPolled
  <1> QED
    BY <1>1, <1>2, <1>3, <1>4

\* A filter that the kernel reports as broken is gone, and its socket has failed.
LEMMA KQueueBroken ==
    ASSUME KQueueInv, NEW e \in Events, NEW s \in Socks, KQueue!pollBroken(e, s, Interest(e))
    PROVE  KQueueInv' /\ KQueue!Abstract!Fail(e, s)
  <1> USE DEF KQueueInv
  <1>0. /\ <<k_fd[s], Interest(e)>> \in k_filters[e] /\ k_fdtosock[e][k_fd[s]] = s
        /\ k_filters' = [k_filters EXCEPT ![e] = @ \ {<<k_fd[s], Interest(e)>>}]
        /\ k_fdtosock' = [k_fdtosock EXCEPT ![e][k_fd[s]] = NoSock]
        /\ k_sockets' = [k_sockets EXCEPT ![e] = @ \ {s}]
        /\ k_errors' = [k_errors EXCEPT ![s] = IF @ = NoEvent THEN e ELSE @]
        /\ UNCHANGED <<k_fd, k_corked, raised>>
        /\ k_polled' = KQueue!NotPolled
    BY DEF KQueue!pollBroken
  <1>1. k_fd[s] \in Fds /\ s \in k_sockets[e] /\ s \notin k_corked[e]
    <2>1. k_fd[s] \in Fds
      BY <1>0 DEF Registered
    <2>2. PICK t \in k_sockets[e] \ k_corked[e] : k_fd[t] = k_fd[s]
      BY <1>0, <2>1 DEF Registered, Interest
    <2>3. t = s
      BY <2>1, <2>2, PartsAssumption DEF Tables
    <2> QED
      BY <2>1, <2>2, <2>3
  <1>2. Tables(k_fd, k_sockets, k_corked, k_fdtosock, k_errors)'
    BY <1>0, <1>1 DEF Tables
  <1>3. Registered(k_fd, k_sockets, k_corked, k_filters)'
    <2>1. Unwatched(e, s, k_fd, k_sockets, k_corked, k_filters,
                    k_sockets', k_corked', k_filters')
      BY <1>0 DEF Tables, Unwatched
    <2>2. Registered(k_fd, k_sockets', k_corked', k_filters')
      BY <2>1, Unregistered
    <2> QED
      BY <1>0, <2>2 DEF Registered
  <1>4. Matched(k_fd, k_sockets, k_fdtosock)' /\ KQueue!NeverRaises'
    BY <1>0, <1>1 DEF Tables, Matched, KQueue!NeverRaises
  <1>5. KQueue!Abstract!Fail(e, s)
    <2>1. Subscribed(k_sockets', k_corked') =
            [Subscribed(k_sockets, k_corked) EXCEPT ![e] = KQueue!Abstract!removeSocket(@, s)]
      <3>1. k_corked[e] \ {s} = k_corked[e]
        BY <1>1
      <3> QED
        BY <1>0, <3>1 DEF Tables, Subscribed, KQueue!Abstract!removeSocket
    <2>2. Failed(k_errors') =
            IF \E x \in Events : s \in Failed(k_errors)[x] THEN Failed(k_errors)
            ELSE [Failed(k_errors) EXCEPT ![e] = @ \cup {s}]
      <3>1. k_errors \in [Socks -> Events \cup {NoEvent}] /\ k_errors' \in [Socks -> Events \cup {NoEvent}]
        BY <1>2 DEF Tables
      <3>2. \A t \in Socks :
              k_errors'[t] = IF t = s /\ k_errors[s] = NoEvent THEN e ELSE k_errors[t]
        BY <1>0, <3>1
      <3> QED
        BY <3>1, <3>2, ErrorReported
    <2> QED
      BY <1>0, <2>1, <2>2 DEF KQueue!Abstract!Fail, Subscribed, Failed, KQueue!Events,
         KQueue!Abstract!Events, Events, KQueue!NotPolled, KQueue!Abstract!NotPolled
  <1> QED
    BY <1>2, <1>3, <1>4, <1>5

\* A poll reports what Polling may report.
LEMMA KQueuePoll ==
    ASSUME KQueueInv, NEW ready \in KQueue!Ready, KQueue!poll(ready)
    PROVE  KQueueInv' /\ ready \in KQueue!Abstract!Ready /\ KQueue!Abstract!Poll(ready)
  <1> USE DEF KQueueInv
  <1>0. UNCHANGED <<k_fd, k_sockets, k_corked, k_fdtosock, k_errors, k_filters, raised>>
    BY DEF KQueue!poll
  <1>1. KQueueInv'
    BY <1>0 DEF Tables, Registered, Matched, KQueue!NeverRaises
  <1>2. /\ ready \in SUBSET (Socks \X {"in", "out"})
        /\ \A s \in Socks, i \in {"in", "out"} : <<s, i>> \in ready => k_fd[s] # NoFd
    BY DEF KQueue!Ready
  <1>3. \A e \in Events :
          KQueue!polledSockets(e, ready) =
            {s \in k_sockets[e] \ k_corked[e] : <<s, Interest(e)>> \in ready}
    <2> SUFFICES ASSUME NEW e \in Events
                 PROVE  KQueue!polledSockets(e, ready) =
                          {s \in k_sockets[e] \ k_corked[e] : <<s, Interest(e)>> \in ready}
      OBVIOUS
    <2>1. ASSUME NEW x \in KQueue!polledSockets(e, ready)
          PROVE  x \in {s \in k_sockets[e] \ k_corked[e] : <<s, Interest(e)>> \in ready}
      <3>1. PICK f \in Fds, s \in Socks, i \in {"in", "out"} :
              /\ x = k_fdtosock[e][f]
              /\ k_fd[s] = f /\ <<s, i>> \in ready /\ <<f, i>> \in k_filters[e]
        BY DEF KQueue!polledSockets, KQueue!polledFds
      <3>2. PICK t \in k_sockets[e] \ k_corked[e] : k_fd[t] = f /\ i = Interest(e)
        BY <3>1 DEF Registered
      <3>3. t = s
        BY <1>2, <3>1, <3>2 DEF Tables
      <3> QED
        BY <1>2, <3>1, <3>2, <3>3 DEF Matched
    <2>2. ASSUME NEW s \in k_sockets[e] \ k_corked[e], <<s, Interest(e)>> \in ready
          PROVE  s \in KQueue!polledSockets(e, ready)
      <3>1. s \in Socks /\ Interest(e) \in {"in", "out"}
        BY DEF Tables, Interest
      <3>2. k_fd[s] \in Fds /\ k_fdtosock[e][k_fd[s]] = s
        BY <1>2, <2>2, <3>1 DEF Tables, Matched
      <3>3. <<k_fd[s], Interest(e)>> \in k_filters[e]
        BY <3>1, <3>2 DEF Registered
      <3>4. k_fd[s] \in KQueue!polledFds(e, ready)
        BY <2>2, <3>1, <3>2, <3>3 DEF KQueue!polledFds
      <3> QED
        BY <3>1, <3>2, <3>4, PartsAssumption DEF KQueue!polledSockets
    <2> QED
      BY <2>1, <2>2
  <1>4. KQueue!Abstract!Poll(ready)
    <2>1. KQueue!Abstract!Reports(ready) =
            [e \in Events |-> KQueue!polledSockets(e, ready) \cup {s \in Socks : k_errors[s] = e}]
      BY <1>3 DEF KQueue!Abstract!Reports, KQueue!Abstract!Watched, KQueue!Abstract!Interest, Interest,
         KQueue!Abstract!Events, KQueue!Events, Events
    <2> QED
      BY <1>0, <2>1 DEF KQueue!poll, KQueue!Abstract!Poll, KQueue!Events, Events
  <1> QED
    BY <1>1, <1>2, <1>4 DEF KQueue!Abstract!Ready

\* Every step of the poller is one of the operations above.
LEMMA KQueueStep ==
    ASSUME KQueueInv, KQueue!Next
    PROVE  KQueueInv' /\ KQueue!Abstract!Next
  <1> USE DEF KQueue!Events, KQueue!Abstract!Events, Events
  <1>1. ASSUME NEW s \in Socks, KQueue!open(s) \/ KQueue!close(s)
        PROVE  KQueueInv' /\ KQueue!Abstract!Next
    BY <1>1, KQueueOpen, KQueueClose DEF KQueue!Abstract!Next
  <1>2. ASSUME NEW e \in Events, KQueue!clearRead(e) \/ KQueue!clearWrite(e)
        PROVE  KQueueInv' /\ KQueue!Abstract!Next
    BY <1>2, KQueueClear DEF KQueue!Abstract!Next, KQueue!clearRead, KQueue!clearWrite
  <1>3. ASSUME NEW e \in Events, NEW s \in Socks, KQueue!Calls(e, s)
        PROVE  KQueueInv' /\ KQueue!Abstract!Next
    <2>1. \/ KQueue!add(e, s, Interest(e)) \/ KQueue!remove(e, s, Interest(e))
          \/ KQueue!cork(e, s, Interest(e)) \/ KQueue!uncork(e, s, Interest(e))
      BY <1>3, PartsAssumption DEF Interest, KQueue!Calls,
         KQueue!addReadSocket, KQueue!removeReadSocket, KQueue!corkReadSocket, KQueue!uncorkReadSocket,
         KQueue!addWriteSocket, KQueue!removeWriteSocket, KQueue!corkWriteSocket,
         KQueue!uncorkWriteSocket
    <2> QED
      BY <2>1, KQueueAdd, KQueueRemove, KQueueCork, KQueueUncork DEF KQueue!Abstract!Next
  <1>4. ASSUME NEW e \in Events, NEW s \in Socks, KQueue!pollBroken(e, s, KQueue!Interest(e))
        PROVE  KQueueInv' /\ KQueue!Abstract!Next
    BY <1>4, KQueueBroken DEF KQueue!Abstract!Next, KQueue!Interest, Interest
  <1>5. ASSUME NEW ready \in KQueue!Ready, KQueue!poll(ready)
        PROVE  KQueueInv' /\ KQueue!Abstract!Next
    BY <1>5, KQueuePoll DEF KQueue!Abstract!Next
  <1> QED
    BY <1>1, <1>2, <1>3, <1>4, <1>5 DEF KQueue!Next

\* The steps of the other parts leave the poller as it is.
LEMMA KQueueStays ==
    ASSUME KQueueInv, [Next]_vars
    PROVE  KQueueInv' /\ [KQueue!Abstract!Next]_(KQueue!Abstract!vars)
  <1>1. CASE KQueue!Next
    BY <1>1, KQueueStep
  <1>2. CASE UNCHANGED kqueue
    BY <1>2 DEF kqueue, KQueueInv, Tables, Registered, Matched, KQueue!NeverRaises,
       KQueue!Abstract!vars, KQueue!Events
  <1> QED
    BY <1>1, <1>2 DEF Next, Others, vars

\* A poller made of kernel queues implements Polling and never raises
\* (network/async/kqueue.py).
LEMMA KQueueImplements == Spec => KQueue!Implements /\ []KQueue!NeverRaises
  <1>1. Init => KQueueInv /\ KQueue!Abstract!Init
    BY KQueueInit DEF Init
  <1>2. KQueueInv /\ [Next]_vars => KQueueInv' /\ [KQueue!Abstract!Next]_(KQueue!Abstract!vars)
    BY KQueueStays
  <1>3. KQueueInv => KQueue!NeverRaises
    BY DEF KQueueInv
  <1> QED
    BY <1>1, <1>2, <1>3, PTL DEF Spec, KQueue!Implements, KQueue!Abstract!Spec
-----------------------------------------------------------------------------
(* select().                                                               *)

SelectTypes ==
    /\ read_sockets \in [ReadEvents -> SUBSET Socks]
    /\ write_sockets \in [WriteEvents -> SUBSET Socks]
    /\ read_modified \subseteq ReadEvents /\ write_modified \subseteq WriteEvents
    /\ waiting \in BOOLEAN
    /\ parked \in [Events -> SUBSET Socks]

\* A corked socket is in no list, and a list of all the sockets is out of date only while
\* some event is known to have been modified, which no wait leaves.
SelectInv ==
    /\ SelectTypes
    /\ \A e \in Events : Select!Sockets(e) \cap parked[e] = {}
    /\ read_modified = {} => read_all = Select!Union(read_sockets)
    /\ write_modified = {} => write_all = Select!Union(write_sockets)
    /\ waiting => read_modified = {} /\ write_modified = {}

\* As for the others, each operation is one of Polling on the sockets of the lists.
LEMMA SelectInit ==
    ASSUME Select!Init
    PROVE  SelectInv /\ Select!Abstract!Init
  <1> USE DEF Select!Init, Select!Events, Events
  <1>1. SelectTypes
    BY DEF SelectTypes
  <1>2. /\ \A e \in Events : Select!Sockets(e) = {} /\ parked[e] = {}
        /\ Select!Union(read_sockets) = {} /\ Select!Union(write_sockets) = {}
    BY DEF Select!Sockets, Select!Union
  <1>3. SelectInv
    BY <1>1, <1>2 DEF SelectInv
  <1>4. Select!Abstract!Init
    BY <1>2 DEF Select!Abstract!Init, Select!Abstract!Events, Select!NotPolled,
       Select!Abstract!NotPolled, Select!Abstract!NoSockets
  <1> QED
    BY <1>3, <1>4

\* What a call does to the sockets of the events, and that it leaves the lists of all the
\* sockets out of date only where it says so.
SelectChange(e, later) ==
    /\ later \in [Events -> SUBSET Socks]
    /\ \A x \in Events : Select!Sockets(x)' = later[x]
    /\ SelectTypes' /\ waiting' = FALSE
    /\ read_modified' = {} => read_all' = Select!Union(read_sockets)'
    /\ write_modified' = {} => write_all' = Select!Union(write_sockets)'

SelectSockets == [x \in Events |-> Select!Sockets(x)]

\* An event has a list of sockets.
LEMMA SelectSocketsType ==
    ASSUME SelectTypes
    PROVE  SelectSockets \in [Events -> SUBSET Socks]
  BY PartsAssumption DEF SelectSockets, SelectTypes, Select!Sockets, Events

\* A socket in a list of the event, which is marked as modified.
LEMMA SelectAdds ==
    ASSUME SelectInv, NEW e \in Events, NEW s \in Socks, Select!Call(e), Select!add(e, s),
           parked' \in [Events -> SUBSET Socks]
    PROVE  SelectChange(e, [SelectSockets EXCEPT ![e] = @ \cup {s}])
  <1> USE DEF SelectInv
  <1>0. /\ ~waiting /\ waiting' = FALSE /\ read_all' = read_all /\ write_all' = write_all
    BY DEF Select!Call, Select!all
  <1>1. CASE e \in ReadEvents
    <2>1. /\ read_sockets' = [read_sockets EXCEPT ![e] = @ \cup {s}]
          /\ read_modified' = IF s \in read_sockets[e] THEN read_modified ELSE read_modified \cup {e}
          /\ UNCHANGED <<write_sockets, write_modified>>
      BY <1>1, PartsAssumption DEF Select!add, Select!addReadSocket
    <2>2. SelectTypes'
      BY <1>0, <1>1, <2>1 DEF SelectTypes
    <2>3. read_modified' = {} => read_sockets' = read_sockets /\ read_modified = {}
      BY <1>1, <2>1 DEF SelectTypes
    <2>4. \A x \in Events : Select!Sockets(x)' = [SelectSockets EXCEPT ![e] = @ \cup {s}][x]
      BY <1>1, <2>1, PartsAssumption DEF SelectTypes, Select!Sockets, SelectSockets, Events
    <2>5. [SelectSockets EXCEPT ![e] = @ \cup {s}] \in [Events -> SUBSET Socks]
      BY SelectSocketsType
    <2> QED
      BY <1>0, <2>1, <2>2, <2>3, <2>4, <2>5 DEF SelectChange, Select!Union
  <1>2. CASE e \in WriteEvents
    <2>1. /\ write_sockets' = [write_sockets EXCEPT ![e] = @ \cup {s}]
          /\ write_modified' = IF s \in write_sockets[e] THEN write_modified ELSE write_modified \cup {e}
          /\ UNCHANGED <<read_sockets, read_modified>>
      BY <1>2, PartsAssumption DEF Select!add, Select!addWriteSocket
    <2>2. SelectTypes'
      BY <1>0, <1>2, <2>1 DEF SelectTypes
    <2>3. write_modified' = {} => write_sockets' = write_sockets /\ write_modified = {}
      BY <1>2, <2>1 DEF SelectTypes
    <2>4. \A x \in Events : Select!Sockets(x)' = [SelectSockets EXCEPT ![e] = @ \cup {s}][x]
      BY <1>2, <2>1, PartsAssumption DEF SelectTypes, Select!Sockets, SelectSockets, Events
    <2>5. [SelectSockets EXCEPT ![e] = @ \cup {s}] \in [Events -> SUBSET Socks]
      BY SelectSocketsType
    <2> QED
      BY <1>0, <2>1, <2>2, <2>3, <2>4, <2>5 DEF SelectChange, Select!Union
  <1> QED
    BY <1>1, <1>2 DEF Events

\* A socket out of the lists of the event, which is marked as modified.
LEMMA SelectRemoves ==
    ASSUME SelectInv, NEW e \in Events, NEW s \in Socks, Select!Call(e), Select!remove(e, s),
           parked' \in [Events -> SUBSET Socks]
    PROVE  SelectChange(e, [SelectSockets EXCEPT ![e] = @ \ {s}])
  <1> USE DEF SelectInv
  <1>0. /\ ~waiting /\ waiting' = FALSE /\ read_all' = read_all /\ write_all' = write_all
    BY DEF Select!Call, Select!all
  <1>1. CASE e \in ReadEvents
    <2>1. /\ read_sockets' = [read_sockets EXCEPT ![e] = @ \ {s}]
          /\ read_modified' = IF s \in read_sockets[e] THEN read_modified \cup {e} ELSE read_modified
          /\ UNCHANGED <<write_sockets, write_modified>>
      BY <1>1, PartsAssumption DEF Select!remove, Select!removeReadSocket
    <2>2. SelectTypes'
      BY <1>0, <1>1, <2>1 DEF SelectTypes
    <2>3. read_modified' = {} => read_sockets' = read_sockets /\ read_modified = {}
      BY <1>1, <2>1 DEF SelectTypes
    <2>4. \A x \in Events : Select!Sockets(x)' = [SelectSockets EXCEPT ![e] = @ \ {s}][x]
      BY <1>1, <2>1, PartsAssumption DEF SelectTypes, Select!Sockets, SelectSockets, Events
    <2>5. [SelectSockets EXCEPT ![e] = @ \ {s}] \in [Events -> SUBSET Socks]
      BY SelectSocketsType
    <2> QED
      BY <1>0, <2>1, <2>2, <2>3, <2>4, <2>5 DEF SelectChange, Select!Union
  <1>2. CASE e \in WriteEvents
    <2>1. /\ write_sockets' = [write_sockets EXCEPT ![e] = @ \ {s}]
          /\ write_modified' = IF s \in write_sockets[e] THEN write_modified \cup {e} ELSE write_modified
          /\ UNCHANGED <<read_sockets, read_modified>>
      BY <1>2, PartsAssumption DEF Select!remove, Select!removeWriteSocket
    <2>2. SelectTypes'
      BY <1>0, <1>2, <2>1 DEF SelectTypes
    <2>3. write_modified' = {} => write_sockets' = write_sockets /\ write_modified = {}
      BY <1>2, <2>1 DEF SelectTypes
    <2>4. \A x \in Events : Select!Sockets(x)' = [SelectSockets EXCEPT ![e] = @ \ {s}][x]
      BY <1>2, <2>1, PartsAssumption DEF SelectTypes, Select!Sockets, SelectSockets, Events
    <2>5. [SelectSockets EXCEPT ![e] = @ \ {s}] \in [Events -> SUBSET Socks]
      BY SelectSocketsType
    <2> QED
      BY <1>0, <2>1, <2>2, <2>3, <2>4, <2>5 DEF SelectChange, Select!Union
  <1> QED
    BY <1>1, <1>2 DEF Events

\* A socket is watched from now on.
LEMMA SelectAdd ==
    ASSUME SelectInv, NEW e \in Events, NEW s \in Socks, Select!Add(e, s)
    PROVE  SelectInv' /\ Select!Abstract!Add(e, s)
  <1>0. /\ s \notin parked[e] /\ parked' = parked /\ polled' = Select!NotPolled
        /\ Select!Call(e) /\ Select!add(e, s)
    BY DEF Select!Add, Select!Call
  <1>1. SelectChange(e, [SelectSockets EXCEPT ![e] = @ \cup {s}])
    BY <1>0, SelectAdds DEF SelectInv, SelectTypes
  <1>2. \A x \in Events :
          Select!Sockets(x)' = IF x = e THEN Select!Sockets(x) \cup {s} ELSE Select!Sockets(x)
    BY <1>1 DEF SelectChange, SelectSockets
  <1>3. SelectInv'
    BY <1>0, <1>1, <1>2 DEF SelectInv, SelectChange
  <1>4. Select!Abstract!Add(e, s)
    <2>1. [x \in Events |-> [socks |-> Select!Sockets(x)' \cup parked'[x], corked |-> parked'[x]]] =
            [[x \in Events |-> [socks |-> Select!Sockets(x) \cup parked[x], corked |-> parked[x]]]
              EXCEPT ![e] = Select!Abstract!addSocket(@, s)]
      BY <1>0, <1>2 DEF Select!Abstract!addSocket
    <2> QED
      BY <1>0, <2>1 DEF Select!Abstract!Add, Select!Events, Select!Abstract!Events, Events,
         Select!NotPolled, Select!Abstract!NotPolled
  <1> QED
    BY <1>3, <1>4

\* A socket is not watched any more.
LEMMA SelectRemove ==
    ASSUME SelectInv, NEW e \in Events, NEW s \in Socks, Select!Remove(e, s)
    PROVE  SelectInv' /\ Select!Abstract!Remove(e, s)
  <1>0. /\ parked' = [parked EXCEPT ![e] = @ \ {s}] /\ polled' = Select!NotPolled
        /\ Select!Call(e) /\ Select!remove(e, s)
    BY DEF Select!Remove, Select!Call
  <1>1. SelectChange(e, [SelectSockets EXCEPT ![e] = @ \ {s}])
    BY <1>0, SelectRemoves DEF SelectInv, SelectTypes
  <1>2. \A x \in Events :
          Select!Sockets(x)' = IF x = e THEN Select!Sockets(x) \ {s} ELSE Select!Sockets(x)
    BY <1>1 DEF SelectChange, SelectSockets
  <1>3. \A x \in Events : parked'[x] = IF x = e THEN parked[x] \ {s} ELSE parked[x]
    BY <1>0 DEF SelectInv, SelectTypes
  <1>4. SelectInv'
    BY <1>1, <1>2, <1>3 DEF SelectInv, SelectChange
  <1>5. Select!Abstract!Remove(e, s)
    <2>1. [x \in Events |-> [socks |-> Select!Sockets(x)' \cup parked'[x], corked |-> parked'[x]]] =
            [[x \in Events |-> [socks |-> Select!Sockets(x) \cup parked[x], corked |-> parked[x]]]
              EXCEPT ![e] = Select!Abstract!removeSocket(@, s)]
      BY <1>2, <1>3 DEF Select!Abstract!removeSocket
    <2> QED
      BY <1>0, <2>1 DEF Select!Abstract!Remove, Select!Events, Select!Abstract!Events, Events,
         Select!NotPolled, Select!Abstract!NotPolled
  <1> QED
    BY <1>4, <1>5

\* A corked socket is out of the list and is kept aside.
LEMMA SelectCork ==
    ASSUME SelectInv, NEW e \in Events, NEW s \in Socks, Select!cork(e, s)
    PROVE  SelectInv' /\ Select!Abstract!Cork(e, s)
  <1>0. /\ parked' = [parked EXCEPT ![e] = @ \cup {s}] /\ polled' = Select!NotPolled
        /\ Select!Call(e) /\ Select!remove(e, s) /\ s \in Select!Sockets(e)
    BY DEF Select!cork, Select!Call, Select!Sockets
  <1>1. SelectChange(e, [SelectSockets EXCEPT ![e] = @ \ {s}])
    BY <1>0, SelectRemoves DEF SelectInv, SelectTypes
  <1>2. \A x \in Events :
          Select!Sockets(x)' = IF x = e THEN Select!Sockets(x) \ {s} ELSE Select!Sockets(x)
    BY <1>1 DEF SelectChange, SelectSockets
  <1>3. \A x \in Events : parked'[x] = IF x = e THEN parked[x] \cup {s} ELSE parked[x]
    BY <1>0 DEF SelectInv, SelectTypes
  <1>4. SelectInv'
    BY <1>1, <1>2, <1>3 DEF SelectInv, SelectChange
  <1>5. Select!Abstract!Cork(e, s)
    <2>1. [x \in Events |-> [socks |-> Select!Sockets(x)' \cup parked'[x], corked |-> parked'[x]]] =
            [[x \in Events |-> [socks |-> Select!Sockets(x) \cup parked[x], corked |-> parked[x]]]
              EXCEPT ![e] = Select!Abstract!corkSocket(@, s)]
      <3>1. (Select!Sockets(e) \ {s}) \cup (parked[e] \cup {s}) = Select!Sockets(e) \cup parked[e]
        BY <1>0
      <3> QED
        BY <1>0, <1>2, <1>3, <3>1 DEF Select!Abstract!corkSocket
    <2> QED
      BY <1>0, <2>1 DEF Select!Abstract!Cork, Select!Events, Select!Abstract!Events, Events,
         Select!NotPolled, Select!Abstract!NotPolled
  <1> QED
    BY <1>4, <1>5

\* A socket that is uncorked is in the list again.
LEMMA SelectUncork ==
    ASSUME SelectInv, NEW e \in Events, NEW s \in Socks, Select!uncork(e, s)
    PROVE  SelectInv' /\ Select!Abstract!Uncork(e, s)
  <1>0. /\ parked' = [parked EXCEPT ![e] = @ \ {s}] /\ polled' = Select!NotPolled
        /\ Select!Call(e) /\ Select!add(e, s) /\ s \in parked[e]
    BY DEF Select!uncork, Select!Call
  <1>1. SelectChange(e, [SelectSockets EXCEPT ![e] = @ \cup {s}])
    BY <1>0, SelectAdds DEF SelectInv, SelectTypes
  <1>2. \A x \in Events :
          Select!Sockets(x)' = IF x = e THEN Select!Sockets(x) \cup {s} ELSE Select!Sockets(x)
    BY <1>1 DEF SelectChange, SelectSockets
  <1>3. \A x \in Events : parked'[x] = IF x = e THEN parked[x] \ {s} ELSE parked[x]
    BY <1>0 DEF SelectInv, SelectTypes
  <1>4. SelectInv'
    BY <1>1, <1>2, <1>3 DEF SelectInv, SelectChange
  <1>5. Select!Abstract!Uncork(e, s)
    <2>1. [x \in Events |-> [socks |-> Select!Sockets(x)' \cup parked'[x], corked |-> parked'[x]]] =
            [[x \in Events |-> [socks |-> Select!Sockets(x) \cup parked[x], corked |-> parked[x]]]
              EXCEPT ![e] = Select!Abstract!uncorkSocket(@, s)]
      <3>1. (Select!Sockets(e) \cup {s}) \cup (parked[e] \ {s}) = Select!Sockets(e) \cup parked[e]
        BY <1>0
      <3> QED
        BY <1>0, <1>2, <1>3, <3>1 DEF Select!Abstract!uncorkSocket
    <2> QED
      BY <1>0, <2>1 DEF Select!Abstract!Uncork, Select!Events, Select!Abstract!Events, Events,
         Select!NotPolled, Select!Abstract!NotPolled
  <1> QED
    BY <1>4, <1>5

\* What is reported of the sockets that are ready is what Polling may report.
LEMMA SelectReport ==
    ASSUME SelectInv, NEW ready \in Select!Ready, Select!report(ready),
           UNCHANGED <<Select!tables, parked>>
    PROVE  ready \in Select!Abstract!Ready /\ Select!Abstract!Poll(ready)
  <1>1. \A e \in Events : (Select!Sockets(e) \cup parked[e]) \ parked[e] = Select!Sockets(e)
    BY DEF SelectInv
  <1>2. Select!Abstract!Reports(ready) = Select!Polled(ready)
    BY <1>1 DEF Select!Abstract!Reports, Select!Polled, Select!Abstract!Watched,
       Select!Abstract!Interest, Select!Interest, Select!Abstract!Events, Select!Events, Events
  <1> QED
    BY <1>2 DEF Select!report, Select!Abstract!Poll, Select!tables, Select!Sockets, Select!Ready,
       Select!Abstract!Ready, Select!Events, Events

\* A poll that does not wait.
LEMMA SelectPollNow ==
    ASSUME SelectInv, NEW ready \in Select!Ready, Select!pollNow(ready)
    PROVE  SelectInv' /\ Select!Abstract!Next
  <1>0. UNCHANGED <<Select!tables, parked>> /\ read_sockets' = read_sockets
        /\ write_sockets' = write_sockets /\ parked' = parked
    BY DEF Select!pollNow, Select!tables
  <1>1. CASE \E e \in Select!Events : Select!Polled(ready)[e] # {}
    <2>1. Select!report(ready) /\ UNCHANGED <<Select!modified, Select!all, waiting>>
      BY <1>1 DEF Select!pollNow
    <2>2. SelectInv'
      BY <1>0, <2>1 DEF SelectInv, SelectTypes, Select!modified, Select!all, Select!Sockets,
         Select!Union
    <2> QED
      BY <1>0, <2>1, <2>2, SelectReport DEF Select!Abstract!Next
  <1>2. CASE ~\E e \in Select!Events : Select!Polled(ready)[e] # {}
    <2>1. /\ read_all' = IF read_modified # {} THEN Select!Union(read_sockets) ELSE read_all
          /\ write_all' = IF write_modified # {} THEN Select!Union(write_sockets) ELSE write_all
          /\ read_modified' = {} /\ write_modified' = {}
          /\ waiting' = TRUE
          /\ polled' = Select!NotPolled
      BY <1>2 DEF Select!pollNow
    <2>2. read_all' = Select!Union(read_sockets) /\ write_all' = Select!Union(write_sockets)
      BY <2>1 DEF SelectInv
    <2>3. SelectInv'
      BY <1>0, <2>1, <2>2 DEF SelectInv, SelectTypes, Select!Sockets, Select!Union
    <2>4. Select!Abstract!Proceed
      BY <1>0, <2>1 DEF Select!Abstract!Proceed, Select!Sockets, Select!Events,
         Select!Abstract!Events, Select!NotPolled, Select!Abstract!NotPolled
    <2> QED
      BY <2>3, <2>4 DEF Select!Abstract!Next
  <1> QED
    BY <1>1, <1>2

\* A poll that waited for the lists as they were.
LEMMA SelectPollWaited ==
    ASSUME SelectInv, NEW ready \in Select!Ready, Select!pollWaited(ready)
    PROVE  SelectInv' /\ Select!Abstract!Next
  <1>0. /\ UNCHANGED <<Select!tables, parked>> /\ UNCHANGED <<Select!modified, Select!all>>
        /\ waiting' = FALSE /\ Select!report(ready)
    BY DEF Select!pollWaited
  <1>1. SelectInv'
    BY <1>0 DEF SelectInv, SelectTypes, Select!tables, Select!modified, Select!all,
       Select!Sockets, Select!Union
  <1> QED
    BY <1>0, <1>1, SelectReport DEF Select!Abstract!Next

\* The steps of the other parts leave the poller as it is.
LEMMA SelectStays ==
    ASSUME SelectInv, [Next]_vars
    PROVE  SelectInv' /\ [Select!Abstract!Next]_(Select!Abstract!vars)
  <1>1. CASE Select!Next
    <2>1. ASSUME NEW e \in Events, NEW s \in Socks,
                 Select!Add(e, s) \/ Select!Remove(e, s) \/ Select!cork(e, s) \/ Select!uncork(e, s)
          PROVE  SelectInv' /\ Select!Abstract!Next
      BY <2>1, SelectAdd, SelectRemove, SelectCork, SelectUncork
         DEF Select!Abstract!Next, Select!Abstract!Events, Events
    <2>2. ASSUME NEW ready \in Select!Ready, Select!pollNow(ready) \/ Select!pollWaited(ready)
          PROVE  SelectInv' /\ Select!Abstract!Next
      BY <2>2, SelectPollNow, SelectPollWaited
    <2> QED
      BY <1>1, <2>1, <2>2 DEF Select!Next, Select!Events, Events
  <1>2. CASE UNCHANGED select
    BY <1>2 DEF select, SelectInv, SelectTypes, Select!Sockets, Select!Union,
       Select!Abstract!vars, Select!Events
  <1> QED
    BY <1>1, <1>2 DEF Next, Others, vars

\* A poller made of select() implements Polling and waits for all its sockets
\* (network/async/selectpoll.py).
LEMMA SelectImplements == Spec => Select!Implements /\ []Select!WaitsForAll
  <1>1. Init => SelectInv /\ Select!Abstract!Init
    BY SelectInit DEF Init
  <1>2. SelectInv /\ [Next]_vars => SelectInv' /\ [Select!Abstract!Next]_(Select!Abstract!vars)
    BY SelectStays
  <1>3. SelectInv => Select!WaitsForAll
    BY DEF SelectInv, Select!WaitsForAll
  <1> QED
    BY <1>1, <1>2, <1>3, PTL DEF Spec, Select!Implements, Select!Abstract!Spec
-----------------------------------------------------------------------------
\* The assertions of the kernel queues hold, and select() waits for all the sockets it is
\* to report (network/async/kqueue.py:46, 149, selectpoll.py:137-147).
THEOREM PollersAlwaysReady == Spec => []PollersReady
  <1>1. KQueue!NeverRaises /\ Select!WaitsForAll => PollersReady
    BY DEF PollersReady
  <1> QED
    BY <1>1, KQueueImplements, SelectImplements, PTL

\* The three kinds of pollers implement the abstract one: each call is a step of Polling, or
\* a stutter (network/async/epoll.py, kqueue.py, selectpoll.py, interface.py).
THEOREM PollersImplementPolling == Spec => PollersPoll
  BY EpollImplements, KQueueImplements, SelectImplements DEF PollersPoll
-----------------------------------------------------------------------------
(* Sequences, and what is defined by recursion over the natural numbers.   *)

\* A set of natural numbers that is not empty has a least one.
LEMMA LeastNumber ==
    ASSUME NEW I \in SUBSET Nat, I # {}
    PROVE  \E i \in I : \A j \in I : i =< j
  <1>1. PICK m \in I : \A k \in I : <<k, m>> \notin OpToRel(<, Nat)
    BY WFMin, NatLessThanWellFounded, Zenon
  <1>2. \A k \in I : ~(k < m)
    BY <1>1, Zenon DEF OpToRel
  <1>3. m \in Nat /\ \A k \in I : k \in Nat
    OBVIOUS
  <1> HIDE <1>1
  <1>4. \A k \in I : m =< k
    BY <1>2, <1>3
  <1> QED BY <1>4

\* What is in two sequences one after the other.
LEMMA Joined ==
    ASSUME NEW S, NEW x \in Seq(S), NEW y \in Seq(S)
    PROVE  /\ x \o y \in Seq(S)
           /\ Len(x \o y) = Len(x) + Len(y)
           /\ \A i \in 1..Len(x) : (x \o y)[i] = x[i]
           /\ \A i \in 1..Len(y) : (x \o y)[i + Len(x)] = y[i]
  OBVIOUS

\* The parts of a sequence around one of its places, put together.
LEMMA Spliced ==
    ASSUME NEW S, NEW n \in Nat, NEW s, NEW m \in 1..n,
           NEW x \in Seq(S), Len(x) = m - 1, \A i \in 1..(m - 1) : x[i] = s[i],
           NEW y \in Seq(S), Len(y) = n - m, \A i \in 1..(n - m) : y[i] = s[i + m],
           NEW u, u = x \o y
    PROVE  /\ u \in Seq(S) /\ Len(u) = n - 1
           /\ \A i \in 1..(m - 1) : u[i] = s[i]
           /\ \A i \in m..(n - 1) : u[i] = s[i + 1]
  <1>1. u \in Seq(S) /\ Len(u) = Len(x) + Len(y)
    BY Joined, Zenon
  <1>2. ASSUME NEW i \in 1..(m - 1) PROVE u[i] = s[i]
    BY <1>2, Joined
  <1>3. ASSUME NEW i \in m..(n - 1) PROVE u[i] = s[i + 1]
    <2> DEFINE j == i - (m - 1)
    <2>1. j \in 1..Len(y) /\ i = j + Len(x) /\ j + m = i + 1
      OBVIOUS
    <2> HIDE DEF j
    <2>2. u[i] = y[j]
      BY <2>1, Joined
    <2>3. y[j] = s[i + 1]
      BY <2>1
    <2> QED
      BY <2>2, <2>3
  <1>4. Len(u) = n - 1
    BY <1>1
  <1> QED
    BY <1>1, <1>2, <1>3, <1>4

\* A sequence without one of its elements.
LEMMA Cut ==
    ASSUME NEW S, NEW s \in Seq(S), NEW m \in 1..Len(s)
    PROVE  LET u == SubSeq(s, 1, m - 1) \o SubSeq(s, m + 1, Len(s))
           IN  /\ u \in Seq(S) /\ Len(u) = Len(s) - 1
               /\ \A i \in 1..(m - 1) : u[i] = s[i]
               /\ \A i \in m..(Len(s) - 1) : u[i] = s[i + 1]
  <1>0. Len(s) \in Nat
    OBVIOUS
  <1> DEFINE x == SubSeq(s, 1, m - 1)
             y == SubSeq(s, m + 1, Len(s))
             u == x \o y
  <1>1. x \in Seq(S) /\ Len(x) = m - 1 /\ \A i \in 1..(m - 1) : x[i] = s[i]
    OBVIOUS
  <1>2. /\ y \in Seq(S) /\ Len(y) = Len(s) - m
        /\ \A i \in 1..(Len(s) - m) : y[i] = s[i + m]
    OBVIOUS
  <1> HIDE DEF x, y
  <1>3. /\ u \in Seq(S) /\ Len(u) = Len(s) - 1
        /\ \A i \in 1..(m - 1) : u[i] = s[i]
        /\ \A i \in m..(Len(s) - 1) : u[i] = s[i + 1]
    BY <1>0, <1>1, <1>2, Spliced, SMTT(30)
  <1> QED
    BY <1>3, Zenon DEF x, y

\* A sequence of one element.
LEMMA OneElement ==
    ASSUME NEW S, NEW e \in S
    PROVE  <<e>> \in Seq(S) /\ Len(<<e>>) = 1 /\ <<e>>[1] = e
  OBVIOUS

\* A sequence with one element more.
LEMMA ElementAfter ==
    ASSUME NEW S, NEW s \in Seq(S), NEW e \in S
    PROVE  /\ s \o <<e>> \in Seq(S) /\ Len(s \o <<e>>) = Len(s) + 1
           /\ (s \o <<e>>)[Len(s) + 1] = e
           /\ \A j \in 1..Len(s) : (s \o <<e>>)[j] = s[j]
  OBVIOUS

\* Sequences over a set are sequences over a larger one.
LEMMA Widened ==
    ASSUME NEW S, NEW T, S \subseteq T, NEW s \in Seq(S)
    PROVE  s \in Seq(T)
  OBVIOUS

\* A part of a sequence, from its beginning to a place.
LEMMA Beginning ==
    ASSUME NEW S, NEW s \in Seq(S), NEW m \in 0..Len(s),
           NEW u, u = SubSeq(s, 1, m)
    PROVE  u \in Seq(S) /\ Len(u) = m /\ \A j \in 1..m : u[j] = s[j]
  OBVIOUS

\* A part of a sequence, from one place to its end.
LEMMA Ending ==
    ASSUME NEW S, NEW s \in Seq(S), NEW m \in 0..Len(s),
           NEW u, u = SubSeq(s, m + 1, Len(s))
    PROVE  u \in Seq(S) /\ Len(u) = Len(s) - m /\ \A j \in 1..(Len(s) - m) : u[j] = s[j + m]
  OBVIOUS

\* Sequences are the same if their elements are.
LEMMA SameSequences ==
    ASSUME NEW S, NEW T, NEW s \in Seq(S), NEW t \in Seq(T), Len(s) = Len(t),
           \A j \in 1..Len(s) : s[j] = t[j]
    PROVE  s = t
  OBVIOUS

\* A definition by recursion: each argument leads to a smaller one, or is a basic one.
Founded(S, Basic, p, base, g) ==
    /\ p \in [Nat -> Nat] /\ base \in [Nat -> S] /\ g \in [Nat \X S -> S]
    /\ \A n \in Nat : n \in Basic \/ p[n] < n

Solves(f, S, Basic, p, base, g) ==
    /\ f \in [Nat -> S]
    /\ \A n \in Nat : f[n] = IF n \in Basic THEN base[n] ELSE g[<<n, f[p[n]]>>]

\* There is one solution on the natural numbers: a least argument where none was found
\* would lead to a smaller one, where one was.
LEMMA Recursion ==
    ASSUME NEW S, NEW Basic, NEW p, NEW base, NEW g, Founded(S, Basic, p, base, g)
    PROVE  \E f : Solves(f, S, Basic, p, base, g)
  <1> USE DEF Founded
  <1> DEFINE Obeys(f, i) == f[i] = IF i \in Basic THEN base[i] ELSE g[<<i, f[p[i]]>>]
             Partial(n) == {f \in [0..n -> S] : \A i \in 0..n : Obeys(f, i)}
  <1>1. ASSUME NEW m \in Nat, NEW n \in Nat, NEW f \in Partial(m), NEW h \in Partial(n),
               NEW i \in Nat, i =< m, i =< n
        PROVE  f[i] = h[i]
    <2> DEFINE D == {j \in 0..i : f[j] # h[j]}
    <2>1. D = {}
      <3> SUFFICES ASSUME D # {} PROVE FALSE
        OBVIOUS
      <3>1. PICK j \in D : \A x \in D : j =< x
        <4>1. D \in SUBSET Nat
          OBVIOUS
        <4> HIDE DEF D
        <4> QED
          BY <4>1, LeastNumber
      <3>2. j \in 0..i /\ f[j] # h[j] /\ \A x \in 0..i : x < j => f[x] = h[x]
        BY <3>1
      <3>3. Obeys(f, j) /\ Obeys(h, j)
        <4>1. j \in 0..m /\ j \in 0..n
          <5> HIDE DEF Partial, D
          <5>1. j \in 0..i
            BY <3>2
          <5> QED
            BY <1>1, <5>1
        <4>2. /\ \A x \in 0..m : Obeys(f, x)
              /\ \A x \in 0..n : Obeys(h, x)
          OBVIOUS
        <4> QED
          BY <4>1, <4>2
      <3>4. j \notin Basic
        BY <3>2, <3>3
      <3>5. p[j] \in 0..i /\ p[j] < j
        BY <3>2, <3>4
      <3>6. f[p[j]] = h[p[j]]
        BY <3>2, <3>5
      <3> QED
        BY <3>2, <3>3, <3>4, <3>6
    <2>2. i \in 0..i
      OBVIOUS
    <2> QED
      BY <2>1, <2>2
  <1>2. \A n \in Nat : Partial(n) # {}
    <2> DEFINE D == {n \in Nat : Partial(n) = {}}
    <2> SUFFICES ASSUME D # {} PROVE FALSE
      OBVIOUS
    <2>1. PICK n \in D : \A x \in D : n =< x
      <3>1. D \in SUBSET Nat
        OBVIOUS
      <3> HIDE DEF D
      <3> QED
        BY <3>1, LeastNumber
    <2>2. n \in Nat /\ Partial(n) = {} /\ \A x \in Nat : x < n => Partial(x) # {}
      <3> HIDE DEF Partial
      <3>1. n \in Nat /\ Partial(n) = {}
        BY <2>1
      <3>2. ASSUME NEW x \in Nat, x < n, Partial(x) = {} PROVE FALSE
        <4>1. x \in D
          BY <3>2
        <4>2. n =< x
          BY <2>1, <4>1
        <4> QED
          BY <3>1, <3>2, <4>2
      <3> QED
        BY <3>1, <3>2
    <2>3. CASE n = 0
      <3> DEFINE f == [i \in 0..0 |-> base[0]]
      <3>1. 0 \in Basic
        OBVIOUS
      <3>2. f \in Partial(0)
        BY <3>1
      <3> QED
        BY <2>2, <2>3, <3>2
    <2>4. CASE n # 0
      <3>1. n - 1 \in Nat /\ n - 1 < n
        BY <2>2, <2>4
      <3>2. PICK h : h \in Partial(n - 1)
        BY <2>2, <3>1
      <3>3. h \in [0..(n - 1) -> S] /\ \A i \in 0..(n - 1) : Obeys(h, i)
        BY <3>2
      <3> DEFINE f == [i \in 0..n |-> IF i < n THEN h[i]
                                     ELSE IF n \in Basic THEN base[n] ELSE g[<<n, h[p[n]]>>]]
      <3>4. ASSUME NEW i \in 0..(n - 1) PROVE i \in 0..n /\ i < n /\ f[i] = h[i]
        BY <2>2
      <3>5. n \notin Basic => p[n] \in 0..(n - 1)
        BY <2>2
      <3>6. n \in 0..n /\ f[n] = IF n \in Basic THEN base[n] ELSE g[<<n, h[p[n]]>>]
        BY <2>2
      <3>7. ASSUME NEW i \in 0..n PROVE i \in 0..(n - 1) \/ i = n
        BY <2>2
      <3>8. f \in [0..n -> S]
        <4> SUFFICES ASSUME NEW i \in 0..n PROVE f[i] \in S
          OBVIOUS
        <4>1. CASE i \in 0..(n - 1)
          BY <3>3, <3>4, <4>1
        <4>2. CASE i = n
          BY <2>2, <3>3, <3>5, <3>6, <4>2
        <4> QED
          BY <3>7, <4>1, <4>2
      <3> HIDE DEF f
      <3>9. ASSUME NEW i \in 0..n PROVE Obeys(f, i)
        <4>1. CASE i \in 0..(n - 1)
          <5>1. i \notin Basic => p[i] \in 0..(n - 1)
            BY <2>2, <4>1
          <5> QED
            BY <3>3, <3>4, <4>1, <5>1
        <4>2. CASE i = n
          BY <3>4, <3>5, <3>6, <4>2
        <4> QED
          BY <3>7, <4>1, <4>2
      <3> QED
        BY <2>2, <3>8, <3>9
    <2> QED
      BY <2>3, <2>4
  <1> DEFINE some(n) == CHOOSE f : f \in Partial(n)
             F == [n \in Nat |-> some(n)[n]]
  <1>3. ASSUME NEW n \in Nat PROVE some(n) \in Partial(n)
    <2> HIDE DEF Partial
    <2> QED
      BY <1>2
  <1>4. ASSUME NEW n \in Nat PROVE n \in 0..n /\ some(n) \in [0..n -> S] /\ Obeys(some(n), n)
    <2>1. some(n) \in Partial(n)
      BY <1>3
    <2> HIDE DEF some
    <2>2. some(n) \in [0..n -> S] /\ \A i \in 0..n : Obeys(some(n), i)
      BY <2>1
    <2> QED
      BY <2>2, SMTT(30)
  <1> HIDE DEF some
  <1>5. F \in [Nat -> S]
    BY <1>4
  <1>6. ASSUME NEW n \in Nat PROVE F[n] = IF n \in Basic THEN base[n] ELSE g[<<n, F[p[n]]>>]
    <2>1. CASE n \in Basic
      BY <1>4, <2>1
    <2>2. CASE n \notin Basic
      <3>1. p[n] \in Nat /\ p[n] < n /\ p[n] =< n
        BY <2>2
      <3>2. F[p[n]] = some(n)[p[n]]
        <4>1. some(n) \in Partial(n) /\ some(p[n]) \in Partial(p[n])
          BY <1>3, <3>1
        <4> HIDE DEF Partial
        <4> QED
          BY <1>1, <3>1, <4>1
      <3> QED
        BY <1>4, <2>2, <3>2
    <2> QED
      BY <2>1, <2>2
  <1> HIDE DEF F
  <1> QED
    BY <1>5, <1>6 DEF Solves
-----------------------------------------------------------------------------
(* The caches of those that have sent nothing yet.                         *)

\* What the queue of a cache holds: every client once, in the order they came.
Queue(queue) ==
    /\ queue \in Seq(Keys \X Nat)
    /\ \A i \in DOMAIN queue :
         queue[i][1] \in norequest /\ queue[i][2] = arrived[queue[i][1]]
    /\ \A i, j \in DOMAIN queue : i < j => queue[i][2] =< queue[j][2] /\ queue[i][1] # queue[j][1]

\* The one kept aside is older than the queue.
Aside(kept, queue) ==
    /\ kept \in Seq(Keys \X Nat) /\ Len(kept) =< 1
    /\ \A i \in DOMAIN kept :
         /\ kept[i][2] = arrived[kept[i][1]]
         /\ \A j \in DOMAIN queue : kept[i][2] =< queue[j][2] /\ kept[i][1] # queue[j][1]

IdleInv ==
    /\ now \in Nat /\ norequest \subseteq Keys
    /\ arrived \in [Keys -> Nat \cup {-1}]
    /\ \A k \in Keys : arrived[k] =< now
    /\ \A k \in norequest : arrived[k] # -1
    /\ Queue(time) /\ Aside(last, time)
    /\ Idle!NobodyOverlooked

\* A round takes the expired clients at the head of the queue, up to the batch.
LEMMA TakenIsLongest ==
    ASSUME IdleInv, NEW maximum \in Nat, NEW n, n = Idle!Taken(maximum)
    PROVE  /\ n \in 0..Len(time) /\ n =< maximum
           /\ \A i \in 1..n : Idle!Expired(time[i])
           /\ n = maximum \/ n = Len(time) \/ ~Idle!Expired(time[n + 1])
  <1> DEFINE I == {m \in 0..Len(time) : m = maximum \/ m = Len(time) \/ ~Idle!Expired(time[m + 1])}
  <1>1. Len(time) \in Nat
    BY DEF IdleInv, Queue
  <1>2. PICK m \in I : \A j \in I : m =< j
    <2>1. I \in SUBSET Nat /\ Len(time) \in I
      BY <1>1
    <2> HIDE DEF I
    <2> QED
      BY <2>1, LeastNumber
  <1>3. m \in 0..Len(time)
    BY DEF I
  <1>4. ASSUME NEW i \in 1..m PROVE Idle!Expired(time[i])
    <2>1. i - 1 \in 0..Len(time) /\ i - 1 < m
      BY <1>1, <1>3
    <2>2. i - 1 \notin I
      BY <1>2, <1>3, <2>1
    <2>3. (i - 1) + 1 = i
      OBVIOUS
    <2> QED
      BY <2>1, <2>2, <2>3
  <1>5. m =< maximum
    <2>1. maximum < m => maximum \in I
      BY <1>1, <1>3
    <2> QED
      BY <1>2, <1>3, <2>1
  <1>6. m = maximum \/ m = Len(time) \/ ~Idle!Expired(time[m + 1])
    BY DEF I
  <1> HIDE DEF I
  <1> QED
    BY <1>3, <1>4, <1>5, <1>6 DEF Idle!Taken

\* The queue without one client is the queue but for that client.
LEMMA QueueWithout ==
    ASSUME IdleInv, NEW k \in Keys,
           NEW left, left = Idle!Without(k)
    PROVE  \/ left = time /\ \A i \in 1..Len(time) : time[i][1] # k
           \/ \E m \in 1..Len(time) :
                /\ time[m][1] = k
                /\ left \in Seq(Keys \X Nat) /\ Len(left) = Len(time) - 1
                /\ \A i \in 1..(m - 1) : left[i] = time[i]
                /\ \A i \in m..(Len(time) - 1) : left[i] = time[i + 1]
  <1>0. time \in Seq(Keys \X Nat)
    BY DEF IdleInv, Queue
  <1>1. CASE \A i \in 1..Len(time) : time[i][1] # k
    BY <1>1, Zenon DEF Idle!Without, Idle!RemoveFirstMatch
  <1>2. CASE \E i \in 1..Len(time) : time[i][1] = k
    <2> DEFINE I == {i \in 1..Len(time) : time[i][1] = k}
               m == Idle!SelectInSeq(time, LAMBDA pair : pair[1] = k)
    <2>1. left = SubSeq(time, 1, m - 1) \o SubSeq(time, m + 1, Len(time))
      BY <1>2, Zenon DEF Idle!Without, Idle!RemoveFirstMatch, Idle!RemoveAt
    <2>2. m = Idle!Min(I)
      BY <1>2 DEF Idle!SelectInSeq
    <2>3. I \in SUBSET Nat /\ I # {}
      BY <1>0, <1>2
    <2> HIDE DEF I
    <2>4. Idle!Min(I) \in I
      BY <2>3, LeastNumber DEF Idle!Min
    <2> HIDE DEF m
    <2>5. m \in 1..Len(time) /\ time[m][1] = k
      BY <2>2, <2>4 DEF I
    <2>6. /\ left \in Seq(Keys \X Nat) /\ Len(left) = Len(time) - 1
          /\ \A i \in 1..(m - 1) : left[i] = time[i]
          /\ \A i \in m..(Len(time) - 1) : left[i] = time[i + 1]
      <3> DEFINE u == SubSeq(time, 1, m - 1) \o SubSeq(time, m + 1, Len(time))
      <3>1. /\ u \in Seq(Keys \X Nat) /\ Len(u) = Len(time) - 1
            /\ \A i \in 1..(m - 1) : u[i] = time[i]
            /\ \A i \in m..(Len(time) - 1) : u[i] = time[i + 1]
        BY <1>0, <2>5, Cut, Zenon
      <3>2. left = u
        BY <2>1
      <3> HIDE DEF u
      <3> QED
        BY <3>1, <3>2, Zenon
    <2> QED
      BY <2>5, <2>6
  <1> QED
    BY <1>1, <1>2

\* The queue has each client once, in the order they came, after every step of the cache.
LEMMA IdleInit ==
    ASSUME Idle!Init
    PROVE  IdleInv
  BY DEF Idle!Init, IdleInv, Queue, Aside, Idle!NobodyOverlooked

\* Time passes: those that were young may be due.
LEMMA IdleTick ==
    ASSUME IdleInv, Idle!tick
    PROVE  IdleInv' /\ gone' = gone
  BY SMTT(30) DEF Idle!tick, IdleInv, Queue, Aside, Idle!NobodyOverlooked

\* A client that connects is the last of the queue.
LEMMA IdleConnect ==
    ASSUME IdleInv, NEW k \in Keys, Idle!connect(k)
    PROVE  IdleInv' /\ gone' = gone
  <1> USE DEF IdleInv
  <1>1. /\ arrived[k] = -1 /\ arrived' = [arrived EXCEPT ![k] = now]
        /\ norequest' = norequest \cup {k}
        /\ time' = Append(time, <<k, now>>)
        /\ now' = now /\ last' = last /\ gone' = gone
    BY DEF Idle!connect
  <1>2. /\ time' \in Seq(Keys \X Nat) /\ Len(time) \in Nat
        /\ DOMAIN time = 1..Len(time) /\ DOMAIN time' = 1..(Len(time) + 1)
        /\ \A i \in DOMAIN time : time'[i] = time[i]
        /\ time'[Len(time) + 1] = <<k, now>>
    BY <1>1 DEF Queue
  <1>3. \A x \in Keys : arrived'[x] = IF x = k THEN now ELSE arrived[x]
    BY <1>1
  <1>4. \A i \in DOMAIN time :
          /\ time[i] \in Keys \X Nat /\ time[i][1] # k
          /\ time[i][1] \in norequest /\ time[i][2] = arrived[time[i][1]] /\ time[i][2] =< now
    BY <1>1 DEF Queue
  <1>5. Queue(time)'
    <2>1. \A i \in DOMAIN time' : time'[i][1] \in norequest' /\ time'[i][2] = arrived'[time'[i][1]]
      BY <1>1, <1>2, <1>3, <1>4
    <2>2. \A i, j \in DOMAIN time' : i < j => time'[i][2] =< time'[j][2] /\ time'[i][1] # time'[j][1]
      <3>1. \A i, j \in DOMAIN time : i < j => time[i][2] =< time[j][2] /\ time[i][1] # time[j][1]
        BY DEF Queue
      <3>2. time'[Len(time) + 1][1] = k /\ time'[Len(time) + 1][2] = now
        BY <1>2
      <3>3. \A i, j \in DOMAIN time' :
              i < j => i \in DOMAIN time /\ (j \in DOMAIN time \/ j = Len(time) + 1)
        BY <1>2
      <3> HIDE DEF IdleInv
      <3>4. \A i \in DOMAIN time : time'[i] = time[i] /\ time[i][1] # k /\ time[i][2] =< now
        BY <1>2, <1>4
      <3> QED
        BY <3>1, <3>2, <3>3, <3>4
    <2> QED
      BY <1>2, <2>1, <2>2 DEF Queue
  <1>6. \A i \in DOMAIN last : last[i] \in Keys \X Nat /\ last[i][1] # k /\ last[i][2] =< now
    BY <1>1 DEF Aside
  <1>7. Aside(last, time)'
    BY <1>1, <1>2, <1>3, <1>6 DEF Aside
  <1>8. Idle!NobodyOverlooked'
    <2>1. \A x \in norequest : (\E i \in DOMAIN time : time[i][1] = x) \/ (\E i \in DOMAIN last : last[i][1] = x)
      BY DEF Idle!NobodyOverlooked
    <2>2. \A x \in norequest' :
            (\E i \in DOMAIN time' : time'[i][1] = x) \/ (\E i \in DOMAIN last' : last'[i][1] = x)
      <3>1. last' = last /\ norequest' = norequest \cup {k}
        BY <1>1
      <3>2. Len(time) + 1 \in DOMAIN time' /\ time'[Len(time) + 1][1] = k
        BY <1>2
      <3>3. \A i \in DOMAIN time : i \in DOMAIN time' /\ time'[i] = time[i]
        BY <1>2
      <3> HIDE DEF IdleInv
      <3> QED
        BY <2>1, <3>1, <3>2, <3>3
    <2> QED
      BY <2>2 DEF Idle!NobodyOverlooked
  <1> QED
    BY <1>1, <1>3, <1>5, <1>7, <1>8

\* A client that has sent something leaves the queue.
LEMMA IdlePop ==
    ASSUME IdleInv, NEW k \in Keys, Idle!pop(k)
    PROVE  IdleInv' /\ gone' = gone
  <1>1. /\ norequest' = norequest \ {k} /\ time' = Idle!Without(k)
        /\ now' = now /\ last' = last /\ arrived' = arrived /\ gone' = gone
    BY DEF Idle!pop
  <1>2. \/ time' = time /\ \A i \in 1..Len(time) : time[i][1] # k
        \/ \E m \in 1..Len(time) :
             /\ time[m][1] = k
             /\ time' \in Seq(Keys \X Nat) /\ Len(time') = Len(time) - 1
             /\ \A i \in 1..(m - 1) : time'[i] = time[i]
             /\ \A i \in m..(Len(time) - 1) : time'[i] = time[i + 1]
    <2> DEFINE left == time'
    <2>1. left = Idle!Without(k)
      BY <1>1
    <2> HIDE DEF left
    <2>2. \/ left = time /\ \A i \in 1..Len(time) : time[i][1] # k
          \/ \E m \in 1..Len(time) :
               /\ time[m][1] = k
               /\ left \in Seq(Keys \X Nat) /\ Len(left) = Len(time) - 1
               /\ \A i \in 1..(m - 1) : left[i] = time[i]
               /\ \A i \in m..(Len(time) - 1) : left[i] = time[i + 1]
      BY <2>1, QueueWithout, SMTT(30)
    <2> QED
      BY <2>2, Zenon DEF left
  <1>3. \A x \in norequest :
          (\E i \in DOMAIN time : time[i][1] = x) \/ (\E i \in DOMAIN last : last[i][1] = x)
    BY DEF IdleInv, Idle!NobodyOverlooked
  <1>4. /\ DOMAIN time = 1..Len(time) /\ Len(time) \in Nat
        /\ \A i \in DOMAIN time : time[i][1] \in norequest /\ time[i][2] = arrived[time[i][1]]
        /\ \A i, j \in DOMAIN time : i < j => time[i][2] =< time[j][2] /\ time[i][1] # time[j][1]
    BY DEF IdleInv, Queue
  <1>5. Aside(last, time) /\ Queue(time)
    BY DEF IdleInv
  <1>6. Queue(time)' /\ Aside(last, time)' /\ Idle!NobodyOverlooked'
    <2>1. CASE time' = time /\ \A i \in 1..Len(time) : time[i][1] # k
      <3>1. Queue(time)' /\ Aside(last, time)'
        BY <1>1, <1>4, <1>5, <2>1 DEF Queue, Aside
      <3>2. Idle!NobodyOverlooked'
        BY <1>1, <1>3, <2>1 DEF Idle!NobodyOverlooked
      <3> QED
        BY <3>1, <3>2
    <2>2. ASSUME NEW m \in 1..Len(time), time[m][1] = k,
                 time' \in Seq(Keys \X Nat), Len(time') = Len(time) - 1,
                 \A i \in 1..(m - 1) : time'[i] = time[i],
                 \A i \in m..(Len(time) - 1) : time'[i] = time[i + 1]
          PROVE  Queue(time)' /\ Aside(last, time)' /\ Idle!NobodyOverlooked'
      <3> DEFINE f(i) == IF i < m THEN i ELSE i + 1
      <3>1. DOMAIN time' = 1..(Len(time) - 1)
        BY <1>4, <2>2
      <3>2. ASSUME NEW i \in DOMAIN time'
            PROVE  f(i) \in DOMAIN time /\ f(i) # m /\ time'[i] = time[f(i)]
        BY <1>4, <2>2, <3>1, <3>2, SMTT(30)
      <3>3. ASSUME NEW i \in DOMAIN time', NEW j \in DOMAIN time', i < j
            PROVE  f(i) < f(j)
        BY <1>4, <3>1, <3>3
      <3>4. ASSUME NEW j \in DOMAIN time, j # m
            PROVE  \E i \in DOMAIN time' : time'[i] = time[j]
        <4> DEFINE i == IF j < m THEN j ELSE j - 1
        <4>1. i \in DOMAIN time' /\ f(i) = j
          BY <1>4, <3>1, <3>4
        <4> QED
          BY <3>2, <4>1
      <3> HIDE DEF f
      <3>5. \A i \in DOMAIN time : i # m => time[i][1] # k
        BY <1>4, <2>2
      <3>6. Queue(time)'
        <4>1. ASSUME NEW i \in DOMAIN time'
              PROVE  time'[i][1] \in norequest' /\ time'[i][2] = arrived'[time'[i][1]]
          <5>1. time'[i] = time[f(i)] /\ f(i) \in DOMAIN time /\ time[f(i)][1] # k
            BY <3>2, <3>5
          <5>2. time[f(i)][1] \in norequest /\ time[f(i)][2] = arrived[time[f(i)][1]]
            BY <1>4, <5>1
          <5> QED
            BY <1>1, <5>1, <5>2, Zenon
        <4>2. ASSUME NEW i \in DOMAIN time', NEW j \in DOMAIN time', i < j
              PROVE  time'[i][2] =< time'[j][2] /\ time'[i][1] # time'[j][1]
          <5>1. /\ time'[i] = time[f(i)] /\ time'[j] = time[f(j)] /\ f(i) < f(j)
                /\ f(i) \in DOMAIN time /\ f(j) \in DOMAIN time
            BY <3>2, <3>3, <4>2
          <5>2. time[f(i)][2] =< time[f(j)][2] /\ time[f(i)][1] # time[f(j)][1]
            BY <1>4, <5>1
          <5> QED
            BY <5>1, <5>2
        <4> QED
          BY <2>2, <4>1, <4>2, Zenon DEF Queue
      <3>7. Aside(last, time)'
        <4>1. \A j \in DOMAIN time' : f(j) \in DOMAIN time /\ time'[j] = time[f(j)]
          BY <3>2
        <4>2. \A i \in DOMAIN last : \A j \in DOMAIN time' :
                last[i][2] =< time'[j][2] /\ last[i][1] # time'[j][1]
          <5> SUFFICES ASSUME NEW i \in DOMAIN last, NEW j \in DOMAIN time'
                       PROVE  last[i][2] =< time'[j][2] /\ last[i][1] # time'[j][1]
            BY Zenon
          <5>1. last[i][2] =< time[f(j)][2] /\ last[i][1] # time[f(j)][1]
            BY <1>5, <4>1 DEF Aside
          <5> QED
            BY <4>1, <5>1
        <4> QED
          BY <1>1, <1>5, <4>2, Zenon DEF Aside
      <3>8. Idle!NobodyOverlooked'
        <4>1. ASSUME NEW x \in norequest'
              PROVE  (\E i \in DOMAIN time' : time'[i][1] = x) \/ (\E i \in DOMAIN last' : last'[i][1] = x)
          <5>1. x \in norequest /\ x # k /\ last' = last
            BY <1>1
          <5>2. CASE \E j \in DOMAIN time : time[j][1] = x
            <6>1. PICK j \in DOMAIN time : time[j][1] = x /\ j # m
              BY <2>2, <5>1, <5>2
            <6> QED
              BY <3>4, <6>1
          <5> QED
            BY <1>3, <5>1, <5>2
        <4> QED
          BY <4>1 DEF Idle!NobodyOverlooked
      <3> QED
        BY <3>6, <3>7, <3>8
    <2> QED
      BY <1>2, <2>1, <2>2
  <1> QED
    BY <1>1, <1>6 DEF IdleInv

\* A round takes a part of the queue from its head, and may keep one more aside.
LEMMA IdleExpire ==
    ASSUME IdleInv, Idle!expire
    PROVE  /\ IdleInv'
           /\ gone' # gone =>
                \A k \in gone' : k \in norequest /\ arrived[k] + Timeout =< now
           /\ \A k \in gone' \ gone : \A other \in norequest \ gone' : arrived[k] =< arrived[other]
  <1>1. norequest' = norequest \ gone' /\ now' = now /\ arrived' = arrived
    BY DEF Idle!expire
  <1>2. CASE last # <<>> /\ ~Idle!Expired(last[1])
    <2>1. gone' = {} /\ time' = time /\ last' = last
      BY <1>2 DEF Idle!expire, Idle!expired
    <2> QED
      BY <1>1, <2>1 DEF IdleInv, Queue, Aside, Idle!NobodyOverlooked
  <1>3. CASE ~(last # <<>> /\ ~Idle!Expired(last[1]))
    <2> DEFINE first == {last[i][1] : i \in DOMAIN last} \cap norequest
               maximum == IF first = {} THEN Batch ELSE Batch - 1
               n == Idle!Taken(maximum)
               kept == Idle!Kept(n, maximum)
    <2>1. /\ gone' = first \cup {time[i][1] : i \in 1..n}
          /\ time' = SubSeq(time, n + Len(kept) + 1, Len(time))
          /\ last' = kept
      BY <1>3 DEF Idle!expire, Idle!expired
    <2>2. maximum \in Nat
      BY PartsAssumption
    <2>3. \A x \in first : \E i \in DOMAIN last : last[i][1] = x
      OBVIOUS
    <2>4. \A i \in DOMAIN last : last[i][1] \in norequest => last[i][1] \in first
      OBVIOUS
    <2>5. first \subseteq norequest
      OBVIOUS
    <2> HIDE DEF first, maximum
    <2>6. /\ n \in 0..Len(time) /\ n =< maximum
          /\ \A i \in 1..n : Idle!Expired(time[i])
      BY <2>2, TakenIsLongest
    <2>7. \/ kept = <<>>
          \/ n < Len(time) /\ kept = <<time[n + 1]>>
      BY DEF Idle!Kept
    <2> HIDE DEF n, kept
    <2>8. \A i \in DOMAIN last : Idle!Expired(last[i])
      <3>1. \A i \in DOMAIN last : i = 1 /\ last # <<>>
        BY DEF IdleInv, Aside
      <3> QED
        BY <1>3, <3>1
    <2>9. /\ Len(time) \in Nat /\ DOMAIN time = 1..Len(time) /\ n \in Nat /\ n =< Len(time)
          /\ \A i \in DOMAIN time :
               /\ time[i] \in Keys \X Nat
               /\ time[i][1] \in norequest /\ time[i][2] = arrived[time[i][1]]
          /\ \A i, j \in DOMAIN time : i < j => time[i][2] =< time[j][2] /\ time[i][1] # time[j][1]
      BY <2>6 DEF IdleInv, Queue
    <2>10. PICK d \in Nat :
             /\ d = n + Len(kept) /\ n =< d /\ d =< Len(time)
             /\ \/ kept = <<>> /\ d = n
                \/ kept = <<time[n + 1]>> /\ d = n + 1 /\ n < Len(time)
      <3>1. kept = <<>> => Len(kept) = 0
        OBVIOUS
      <3>2. kept = <<time[n + 1]>> => Len(kept) = 1
        OBVIOUS
      <3> QED
        BY <2>7, <2>9, <3>1, <3>2
    <2>11. /\ time' \in Seq(Keys \X Nat) /\ DOMAIN time' = 1..(Len(time) - d)
           /\ \A i \in 1..(Len(time) - d) : time'[i] = time[i + d]
      <3>1. time' = SubSeq(time, d + 1, Len(time))
        BY <2>1, <2>10
      <3>2. time \in Seq(Keys \X Nat)
        BY DEF IdleInv, Queue
      <3> QED
        BY <2>9, <2>10, <3>1, <3>2, SMTT(30)
    <2>12. /\ \A i \in DOMAIN last :
                /\ last[i] \in Keys \X Nat /\ last[i][2] = arrived[last[i][1]]
                /\ \A j \in DOMAIN time : last[i][2] =< time[j][2] /\ last[i][1] # time[j][1]
           /\ \A k \in norequest :
                (\E i \in DOMAIN time : time[i][1] = k) \/ (\E i \in DOMAIN last : last[i][1] = k)
      BY DEF IdleInv, Aside, Idle!NobodyOverlooked
    <2>13. \A i \in 1..(Len(time) - d) : i + d \in DOMAIN time /\ i + d > n
      BY <2>9, <2>10
    <2>14. \A j \in DOMAIN time : j > n => time[j][1] \notin gone'
      <3> SUFFICES ASSUME NEW j \in DOMAIN time, j > n PROVE time[j][1] \notin gone'
        OBVIOUS
      <3>1. time[j][1] \notin first
        BY <2>3, <2>12
      <3>2. \A i \in 1..n : i \in DOMAIN time /\ i < j
        BY <2>9
      <3>3. \A i \in 1..n : time[i][1] # time[j][1]
        BY <2>9, <3>2
      <3> QED
        BY <2>1, <3>1, <3>3
    <2>15. Queue(time)'
      <3>1. ASSUME NEW i \in DOMAIN time'
            PROVE  time'[i][1] \in norequest' /\ time'[i][2] = arrived'[time'[i][1]]
        <4>1. i + d \in DOMAIN time /\ i + d > n /\ time'[i] = time[i + d]
          BY <2>11, <2>13
        <4>2. time[i + d][1] \notin gone' /\ time[i + d][1] \in norequest
          BY <2>9, <2>14, <4>1
        <4>3. time[i + d][2] = arrived[time[i + d][1]]
          BY <2>9, <4>1
        <4> QED
          BY <1>1, <4>1, <4>2, <4>3, Zenon
      <3>2. ASSUME NEW i \in DOMAIN time', NEW j \in DOMAIN time', i < j
            PROVE  time'[i][2] =< time'[j][2] /\ time'[i][1] # time'[j][1]
        <4>1. /\ i + d \in DOMAIN time /\ j + d \in DOMAIN time /\ i + d < j + d
              /\ time'[i] = time[i + d] /\ time'[j] = time[j + d]
          BY <2>10, <2>11, <2>13, <3>2
        <4>2. time[i + d][2] =< time[j + d][2] /\ time[i + d][1] # time[j + d][1]
          BY <2>9, <4>1
        <4> QED
          BY <4>1, <4>2
      <3> QED
        BY <2>11, <3>1, <3>2, Zenon DEF Queue
    <2>16. Aside(last, time)'
      <3>1. CASE kept = <<>>
        BY <2>1, <3>1 DEF Aside
      <3>2. CASE kept = <<time[n + 1]>> /\ d = n + 1 /\ n < Len(time)
        <4>1. n + 1 \in DOMAIN time
          BY <2>9, <3>2
        <4>2. /\ time[n + 1] \in Keys \X Nat /\ time[n + 1][2] = arrived[time[n + 1][1]]
          BY <2>9, <4>1
        <4>3. ASSUME NEW j \in DOMAIN time'
              PROVE  time[n + 1][2] =< time'[j][2] /\ time[n + 1][1] # time'[j][1]
          <5>1. j + d \in DOMAIN time /\ n + 1 < j + d /\ time'[j] = time[j + d]
            BY <2>9, <2>11, <2>13, <3>2
          <5>2. time[n + 1][2] =< time[j + d][2] /\ time[n + 1][1] # time[j + d][1]
            BY <2>9, <4>1, <5>1
          <5> QED
            BY <5>1, <5>2
        <4>4. /\ last' \in Seq(Keys \X Nat) /\ Len(last') = 1
              /\ \A i \in DOMAIN last' : last'[i] = time[n + 1]
          BY <2>1, <3>2, <4>2
        <4> QED
          BY <1>1, <4>2, <4>3, <4>4 DEF Aside
      <3> QED
        BY <2>10, <3>1, <3>2
    <2>17. Idle!NobodyOverlooked'
      <3> SUFFICES ASSUME NEW k \in norequest \ gone'
                   PROVE  \/ \E i \in DOMAIN time' : time'[i][1] = k
                          \/ \E i \in DOMAIN last' : last'[i][1] = k
        BY <1>1 DEF Idle!NobodyOverlooked
      <3>1. ~\E i \in DOMAIN last : last[i][1] = k
        BY <2>1, <2>4
      <3>2. PICK j \in DOMAIN time : time[j][1] = k
        BY <2>12, <3>1
      <3>3. j > n
        <4>1. j \in 1..n => k \in gone'
          BY <2>1, <3>2
        <4> QED
          BY <2>9, <4>1
      <3>4. CASE j > d
        <4> DEFINE i == j - d
        <4>1. j \in 1..Len(time)
          BY <2>9
        <4>2. i \in 1..(Len(time) - d) /\ i + d = j
          BY <2>9, <3>4, <4>1
        <4> HIDE DEF i
        <4> QED
          BY <2>11, <3>2, <4>2
      <3>5. CASE ~(j > d)
        <4>1. kept = <<time[n + 1]>> /\ j = n + 1
          BY <2>9, <2>10, <3>3, <3>5
        <4> QED
          BY <2>1, <3>2, <4>1
      <3> QED
        BY <3>4, <3>5
    <2>18. \A k \in gone' : k \in norequest /\ arrived[k] + Timeout =< now
      <3> SUFFICES ASSUME NEW k \in gone'
                   PROVE  k \in norequest /\ arrived[k] + Timeout =< now
        OBVIOUS
      <3>0. /\ now \in Nat /\ Timeout \in Nat /\ norequest \subseteq Keys
            /\ \A x \in norequest : arrived[x] \in Int
        BY PartsAssumption DEF IdleInv
      <3>1. CASE k \in first
        <4>1. PICK i \in DOMAIN last : last[i][1] = k
          BY <2>3, <3>1
        <4>2. last[i][2] =< now - Timeout /\ last[i][2] = arrived[k] /\ k \in norequest
          BY <2>5, <2>8, <2>12, <3>1, <4>1 DEF Idle!Expired
        <4> QED
          BY <3>0, <4>2
      <3>2. CASE \E i \in 1..n : time[i][1] = k
        <4>1. PICK i \in 1..n : time[i][1] = k
          BY <3>2
        <4>2. i \in DOMAIN time
          BY <2>9
        <4>3. time[i][2] =< now - Timeout /\ time[i][2] = arrived[k] /\ k \in norequest
          BY <2>6, <2>9, <4>1, <4>2 DEF Idle!Expired
        <4> QED
          BY <3>0, <4>3
      <3> QED
        BY <2>1, <3>1, <3>2
    <2>19. \A k \in gone' : \A other \in norequest \ gone' : arrived[k] =< arrived[other]
      <3> SUFFICES ASSUME NEW k \in gone', NEW other \in norequest \ gone'
                   PROVE  arrived[k] =< arrived[other]
        OBVIOUS
      <3>1. ~\E i \in DOMAIN last : last[i][1] = other
        BY <2>1, <2>4
      <3>2. PICK j \in DOMAIN time : time[j][1] = other
        BY <2>12, <3>1
      <3>3. j > n
        <4>1. j \in 1..n => other \in gone'
          BY <2>1, <3>2
        <4> QED
          BY <2>9, <4>1
      <3>4. time[j][2] = arrived[other]
        BY <2>9, <3>2
      <3>5. CASE k \in first
        <4>1. PICK i \in DOMAIN last : last[i][1] = k
          BY <2>3, <3>5
        <4>2. last[i][2] =< time[j][2] /\ last[i][2] = arrived[k]
          BY <2>12, <4>1
        <4> QED
          BY <3>4, <4>2
      <3>6. CASE \E i \in 1..n : time[i][1] = k
        <4>1. PICK i \in 1..n : time[i][1] = k
          BY <3>6
        <4>2. i \in DOMAIN time /\ i < j
          BY <2>9, <3>3
        <4>3. time[i][2] =< time[j][2] /\ time[i][2] = arrived[k]
          BY <2>9, <4>1, <4>2
        <4> QED
          BY <3>4, <4>3
      <3> QED
        BY <2>1, <3>5, <3>6
    <2>20. IdleInv'
      BY <1>1, <2>15, <2>16, <2>17 DEF IdleInv
    <2> QED
      BY <2>18, <2>19, <2>20
  <1> QED
    BY <1>2, <1>3

\* What a step may do to those that were expired.
ExpiredStep ==
    /\ gone' # gone => \A k \in gone' : k \in norequest /\ arrived[k] + Timeout <= now
    /\ \A k \in gone' \ gone : \A other \in norequest \ gone' : arrived[k] <= arrived[other]

\* The steps of the other parts leave the cache as it is.
LEMMA IdleStays ==
    ASSUME IdleInv, [Next]_vars
    PROVE  IdleInv' /\ [ExpiredStep]_(Idle!vars)
  <1>1. CASE Idle!Next
    <2>1. ASSUME Idle!tick PROVE IdleInv' /\ ExpiredStep
      BY <2>1, IdleTick DEF ExpiredStep
    <2>2. ASSUME NEW k \in Keys, Idle!connect(k) \/ Idle!pop(k) PROVE IdleInv' /\ ExpiredStep
      BY <2>2, IdleConnect, IdlePop DEF ExpiredStep
    <2>3. ASSUME Idle!expire PROVE IdleInv' /\ ExpiredStep
      BY <2>3, IdleExpire DEF ExpiredStep
    <2> QED
      BY <1>1, <2>1, <2>2, <2>3 DEF Idle!Next
  <1>2. CASE UNCHANGED idle
    BY <1>2 DEF idle, IdleInv, Queue, Aside, Idle!NobodyOverlooked, Idle!vars
  <1> QED
    BY <1>1, <1>2 DEF Next, Others, vars

\* No client is expired too early, nor before one that came earlier, nor overlooked, whatever
\* the size of a batch (util/cache.py:34-57).
THEOREM AlwaysExpiredInTurn == Spec => ExpiredInTurn
  <1>1. Init => IdleInv
    BY IdleInit DEF Init
  <1>2. IdleInv /\ [Next]_vars => IdleInv' /\ [ExpiredStep]_(Idle!vars)
    BY IdleStays
  <1>3. IdleInv => Idle!NobodyOverlooked
    BY DEF IdleInv
  <1>4. [ExpiredStep]_(Idle!vars) =>
          [gone' # gone => \A k \in gone' : k \in norequest /\ arrived[k] + Timeout <= now]_(Idle!vars)
    BY DEF ExpiredStep
  <1>5. [ExpiredStep]_(Idle!vars) =>
          [\A k \in gone' \ gone : \A other \in norequest \ gone' : arrived[k] <= arrived[other]]_(Idle!vars)
    BY DEF ExpiredStep
  <1> QED
    BY <1>1, <1>2, <1>3, <1>4, <1>5, PTL
       DEF Spec, ExpiredInTurn, Idle!NeverEarly, Idle!OldestFirst
-----------------------------------------------------------------------------
(* Messages over pipes: a length is read as what was written of it.        *)

\* The last digit of a number.
Lowest(n) == IF n % 2 = 1 THEN "1" ELSE "0"

\* The digits of a number are what their definition says.
LEMMA DigitsDefined ==
    /\ Box!Digits \in [Nat -> Seq(Box!Digit)]
    /\ \A n \in Nat :
         Box!Digits[n] = IF n < 2 THEN <<Lowest(n)>> ELSE Append(Box!Digits[n \div 2], Lowest(n))
  <1> DEFINE S == Seq(Box!Digit)
             Basic == {0, 1}
             p == [n \in Nat |-> n \div 2]
             base == [n \in Nat |-> <<Lowest(n)>>]
             g == [x \in Nat \X S |-> Append(x[2], Lowest(x[1]))]
  <1>1. \A n \in Nat : Lowest(n) \in Box!Digit
    BY DEF Lowest, Box!Digit
  <1>2. p \in [Nat -> Nat] /\ \A n \in Nat : p[n] = n \div 2 /\ (n \in Basic \/ p[n] < n)
    OBVIOUS
  <1>3. base \in [Nat -> S] /\ \A n \in Nat : base[n] = <<Lowest(n)>>
    BY <1>1
  <1>4. /\ g \in [Nat \X S -> S]
        /\ \A n \in Nat : \A s \in S : g[<<n, s>>] = Append(s, Lowest(n))
    <2>1. \A x \in Nat \X S : Append(x[2], Lowest(x[1])) \in S
      BY <1>1
    <2> QED
      BY <2>1
  <1>b. \A n \in Nat : n \in Basic <=> n < 2
    OBVIOUS
  <1> HIDE DEF p, base, g, S, Basic
  <1>5. PICK f : Solves(f, S, Basic, p, base, g)
    <2>1. Founded(S, Basic, p, base, g)
      BY <1>2, <1>3, <1>4 DEF Founded
    <2> QED
      BY <2>1, Recursion
  <1>c. /\ f \in [Nat -> S]
        /\ \A n \in Nat : f[n] = IF n \in Basic THEN base[n] ELSE g[<<n, f[p[n]]>>]
    BY <1>5 DEF Solves
  <1> HIDE <1>5
  <1>6. \A n \in Nat : f[n] = IF n < 2 THEN <<Lowest(n)>> ELSE Append(f[n \div 2], Lowest(n))
    <2> SUFFICES ASSUME NEW n \in Nat
                 PROVE  f[n] = IF n < 2 THEN <<Lowest(n)>> ELSE Append(f[n \div 2], Lowest(n))
      OBVIOUS
    <2>1. CASE n < 2
      BY <1>3, <1>c, <1>b, <2>1
    <2>2. CASE ~(n < 2)
      <3>1. f[n] = g[<<n, f[p[n]]>>] /\ p[n] \in Nat /\ p[n] = n \div 2
        BY <1>2, <1>c, <1>b, <2>2
      <3>2. f[p[n]] \in S
        BY <1>c, <3>1
      <3> QED
        BY <1>4, <2>2, <3>1, <3>2
    <2> QED
      BY <2>1, <2>2
  <1>7. f = [n \in Nat |-> IF n < 2 THEN <<Lowest(n)>> ELSE Append(f[n \div 2], Lowest(n))]
    BY <1>c, <1>6, SMTT(30)
  <1>8. Box!Digits = [n \in Nat |-> IF n < 2 THEN <<Lowest(n)>>
                                    ELSE Append(Box!Digits[n \div 2], Lowest(n))]
    BY <1>7 DEF Box!Digits, Lowest
  <1>9. \A n \in Nat : Box!Digits[n] \in S
    <2> DEFINE D == {n \in Nat : Box!Digits[n] \notin S}
    <2> SUFFICES ASSUME D # {} PROVE FALSE
      OBVIOUS
    <2>1. PICK n \in D : \A x \in D : n =< x
      <3>1. D \in SUBSET Nat
        OBVIOUS
      <3> HIDE DEF D
      <3> QED
        BY <3>1, LeastNumber
    <2>2. n \in Nat /\ Box!Digits[n] \notin S
      BY <2>1
    <2>3. Box!Digits[n] = IF n < 2 THEN <<Lowest(n)>> ELSE Append(Box!Digits[n \div 2], Lowest(n))
      BY <1>8, <2>2
    <2>4. n >= 2
      BY <1>1, <2>2, <2>3 DEF S
    <2>5. n \div 2 \in Nat /\ n \div 2 < n
      BY <2>2, <2>4
    <2>6. Box!Digits[n \div 2] \in S
      BY <2>1, <2>2, <2>5
    <2> QED
      BY <1>1, <2>2, <2>3, <2>4, <2>6 DEF S
  <1> QED
    BY <1>8, <1>9 DEF S

\* The numbers that the beginnings of a numeral stand for.
Values(s, v) ==
    /\ v \in [0..Len(s) -> Int] /\ v[0] = 0
    /\ \A i \in 1..Len(s) : v[i] = 2 * v[i - 1] + Box!Value[s[i]]

\* A numeral stands for the last of the numbers of its beginnings.
LEMMA NumberDefined ==
    ASSUME NEW s \in Seq(Box!Digit)
    PROVE  \E v : Values(s, v) /\ Box!Number(s) = v[Len(s)]
  <1> DEFINE Basic == {0}
             p == [n \in Nat |-> IF n = 0 THEN 0 ELSE n - 1]
             base == [n \in Nat |-> 0]
             last_(n) == IF n \in 1..Len(s) THEN Box!Value[s[n]] ELSE 0
             g == [x \in Nat \X Int |-> 2 * x[2] + last_(x[1])]
  <1>0. Len(s) \in Nat
    OBVIOUS
  <1>1. \A n \in Nat : last_(n) \in Int
    BY DEF Box!Value, Box!Digit
  <1>2. p \in [Nat -> Nat] /\ \A n \in Nat : n # 0 => p[n] = n - 1
    OBVIOUS
  <1>3. base \in [Nat -> Int] /\ \A n \in Nat : base[n] = 0
    OBVIOUS
  <1>4. /\ g \in [Nat \X Int -> Int]
        /\ \A n \in Nat : \A k \in Int : g[<<n, k>>] = 2 * k + last_(n)
    <2> HIDE DEF last_
    <2> QED
      BY <1>1, SMTT(30)
  <1>5. \A n \in Nat : n \in Basic \/ p[n] < n
    BY <1>2
  <1>6. \A n \in Nat : n \in Basic <=> n = 0
    OBVIOUS
  <1> HIDE DEF Basic, p, base, g
  <1>7. PICK f : Solves(f, Int, Basic, p, base, g)
    <2>1. Founded(Int, Basic, p, base, g)
      BY <1>2, <1>3, <1>4, <1>5 DEF Founded
    <2> QED
      BY <2>1, Recursion
  <1>8. /\ f \in [Nat -> Int]
        /\ \A n \in Nat : f[n] = IF n \in Basic THEN base[n] ELSE g[<<n, f[p[n]]>>]
    BY <1>7 DEF Solves
  <1> HIDE <1>7
  <1>9. f[0] = 0
    BY <1>3, <1>6, <1>8
  <1>10. ASSUME NEW i \in 1..Len(s) PROVE f[i] = 2 * f[i - 1] + Box!Value[s[i]]
    <2>1. i \in Nat /\ i # 0 /\ p[i] = i - 1 /\ i - 1 \in Nat
      BY <1>0, <1>2
    <2>2. f[i] = g[<<i, f[i - 1]>>]
      BY <1>6, <1>8, <2>1
    <2>3. last_(i) = Box!Value[s[i]]
      OBVIOUS
    <2> HIDE DEF last_
    <2> QED
      BY <1>4, <1>8, <2>1, <2>2, <2>3
  <1> HIDE DEF last_
  <1> DEFINE u == [i \in 0..Len(s) |-> f[i]]
  <1>11. /\ u \in [0..Len(s) -> Int] /\ u[0] = 0 /\ u[Len(s)] = f[Len(s)]
         /\ \A i \in 0..Len(s) : u[i] = f[i]
    BY <1>0, <1>8, <1>9
  <1>12. u = [i \in 0..Len(s) |-> IF i = 0 THEN 0 ELSE 2 * u[i - 1] + Box!Value[s[i]]]
    <2> SUFFICES ASSUME NEW i \in 0..Len(s)
                 PROVE  f[i] = IF i = 0 THEN 0 ELSE 2 * u[i - 1] + Box!Value[s[i]]
      OBVIOUS
    <2>1. CASE i = 0
      BY <1>9, <2>1
    <2>2. CASE i # 0
      <3>1. i \in 1..Len(s) /\ i - 1 \in 0..Len(s)
        BY <1>0, <2>2
      <3> HIDE DEF u
      <3> QED
        BY <1>10, <1>11, <2>2, <3>1
    <2> QED
      BY <2>1, <2>2
  <1> HIDE DEF u
  <1> DEFINE v == CHOOSE v : v = [i \in 0..Len(s) |-> IF i = 0 THEN 0 ELSE 2 * v[i - 1] + Box!Value[s[i]]]
  <1>13. v = [i \in 0..Len(s) |-> IF i = 0 THEN 0 ELSE 2 * v[i - 1] + Box!Value[s[i]]]
    BY <1>12
  <1>14. Box!Number(s) = v[Len(s)]
    BY DEF Box!Number
  <1> HIDE DEF v
  <1>15. \A i \in 0..Len(s) : v[i] = u[i]
    <2> DEFINE D == {i \in 0..Len(s) : v[i] # u[i]}
    <2> SUFFICES ASSUME D # {} PROVE FALSE
      OBVIOUS
    <2>1. PICK i \in D : \A x \in D : i =< x
      <3>1. D \in SUBSET Nat
        BY <1>0
      <3> HIDE DEF D
      <3> QED
        BY <3>1, LeastNumber
    <2>2. i \in 0..Len(s) /\ v[i] # u[i]
      BY <2>1
    <2>3. /\ u[i] = IF i = 0 THEN 0 ELSE 2 * u[i - 1] + Box!Value[s[i]]
          /\ v[i] = IF i = 0 THEN 0 ELSE 2 * v[i - 1] + Box!Value[s[i]]
      BY <1>12, <1>13, <2>2
    <2>4. i # 0 /\ i - 1 \in 0..Len(s) /\ i - 1 < i
      BY <1>0, <2>2, <2>3
    <2>5. v[i - 1] = u[i - 1]
      <3>1. i - 1 \notin D
        <4> HIDE DEF D
        <4> QED
          BY <1>0, <2>1, <2>2, <2>4
      <3> QED
        BY <2>4, <3>1
    <2> QED
      BY <2>2, <2>3, <2>4, <2>5
  <1>16. Values(s, u)
    <2>1. ASSUME NEW i \in 1..Len(s) PROVE u[i] = 2 * u[i - 1] + Box!Value[s[i]]
      <3>1. i \in 0..Len(s) /\ i - 1 \in 0..Len(s)
        BY <1>0
      <3> QED
        BY <1>10, <1>11, <3>1
    <2> QED
      BY <1>11, <2>1 DEF Values
  <1>17. Len(s) \in 0..Len(s)
    BY <1>0
  <1> QED
    BY <1>14, <1>15, <1>16, <1>17

\* A numeral with one digit more stands for twice the number, and the digit.
LEMMA NumberAppended ==
    ASSUME NEW s \in Seq(Box!Digit), NEW d \in Box!Digit
    PROVE  Box!Number(Append(s, d)) = 2 * Box!Number(s) + Box!Value[d]
  <1>1. PICK v : Values(s, v) /\ Box!Number(s) = v[Len(s)]
    BY NumberDefined
  <1> DEFINE t == Append(s, d)
  <1>2. /\ t \in Seq(Box!Digit) /\ Len(s) \in Nat /\ Len(t) = Len(s) + 1
        /\ t[Len(s) + 1] = d /\ \A i \in 1..Len(s) : t[i] = s[i]
    OBVIOUS
  <1> HIDE DEF t
  <1>3. PICK w : Values(t, w) /\ Box!Number(t) = w[Len(t)]
    BY <1>2, NumberDefined
  <1>4. /\ v[0] = 0 /\ \A i \in 1..Len(s) : v[i] = 2 * v[i - 1] + Box!Value[s[i]]
        /\ w[0] = 0 /\ \A i \in 1..Len(t) : w[i] = 2 * w[i - 1] + Box!Value[t[i]]
    BY <1>1, <1>3 DEF Values
  <1>5. \A i \in 0..Len(s) : w[i] = v[i]
    <2> DEFINE D == {i \in 0..Len(s) : w[i] # v[i]}
    <2> SUFFICES ASSUME D # {} PROVE FALSE
      OBVIOUS
    <2>1. PICK i \in D : \A x \in D : i =< x
      <3>1. D \in SUBSET Nat
        BY <1>2
      <3> HIDE DEF D
      <3> QED
        BY <3>1, LeastNumber
    <2>2. i \in 0..Len(s) /\ w[i] # v[i] /\ i # 0
      BY <1>4, <2>1
    <2>3. i \in 1..Len(s) /\ i \in 1..Len(t) /\ i - 1 \in 0..Len(s) /\ i - 1 < i
      BY <1>2, <2>2
    <2>4. w[i - 1] = v[i - 1]
      <3>1. i - 1 \notin D
        <4> HIDE DEF D
        <4> QED
          BY <1>2, <2>1, <2>2, <2>3
      <3> QED
        BY <2>3, <3>1
    <2>5. v[i] = 2 * v[i - 1] + Box!Value[s[i]] /\ w[i] = 2 * w[i - 1] + Box!Value[t[i]]
      BY <1>4, <2>3
    <2> QED
      BY <1>2, <2>2, <2>3, <2>4, <2>5
  <1>6. w[Len(s) + 1] = 2 * w[Len(s)] + Box!Value[d] /\ w[Len(s)] = v[Len(s)]
    <2>1. Len(s) + 1 \in 1..Len(t) /\ Len(s) \in 0..Len(s) /\ (Len(s) + 1) - 1 = Len(s)
      BY <1>2
    <2> QED
      BY <1>2, <1>4, <1>5, <2>1
  <1>7. Box!Number(t) = 2 * Box!Number(s) + Box!Value[d]
    BY <1>1, <1>2, <1>3, <1>6
  <1> QED
    BY <1>7 DEF t

\* What is written of a length is read as that length.
LEMMA NumberOfDigits ==
    ASSUME NEW n \in Nat
    PROVE  Box!Number(Box!Digits[n]) = n /\ Box!Digits[n] \in Seq(Box!Digit) /\ Box!Digits[n] # <<>>
  <1>1. \A k \in Nat : Lowest(k) \in Box!Digit /\ Box!Value[Lowest(k)] = k % 2
    BY DEF Lowest, Box!Digit, Box!Value
  <1>2. Box!Number(<<>>) = 0
    <2>1. PICK v : Values(<<>>, v) /\ Box!Number(<<>>) = v[Len(<<>>)]
      <3>1. <<>> \in Seq(Box!Digit)
        OBVIOUS
      <3> QED
        BY <3>1, NumberDefined
    <2>2. v[0] = 0
      BY <2>1 DEF Values
    <2> QED
      BY <2>1, <2>2
  <1>3. \A k \in Nat : Box!Number(Box!Digits[k]) = k
    <2> DEFINE D == {k \in Nat : Box!Number(Box!Digits[k]) # k}
    <2> SUFFICES ASSUME D # {} PROVE FALSE
      OBVIOUS
    <2>1. PICK k \in D : \A x \in D : k =< x
      <3>1. D \in SUBSET Nat
        OBVIOUS
      <3> HIDE DEF D
      <3> QED
        BY <3>1, LeastNumber
    <2>2. k \in Nat /\ Box!Number(Box!Digits[k]) # k
      BY <2>1
    <2>3. Box!Digits[k] = IF k < 2 THEN <<Lowest(k)>> ELSE Append(Box!Digits[k \div 2], Lowest(k))
      BY <2>2, DigitsDefined
    <2>4. CASE k < 2
      <3>1. Box!Digits[k] = Append(<<>>, Lowest(k)) /\ <<>> \in Seq(Box!Digit)
        BY <1>1, <2>2, <2>3, <2>4
      <3>2. Box!Number(Append(<<>>, Lowest(k))) = 2 * Box!Number(<<>>) + Box!Value[Lowest(k)]
        BY <1>1, <2>2, <3>1, NumberAppended
      <3>3. k % 2 = k
        BY <2>2, <2>4
      <3> QED
        BY <1>1, <1>2, <2>2, <3>1, <3>2, <3>3
    <2>5. CASE ~(k < 2)
      <3>1. k \div 2 \in Nat /\ k \div 2 < k /\ 2 * (k \div 2) + (k % 2) = k
        BY <2>2, <2>5
      <3>2. Box!Digits[k \div 2] \in Seq(Box!Digit)
        BY <3>1, DigitsDefined
      <3>3. Box!Number(Box!Digits[k \div 2]) = k \div 2
        <4>1. k \div 2 \notin D
          <5> HIDE DEF D
          <5> QED
            BY <2>1, <2>2, <3>1
        <4> QED
          BY <3>1, <4>1
      <3>4. Box!Number(Append(Box!Digits[k \div 2], Lowest(k))) =
              2 * Box!Number(Box!Digits[k \div 2]) + Box!Value[Lowest(k)]
        BY <1>1, <2>2, <3>2, NumberAppended
      <3> QED
        BY <1>1, <2>2, <2>3, <2>5, <3>1, <3>3, <3>4
    <2> QED
      BY <2>4, <2>5
  <1>4. Box!Digits[n] # <<>>
    <2>1. CASE n < 2
      <3>1. Box!Digits[n] = <<Lowest(n)>> /\ Len(<<Lowest(n)>>) = 1 /\ Len(<<>>) = 0
        BY <2>1, DigitsDefined
      <3> QED
        BY <3>1
    <2>2. CASE ~(n < 2)
      <3>1. n \div 2 \in Nat
        BY <2>2
      <3>2. Box!Digits[n \div 2] \in Seq(Box!Digit)
        BY <3>1, DigitsDefined
      <3>3. Box!Digits[n] = Append(Box!Digits[n \div 2], Lowest(n))
        BY <2>2, DigitsDefined
      <3>4. Len(Box!Digits[n]) = Len(Box!Digits[n \div 2]) + 1 /\ Len(Box!Digits[n \div 2]) \in Nat
        BY <1>1, <3>2, <3>3
      <3>5. Len(Box!Digits[n]) # 0 /\ Len(<<>>) = 0
        BY <3>4
      <3> QED
        BY <3>5
    <2> QED
      BY <2>1, <2>2
  <1> QED
    BY <1>3, <1>4, DigitsDefined
-----------------------------------------------------------------------------
(* What a message is sent with, and what the reader has of it.             *)

\* The characters, those of the framing among them.
Characters == STRING \cup Box!Digit \cup {":", ",", "r", "n"}

\* The part of a message after one place and up to another.
Extract(x, message, a, b) ==
    /\ x \in Seq(Characters) /\ Len(x) = b - a
    /\ \A j \in 1..(b - a) : x[j] = message[a + j]

\* How many digits the length of a text has.
Places(text) == Len(Box!Digits[Len(text)])

\* A message is digits, a colon, the text and a comma, at these places.
LEMMA EncodedShape ==
    ASSUME NEW text \in Seq(Characters)
    PROVE  LET message == Box!Encoded(text)
           IN  /\ Places(text) \in Nat \ {0} /\ Len(text) \in Nat
               /\ message \in Seq(Characters) /\ Len(message) = Places(text) + Len(text) + 2
               /\ \A j \in 1..Places(text) :
                    message[j] = Box!Digits[Len(text)][j] /\ message[j] \in Box!Digit
               /\ message[Places(text) + 1] = ":"
               /\ \A j \in 1..Len(text) : message[Places(text) + 1 + j] = text[j]
               /\ message[Len(message)] = ","
  <1> DEFINE d == Box!Digits[Len(text)]
             m == Len(d)
             x == d \o <<":">>
             y == x \o text
             z == y \o <<",">>
  <1>0. Len(text) \in Nat
    OBVIOUS
  <1>1. d \in Seq(Box!Digit) /\ d # <<>>
    BY <1>0, NumberOfDigits
  <1> HIDE DEF d
  <1>2. d \in Seq(Characters) /\ m \in Nat /\ m # 0 /\ \A j \in 1..m : d[j] \in Box!Digit
    <2>1. m \in Nat /\ DOMAIN d = 1..m /\ \A j \in 1..m : d[j] \in Box!Digit
      BY <1>1
    <2>2. m # 0
      BY <1>1
    <2>3. d \in Seq(Characters)
      BY <1>1, Widened DEF Characters
    <2> QED
      BY <2>1, <2>2, <2>3
  <1>3. ":" \in Characters /\ "," \in Characters
    BY DEF Characters
  <1> HIDE DEF m
  <1>5. /\ x \in Seq(Characters) /\ Len(x) = m + 1 /\ x[m + 1] = ":"
        /\ \A j \in 1..m : x[j] = d[j]
    BY <1>2, <1>3, ElementAfter, ZenonT(40) DEF m
  <1> HIDE DEF x
  <1>6. /\ y \in Seq(Characters) /\ Len(y) = m + 1 + Len(text)
        /\ \A j \in 1..(m + 1) : y[j] = x[j]
        /\ \A j \in 1..Len(text) : y[m + 1 + j] = text[j]
    BY <1>0, <1>2, <1>5, SMTT(30)
  <1> HIDE DEF y
  <1>7. /\ z \in Seq(Characters) /\ Len(z) = m + Len(text) + 2
        /\ \A j \in 1..(m + 1 + Len(text)) : z[j] = y[j]
        /\ z[m + Len(text) + 2] = ","
    <2> HIDE DEF z
    <2>0. y \in Seq(Characters) /\ "," \in Characters
      BY <1>3, <1>6
    <2>1. /\ y \o <<",">> \in Seq(Characters) /\ Len(y \o <<",">>) = Len(y) + 1
          /\ (y \o <<",">>)[Len(y) + 1] = ","
          /\ \A j \in 1..Len(y) : (y \o <<",">>)[j] = y[j]
      <3>1. y \o <<",">> \in Seq(Characters)
        BY <2>0, ElementAfter
      <3>2. Len(y \o <<",">>) = Len(y) + 1
        BY <2>0, ElementAfter
      <3>3. (y \o <<",">>)[Len(y) + 1] = ","
        BY <2>0, ElementAfter
      <3>4. ASSUME NEW j \in 1..Len(y) PROVE (y \o <<",">>)[j] = y[j]
        <4>1. <<",">> \in Seq(Characters)
          BY <2>0, OneElement
        <4> QED
          BY <2>0, <4>1, Joined
      <3> QED
        BY <3>1, <3>2, <3>3, <3>4
    <2>2. z = y \o <<",">>
      BY DEF z
    <2>3. Len(y) + 1 = m + Len(text) + 2
      BY <1>0, <1>2, <1>6
    <2>4. Len(y) = m + 1 + Len(text)
      BY <1>6
    <2> QED
      BY <2>1, <2>2, <2>3, <2>4
  <1> HIDE DEF z
  <1>8. z = Box!Encoded(text)
    BY DEF z, y, x, d, Box!Encoded
  <1>9. m = Places(text)
    BY DEF m, d, Places
  <1>10. ASSUME NEW j \in 1..m PROVE z[j] = d[j] /\ z[j] \in Box!Digit
    <2>1. j \in 1..(m + 1 + Len(text)) /\ j \in 1..(m + 1)
      BY <1>0, <1>2
    <2> QED
      BY <1>2, <1>5, <1>6, <1>7, <2>1
  <1>11. z[m + 1] = ":"
    <2>1. m + 1 \in 1..(m + 1 + Len(text)) /\ m + 1 \in 1..(m + 1)
      BY <1>0, <1>2
    <2> QED
      BY <1>5, <1>6, <1>7, <2>1
  <1>12. ASSUME NEW j \in 1..Len(text) PROVE z[m + 1 + j] = text[j]
    <2>1. m + 1 + j \in 1..(m + 1 + Len(text))
      BY <1>0, <1>2
    <2> QED
      BY <1>6, <1>7, <2>1
  <1> QED
    BY <1>0, <1>2, <1>7, <1>8, <1>9, <1>10, <1>11, <1>12, Zenon DEF d

\* Two pieces that meet are one.
LEMMA ExtractsJoin ==
    ASSUME NEW message, NEW a \in Nat, NEW b \in Nat, NEW d \in Nat, a =< b, b =< d,
           NEW x, NEW y, Extract(x, message, a, b), Extract(y, message, b, d)
    PROVE  Extract(x \o y, message, a, d)
  <1>1. x \in Seq(Characters) /\ Len(x) = b - a /\ y \in Seq(Characters) /\ Len(y) = d - b
    BY DEF Extract
  <1> DEFINE z == x \o y
  <1>2. /\ z \in Seq(Characters) /\ Len(z) = d - a
        /\ \A j \in 1..(b - a) : z[j] = x[j]
        /\ \A j \in 1..(d - b) : z[j + (b - a)] = y[j]
    <2>1. z \in Seq(Characters) /\ Len(z) = Len(x) + Len(y)
      BY <1>1, Joined, Zenon
    <2>2. /\ \A j \in 1..Len(x) : z[j] = x[j]
          /\ \A j \in 1..Len(y) : z[j + Len(x)] = y[j]
      BY <1>1, Joined, SMTT(30)
    <2> HIDE DEF z
    <2> QED
      BY <1>1, <2>1, <2>2
  <1> HIDE DEF z
  <1>3. ASSUME NEW j \in 1..(d - a) PROVE z[j] = message[a + j]
    <2>1. CASE j =< b - a
      <3>1. j \in 1..(b - a)
        BY <2>1
      <3> QED
        BY <1>2, <3>1 DEF Extract
    <2>2. CASE ~(j =< b - a)
      <3> DEFINE i == j - (b - a)
      <3>1. i \in 1..(d - b) /\ i + (b - a) = j /\ b + i = a + j
        BY <2>2
      <3> HIDE DEF i
      <3>2. z[i + (b - a)] = y[i] /\ y[i] = message[b + i]
        BY <1>2, <3>1 DEF Extract
      <3> QED
        BY <3>1, <3>2
    <2> QED
      BY <2>1, <2>2
  <1>4. Extract(z, message, a, d)
    BY <1>2, <1>3 DEF Extract
  <1> QED
    BY <1>4 DEF z

\* A place counted from another is within all, if the last one so counted is.
LEMMA PlaceWithin ==
    ASSUME NEW a \in Int, NEW w \in Nat, NEW j \in 1..w, a + j >= 1,
           NEW b, b = a + w, NEW l \in Nat, b =< l
    PROVE  a + j \in 1..l
  OBVIOUS

\* How many characters a message is sent with.
Width(text) == Len(Box!Encoded(text))

\* Where the messages that were sent end in what is still to be read, counted from its
\* first character: those after the r-th are all there, but for the k characters of the
\* next that were read.
Held(s, stream, length, r, k, ends) ==
    /\ s \in Seq(Texts) /\ r \in 0..Len(s) /\ k \in Nat /\ length \in Nat
    /\ ends \in [Nat -> Int] /\ ends[r] + k = 0 /\ ends[Len(s)] = length
    /\ \A i \in (r + 1)..Len(s) :
         /\ ends[i] = ends[i - 1] + Width(s[i]) /\ ends[i] =< length
         /\ \A j \in 1..Width(s[i]) :
              ends[i - 1] + j >= 1 => stream[ends[i - 1] + j] = Box!Encoded(s[i])[j]

\* A text is a sequence of characters.
LEMMA TextsOfCharacters ==
    ASSUME NEW text \in Texts
    PROVE  text \in Seq(Characters)
  <1>1. text \in Seq(STRING)
    BY PartsAssumption
  <1> QED
    BY <1>1, Widened DEF Characters

\* A message is longer than its text by its digits and two characters.
LEMMA Widths ==
    ASSUME NEW text \in Texts
    PROVE  Places(text) \in Nat \ {0} /\ Len(text) \in Nat
           /\ Width(text) = Places(text) + Len(text) + 2 /\ Width(text) \in Nat
  <1>1. text \in Seq(Characters)
    BY TextsOfCharacters
  <1>2. /\ Places(text) \in Nat \ {0} /\ Len(text) \in Nat
        /\ Len(Box!Encoded(text)) = Places(text) + Len(text) + 2
    BY <1>1, EncodedShape
  <1> QED
    BY <1>2 DEF Width

\* What was read is counted from, whatever it was a part of.
LEMMA HeldConsumed ==
    ASSUME NEW s, NEW stream, NEW length, NEW r, NEW k, NEW ends,
           Held(s, stream, length, r, k, ends),
           NEW n \in Nat, n =< length,
           NEW rest, \A j \in 1..(length - n) : rest[j] = stream[j + n]
    PROVE  \E e : Held(s, rest, length - n, r, k + n, e)
  <1>1. /\ s \in Seq(Texts) /\ r \in 0..Len(s) /\ k \in Nat /\ length \in Nat
        /\ ends \in [Nat -> Int] /\ ends[r] + k = 0 /\ ends[Len(s)] = length /\ Len(s) \in Nat
    BY DEF Held
  <1> DEFINE e == [i \in Nat |-> ends[i] - n]
  <1>2. e \in [Nat -> Int] /\ \A i \in Nat : e[i] = ends[i] - n
    BY <1>1
  <1> HIDE DEF e
  <1>3. ASSUME NEW i \in (r + 1)..Len(s)
        PROVE  /\ e[i] = e[i - 1] + Width(s[i]) /\ e[i] =< length - n
               /\ \A j \in 1..Width(s[i]) :
                    e[i - 1] + j >= 1 => rest[e[i - 1] + j] = Box!Encoded(s[i])[j]
    <2>1. /\ i \in Nat /\ i - 1 \in Nat /\ ends[i] \in Int /\ ends[i - 1] \in Int
          /\ e[i] = ends[i] - n /\ e[i - 1] = ends[i - 1] - n
      <3>1. i \in Nat /\ i - 1 \in Nat
        BY <1>1
      <3>2. ends[i] \in Int /\ ends[i - 1] \in Int
        BY <1>1, <3>1
      <3> QED
        BY <1>2, <3>1, <3>2
    <2>2. /\ ends[i] = ends[i - 1] + Width(s[i]) /\ ends[i] =< length
          /\ \A j \in 1..Width(s[i]) :
               ends[i - 1] + j >= 1 => stream[ends[i - 1] + j] = Box!Encoded(s[i])[j]
      BY DEF Held
    <2>3. Width(s[i]) \in Nat
      <3>1. s[i] \in Texts
        BY <1>1
      <3> QED
        BY <3>1, Widths
    <2>4. ASSUME NEW j \in 1..Width(s[i]), e[i - 1] + j >= 1
          PROVE  rest[e[i - 1] + j] = Box!Encoded(s[i])[j]
      <3>1. /\ (ends[i - 1] - n) + j \in 1..(length - n)
            /\ ((ends[i - 1] - n) + j) + n = ends[i - 1] + j /\ ends[i - 1] + j >= 1
        <4> DEFINE a == ends[i]  b == ends[i - 1]  w == Width(s[i])
        <4>1. a \in Int /\ b \in Int /\ w \in Nat /\ a = b + w /\ a =< length
          BY <2>1, <2>2, <2>3
        <4>2. length \in Nat /\ j \in 1..w /\ (b - n) + j >= 1
          BY <1>1, <2>1, <2>4
        <4> HIDE DEF a, b, w
        <4>3. (b - n) + j \in 1..(length - n)
          BY <4>1, <4>2
        <4>4. ((b - n) + j) + n = b + j /\ b + j >= 1
          BY <4>1, <4>2
        <4> QED
          BY <4>3, <4>4 DEF b
      <3>2. rest[(ends[i - 1] - n) + j] = stream[((ends[i - 1] - n) + j) + n]
        BY <3>1
      <3> QED
        BY <2>1, <2>2, <3>1, <3>2
    <2>5. e[i] = e[i - 1] + Width(s[i]) /\ e[i] =< length - n
      <3> DEFINE a == ends[i]  b == ends[i - 1]  w == Width(s[i])
      <3>1. a \in Int /\ b \in Int /\ w \in Nat /\ a = b + w /\ a =< length
        BY <2>1, <2>2, <2>3
      <3>0. length \in Nat
        BY <1>1
      <3> HIDE DEF a, b, w
      <3>2. a - n = (b - n) + w /\ a - n =< length - n
        BY <3>0, <3>1
      <3> QED
        BY <2>1, <3>2 DEF a, b, w
    <2> QED
      BY <2>4, <2>5
  <1>4. e[r] + (k + n) = 0 /\ e[Len(s)] = length - n /\ length - n \in Nat /\ k + n \in Nat
    <2>1. r \in Nat
      BY <1>1
    <2>2. e[r] = ends[r] - n /\ e[Len(s)] = length - n /\ ends[r] \in Int
      BY <1>1, <1>2, <2>1
    <2>3. (ends[r] - n) + (k + n) = 0
      BY <1>1, <2>2
    <2>4. length - n \in Nat /\ k + n \in Nat
      BY <1>1
    <2> QED
      BY <2>2, <2>3, <2>4
  <1>5. Held(s, rest, length - n, r, k + n, e)
    BY <1>1, <1>2, <1>3, <1>4 DEF Held
  <1> QED
    BY <1>5

\* At the end of a message the next one begins.
LEMMA HeldFinished ==
    ASSUME NEW s, NEW stream, NEW length, NEW r, NEW k, NEW ends,
           Held(s, stream, length, r, k, ends),
           r < Len(s), k = Width(s[r + 1])
    PROVE  Held(s, stream, length, r + 1, 0, ends)
  <1>1. /\ s \in Seq(Texts) /\ r \in 0..Len(s) /\ k \in Nat /\ length \in Nat
        /\ ends \in [Nat -> Int] /\ ends[r] + k = 0 /\ ends[Len(s)] = length /\ Len(s) \in Nat
    BY DEF Held
  <1>2. ends[r + 1] = 0
    <2>1. r + 1 \in (r + 1)..Len(s) /\ (r + 1) - 1 = r
      BY <1>1
    <2>2. ends[r + 1] = ends[(r + 1) - 1] + Width(s[r + 1])
      BY <2>1 DEF Held
    <2> QED
      BY <1>1, <2>1, <2>2
  <1>3. \A i \in ((r + 1) + 1)..Len(s) : i \in (r + 1)..Len(s)
    BY <1>1
  <1>4. r + 1 \in 0..Len(s) /\ 0 \in Nat /\ ends[r + 1] + 0 = 0
    BY <1>1, <1>2
  <1> QED
    BY <1>1, <1>3, <1>4 DEF Held

\* A message that is sent comes after what is there.
LEMMA HeldAdded ==
    ASSUME NEW s, NEW stream, NEW length, NEW r, NEW k, NEW ends,
           Held(s, stream, length, r, k, ends),
           NEW text \in Texts, NEW more,
           \A j \in 1..length : more[j] = stream[j],
           \A j \in 1..Width(text) : more[length + j] = Box!Encoded(text)[j]
    PROVE  \E e : Held(Append(s, text), more, length + Width(text), r, k, e)
  <1>1. /\ s \in Seq(Texts) /\ r \in 0..Len(s) /\ k \in Nat /\ length \in Nat
        /\ ends \in [Nat -> Int] /\ ends[r] + k = 0 /\ ends[Len(s)] = length /\ Len(s) \in Nat
    BY DEF Held
  <1>0. Width(text) \in Nat
    BY Widths
  <1> DEFINE t == Append(s, text)
             m == length + Width(text)
             e == [ends EXCEPT ![Len(s) + 1] = m]
  <1>2. /\ t \in Seq(Texts) /\ Len(t) = Len(s) + 1 /\ t[Len(s) + 1] = text
        /\ \A i \in 1..Len(s) : t[i] = s[i]
    BY <1>1
  <1>3. m \in Nat
    BY <1>0, <1>1
  <1>4. /\ e \in [Nat -> Int] /\ e[Len(s) + 1] = m
        /\ \A i \in 0..Len(s) : e[i] = ends[i]
    <2> HIDE DEF m
    <2> QED
      BY <1>1, <1>3
  <1> HIDE DEF t, e
  <1>5. ASSUME NEW i \in (r + 1)..Len(t)
        PROVE  /\ e[i] = e[i - 1] + Width(t[i]) /\ e[i] =< m
               /\ \A j \in 1..Width(t[i]) :
                    e[i - 1] + j >= 1 => more[e[i - 1] + j] = Box!Encoded(t[i])[j]
    <2>1. CASE i = Len(s) + 1
      <3>1. i - 1 = Len(s) /\ i - 1 \in 0..Len(s)
        BY <1>1, <2>1
      <3>2. e[i] = m /\ e[i - 1] = length /\ t[i] = text
        BY <1>1, <1>2, <1>4, <2>1, <3>1
      <3>3. m = length + Width(text) /\ m =< m
        BY <1>3
      <3> QED
        BY <3>2, <3>3
    <2>2. CASE i # Len(s) + 1
      <3>1. i \in (r + 1)..Len(s) /\ i - 1 \in 0..Len(s) /\ i \in 0..Len(s) /\ i \in 1..Len(s)
        BY <1>1, <1>2, <2>2, SMTT(30)
      <3>2. e[i] = ends[i] /\ e[i - 1] = ends[i - 1] /\ t[i] = s[i]
        BY <1>2, <1>4, <3>1
      <3>3. /\ ends[i] = ends[i - 1] + Width(s[i]) /\ ends[i] =< length
            /\ \A j \in 1..Width(s[i]) :
                 ends[i - 1] + j >= 1 => stream[ends[i - 1] + j] = Box!Encoded(s[i])[j]
        BY <3>1 DEF Held
      <3>4. ends[i] \in Int /\ ends[i - 1] \in Int /\ Width(s[i]) \in Nat
        <4>1. s[i] \in Texts
          BY <1>1, <3>1, SMTT(30)
        <4>2. i \in Nat /\ i - 1 \in Nat
          BY <1>1, <3>1
        <4>3. ends[i] \in Int /\ ends[i - 1] \in Int
          BY <1>1, <4>2
        <4> QED
          BY <4>1, <4>3, Widths
      <3>5. ASSUME NEW j \in 1..Width(s[i]), ends[i - 1] + j >= 1
            PROVE  more[ends[i - 1] + j] = Box!Encoded(s[i])[j]
        <4>1. ends[i - 1] + j \in 1..length
          BY <1>1, <3>3, <3>4, <3>5, PlaceWithin, Zenon
        <4> QED
          BY <3>3, <3>5, <4>1
      <3>6. ends[i] =< m
        BY <1>0, <1>1, <3>3, <3>4, SMTT(30)
      <3> QED
        BY <3>2, <3>3, <3>5, <3>6
    <2> QED
      BY <2>1, <2>2
  <1>6. r \in 0..Len(t) /\ e[r] + k = 0 /\ e[Len(t)] = m
    BY <1>1, <1>2, <1>4, SMTT(30)
  <1>7. Held(t, more, m, r, k, e)
    <2> HIDE DEF m
    <2> QED
      BY <1>1, <1>2, <1>3, <1>4, <1>5, <1>6 DEF Held
  <1> QED
    BY <1>7 DEF t

\* The colon is no digit.
LEMMA NotDigits == \A d \in Box!Digit : d # ":"
  BY DEF Box!Digit

\* What the reader does next, when it has read the beginning of a message.
LEMMA BeginOfMessage ==
    ASSUME NEW text \in Texts, NEW k \in 0..Width(text),
           NEW x, Extract(x, Box!Encoded(text), 0, k), Box!begin(x)
    PROVE  /\ k = 0 => m_place' = "none"
           /\ k \in 1..Places(text) => m_place' = "digits"
           /\ k > Places(text) =>
                /\ m_place' = "body" /\ remaining' = Width(text) - k
                /\ Extract(pickled', Box!Encoded(text), Places(text) + 1, k)
  <1> DEFINE p == Places(text)
             E == Box!Encoded(text)
             colon == {i \in DOMAIN x : x[i] = ":" /\ \A j \in 1..(i - 1) : x[j] # ":"}
  <1>1. /\ p \in Nat \ {0} /\ Len(text) \in Nat /\ k \in Nat
        /\ Width(text) = p + Len(text) + 2 /\ k =< p + Len(text) + 2
    <2>1. p \in Nat \ {0} /\ Len(text) \in Nat /\ Width(text) = p + Len(text) + 2
      BY Widths
    <2> HIDE DEF p
    <2> QED
      BY <2>1
  <1>2. /\ \A j \in 1..p : E[j] = Box!Digits[Len(text)][j] /\ E[j] \in Box!Digit
        /\ E[p + 1] = ":"
    BY TextsOfCharacters, EncodedShape
  <1>3. /\ x \in Seq(Characters) /\ Len(x) = k /\ DOMAIN x = 1..k
        /\ \A j \in 1..k : x[j] = E[j]
    <2>1. x \in Seq(Characters) /\ Len(x) = k - 0 /\ \A j \in 1..(k - 0) : x[j] = E[0 + j]
      BY DEF Extract
    <2>2. k - 0 = k /\ \A j \in 1..k : 0 + j = j
      BY <1>1
    <2>3. x \in Seq(Characters) /\ Len(x) = k
      BY <2>1, <2>2
    <2>4. DOMAIN x = 1..k
      BY <2>3
    <2> HIDE DEF E
    <2> QED
      BY <2>1, <2>2, <2>3, <2>4
  <1> HIDE DEF p, E
  <1>4. CASE k = 0
    <2>1. x = <<>>
      BY <1>3, <1>4
    <2>2. ~Box!IsDigits(x) /\ colon = {}
      BY <1>3, <1>4, <2>1 DEF Box!IsDigits
    <2>3. m_place' = "none"
      BY <2>2, Zenon DEF Box!begin
    <2> QED
      BY <1>1, <1>4, <2>3 DEF p
  <1>5. CASE k \in 1..p
    <2>1. Box!IsDigits(x)
      <3>1. x # <<>>
        BY <1>3, <1>5
      <3>2. \A i \in 1..k : i \in 1..p
        BY <1>1, <1>5
      <3> QED
        BY <1>2, <1>3, <3>1, <3>2 DEF Box!IsDigits
    <2>2. m_place' = "digits"
      BY <2>1, Zenon DEF Box!begin
    <2> QED
      BY <1>1, <1>5, <2>2 DEF p
  <1>6. CASE k > p
    <2>1. p + 1 \in 1..k /\ \A j \in 1..p : j \in 1..k
      BY <1>1, <1>6
    <2>2. x[p + 1] = ":"
      BY <1>2, <1>3, <2>1
    <2>3. \A j \in 1..p : x[j] # ":"
      BY <1>2, <1>3, <2>1, NotDigits
    <2>4. ~Box!IsDigits(x)
      BY <1>3, <2>1, <2>2, NotDigits DEF Box!IsDigits
    <2>5. p + 1 \in colon
      <3>1. (p + 1) - 1 = p
        BY <1>1
      <3> QED
        BY <1>3, <2>1, <2>2, <2>3, <3>1
    <2>6. ASSUME NEW i \in colon PROVE i = p + 1
      <3>1. i \in 1..k /\ x[i] = ":" /\ \A j \in 1..(i - 1) : x[j] # ":"
        BY <1>3
      <3>2. ~(i =< p)
        <4>1. i =< p => i \in 1..p
          BY <1>1, <3>1
        <4> QED
          BY <2>3, <3>1, <4>1
      <3>3. ~(p + 1 < i)
        <4>1. p + 1 < i => p + 1 \in 1..(i - 1)
          BY <1>1, <3>1
        <4> QED
          BY <2>2, <3>1, <4>1
      <3> QED
        BY <1>1, <3>1, <3>2, <3>3
    <2>7. SubSeq(x, 1, (p + 1) - 1) = Box!Digits[Len(text)]
      <3> DEFINE u == SubSeq(x, 1, (p + 1) - 1)
                 d == Box!Digits[Len(text)]
      <3>1. (p + 1) - 1 = p /\ p \in 0..Len(x)
        BY <1>1, <1>3, <1>6
      <3>2. u \in Seq(Characters) /\ Len(u) = p /\ \A j \in 1..p : u[j] = x[j]
        BY <1>3, <3>1, Beginning
      <3>3. d \in Seq(Box!Digit) /\ Len(d) = p
        BY <1>1, NumberOfDigits DEF p, Places
      <3>4. \A j \in 1..p : x[j] = d[j]
        BY <1>2, <1>3, <2>1
      <3> HIDE DEF u, d
      <3>5. u = d
        BY <3>2, <3>3, <3>4, SameSequences
      <3> QED
        BY <3>5, Zenon DEF u, d
    <2>8. Box!IsDigits(Box!Digits[Len(text)]) /\ Box!Number(Box!Digits[Len(text)]) = Len(text)
      <3> DEFINE d == Box!Digits[Len(text)]
      <3>1. d \in Seq(Box!Digit) /\ d # <<>> /\ Box!Number(d) = Len(text)
        BY <1>1, NumberOfDigits
      <3> HIDE DEF d
      <3>2. Box!IsDigits(d)
        BY <3>1 DEF Box!IsDigits
      <3> QED
        BY <3>1, <3>2 DEF d
    <2>9. \E i \in colon :
            /\ pickled' = SubSeq(x, i + 1, Len(x))
            /\ remaining' = Box!Number(SubSeq(x, 1, i - 1)) + 1 - (Len(x) - i)
            /\ m_place' = "body"
      <3>1. \E i \in colon : Box!IsDigits(SubSeq(x, 1, i - 1))
        BY <2>5, <2>7, <2>8
      <3> QED
        BY <2>4, <3>1, Zenon DEF Box!begin
    <2>10. /\ pickled' = SubSeq(x, (p + 1) + 1, Len(x))
           /\ remaining' = Box!Number(SubSeq(x, 1, (p + 1) - 1)) + 1 - (Len(x) - (p + 1))
           /\ m_place' = "body"
      <3> HIDE DEF colon
      <3> QED
        BY <2>6, <2>9, Zenon
    <2>11. remaining' = Width(text) - k
      <3>1. remaining' = Len(text) + 1 - (k - (p + 1))
        BY <1>3, <2>7, <2>8, <2>10, Zenon
      <3> QED
        BY <1>1, <3>1
    <2>12. Extract(pickled', E, p + 1, k)
      <3> DEFINE u == SubSeq(x, (p + 1) + 1, Len(x))
      <3>1. p + 1 \in 0..Len(x)
        BY <1>1, <1>3, <1>6
      <3>2. /\ u \in Seq(Characters) /\ Len(u) = Len(x) - (p + 1)
            /\ \A j \in 1..(Len(x) - (p + 1)) : u[j] = x[j + (p + 1)]
        BY <1>3, <3>1, Ending
      <3> HIDE DEF u
      <3>3. ASSUME NEW j \in 1..(k - (p + 1)) PROVE u[j] = E[(p + 1) + j]
        <4>1. j + (p + 1) \in 1..k /\ j + (p + 1) = (p + 1) + j
          BY <1>1, <1>6
        <4> QED
          BY <1>3, <3>2, <4>1
      <3>4. Extract(u, E, p + 1, k)
        BY <1>3, <3>2, <3>3 DEF Extract
      <3> QED
        BY <2>10, <3>4 DEF u
    <2> QED
      BY <1>1, <1>6, <2>10, <2>11, <2>12 DEF p, E
  <1> QED
    BY <1>1, <1>4, <1>5, <1>6

\* What is read in a message that is not at its end is the next part of it.
LEMMA NextPart ==
    ASSUME NEW s, NEW stream, NEW length, NEW r, NEW k, NEW ends,
           Held(s, stream, length, r, k, ends),
           r < Len(s), NEW n \in Nat, k + n =< Width(s[r + 1]),
           NEW data \in Seq(Characters), Len(data) = n, \A j \in 1..n : data[j] = stream[j]
    PROVE  Extract(data, Box!Encoded(s[r + 1]), k, k + n)
  <1>1. /\ s \in Seq(Texts) /\ r \in 0..Len(s) /\ k \in Nat /\ length \in Nat
        /\ ends \in [Nat -> Int] /\ ends[r] + k = 0 /\ Len(s) \in Nat
    BY SMTT(30) DEF Held
  <1>2. r + 1 \in (r + 1)..Len(s) /\ (r + 1) - 1 = r /\ r \in Nat
    <2> DEFINE z == Len(s)
    <2>1. z \in Nat /\ r \in 0..z /\ r < z
      BY <1>1
    <2> HIDE DEF z
    <2>2. r + 1 \in (r + 1)..z
      BY <2>1
    <2>3. (r + 1) - 1 = r /\ r \in Nat
      BY <2>1
    <2> QED
      BY <2>2, <2>3 DEF z
  <1>3. \A j \in 1..Width(s[r + 1]) :
          ends[r] + j >= 1 => stream[ends[r] + j] = Box!Encoded(s[r + 1])[j]
    <2>1. \A i \in (r + 1)..Len(s) : \A j \in 1..Width(s[i]) :
            ends[i - 1] + j >= 1 => stream[ends[i - 1] + j] = Box!Encoded(s[i])[j]
      BY Zenon DEF Held
    <2>2. \A j \in 1..Width(s[r + 1]) :
            ends[(r + 1) - 1] + j >= 1
              => stream[ends[(r + 1) - 1] + j] = Box!Encoded(s[r + 1])[j]
      BY <1>2, <2>1, Zenon
    <2> QED
      BY <1>2, <2>2, Zenon
  <1>4. Width(s[r + 1]) \in Nat
    <2>1. s[r + 1] \in Texts
      BY <1>1, <1>2, SMTT(30)
    <2> QED
      BY <2>1, Widths
  <1>5. ASSUME NEW j \in 1..n PROVE data[j] = Box!Encoded(s[r + 1])[k + j]
    <2> DEFINE w == Width(s[r + 1])
               e == ends[r]
    <2>1. e \in Int /\ w \in Nat /\ k + n =< w /\ e + k = 0 /\ k \in Nat /\ j \in 1..n
      BY <1>1, <1>2, <1>4
    <2> HIDE DEF w, e
    <2>2. k + j \in 1..w /\ e + (k + j) = j /\ j >= 1
      <3>1. k + j \in 1..w
        BY <2>1
      <3>2. e + (k + j) = j /\ j >= 1
        BY <2>1
      <3> QED
        BY <3>1, <3>2
    <2>3. stream[j] = Box!Encoded(s[r + 1])[k + j]
      BY <1>3, <2>2, Zenon DEF w, e
    <2> QED
      BY <2>3
  <1>6. (k + n) - k = n
    BY <1>1
  <1> QED
    BY <1>5, <1>6 DEF Extract

\* There is nothing to read when all messages were read.
LEMMA NothingHeld ==
    ASSUME NEW s, NEW stream, NEW length, NEW r, NEW k, NEW ends,
           Held(s, stream, length, r, k, ends), r = Len(s)
    PROVE  length = 0 /\ k = 0
  BY DEF Held

\* A message that was read to its end is the text that was sent and a comma.
LEMMA TextOfMessage ==
    ASSUME NEW text \in Texts, NEW x,
           Extract(x, Box!Encoded(text), Places(text) + 1, Width(text))
    PROVE  x # <<>> /\ Box!Last(x) = "," /\ Box!Front(x) = text
  <1> DEFINE p == Places(text)
             E == Box!Encoded(text)
  <1>0. text \in Seq(Characters)
    BY TextsOfCharacters
  <1>1. /\ p \in Nat \ {0} /\ Len(text) \in Nat /\ Width(text) = p + Len(text) + 2
    BY Widths
  <1>2. /\ Len(E) = p + Len(text) + 2 /\ E[Len(E)] = ","
        /\ \A j \in 1..Len(text) : E[p + 1 + j] = text[j]
    BY <1>0, EncodedShape
  <1>3. /\ x \in Seq(Characters) /\ Len(x) = Width(text) - (p + 1)
        /\ \A j \in 1..(Width(text) - (p + 1)) : x[j] = E[(p + 1) + j]
    BY DEF Extract
  <1> HIDE DEF p, E
  <1>4. Width(text) - (p + 1) = Len(text) + 1
    BY <1>1
  <1>5. /\ x \in Seq(Characters) /\ Len(x) = Len(text) + 1
        /\ \A j \in 1..(Len(text) + 1) : x[j] = E[(p + 1) + j]
    BY <1>3, <1>4
  <1>6. x[Len(text) + 1] = ","
    <2>1. Len(text) + 1 \in 1..(Len(text) + 1) /\ (p + 1) + (Len(text) + 1) = p + Len(text) + 2
      BY <1>1
    <2> QED
      BY <1>2, <1>5, <2>1
  <1>7. \A j \in 1..Len(text) : x[j] = text[j]
    <2>1. \A j \in 1..Len(text) : j \in 1..(Len(text) + 1) /\ (p + 1) + j = p + 1 + j
      BY <1>1
    <2> QED
      BY <1>2, <1>5, <2>1
  <1>8. SubSeq(x, 1, Len(x) - 1) = text
    <2> DEFINE u == SubSeq(x, 1, Len(x) - 1)
    <2>1. Len(x) - 1 \in 0..Len(x) /\ Len(x) - 1 = Len(text)
      BY <1>1, <1>5
    <2>2. u \in Seq(Characters) /\ Len(u) = Len(text) /\ \A j \in 1..Len(text) : u[j] = x[j]
      BY <1>5, <2>1, Beginning
    <2> HIDE DEF u
    <2>3. u = text
      BY <1>0, <1>7, <2>2, SameSequences
    <2> QED
      BY <2>3 DEF u
  <1>9. x # <<>>
    BY <1>1, <1>5
  <1> QED
    BY <1>5, <1>6, <1>8, <1>9 DEF Box!Last, Box!Front
-----------------------------------------------------------------------------
(* The writer and the reader.                                              *)

\* What is still to be read: the pipe, and what the writer has not written.
Stream(p, w) == [j \in 1..(Len(p) + Len(w)) |-> IF j =< Len(p) THEN p[j] ELSE w[j - Len(p)]]

\* Where the reader is in the message after the r-th, having read k characters of it.
Reading(place, opened, p, begun, body, left, s, r, k) ==
    /\ place \in {"get", "digits", "body", "none"}
    /\ place \in {"get", "none"} => k = 0
    /\ place = "none" => ~opened /\ p = <<>>
    /\ place = "digits" =>
         /\ r < Len(s) /\ k \in 1..Places(s[r + 1])
         /\ Extract(begun, Box!Encoded(s[r + 1]), 0, k)
    /\ place = "body" =>
         /\ r < Len(s) /\ k \in (Places(s[r + 1]) + 1)..Width(s[r + 1])
         /\ Extract(body, Box!Encoded(s[r + 1]), Places(s[r + 1]) + 1, k)
         /\ left = Width(s[r + 1]) - k

ReceivedSent(got, s) ==
    /\ got \in Seq(Texts) /\ Len(got) =< Len(s) /\ \A i \in 1..Len(got) : got[i] = s[i]

BoxInv ==
    /\ writing \in Seq(Characters) /\ pipe \in Seq(Characters) /\ open \in BOOLEAN
    /\ ReceivedSent(received, sent)
    /\ \E k, ends :
         /\ Held(sent, Stream(pipe, writing), Len(pipe) + Len(writing), Len(received), k, ends)
         /\ Reading(m_place, open, pipe, message_s, pickled, remaining, sent, Len(received), k)

\* The reader begins between messages, as do those that never begin.
LEMMA BoxBegins ==
    ASSUME writing = <<>>, pipe = <<>>, open \in BOOLEAN, sent = <<>>, received = <<>>,
           m_place = "get" \/ (m_place = "none" /\ ~open)
    PROVE  BoxInv
  <1> DEFINE e == [i \in Nat |-> 0]
             st == Stream(pipe, writing)
  <1>1. e \in [Nat -> Int] /\ e[0] = 0
    OBVIOUS
  <1>2. /\ Len(pipe) + Len(writing) = 0 /\ Len(received) = 0 /\ Len(sent) = 0
        /\ sent \in Seq(Texts) /\ received \in Seq(Texts)
        /\ writing \in Seq(Characters) /\ pipe \in Seq(Characters)
    OBVIOUS
  <1> HIDE DEF e, st
  <1>3. Held(sent, st, 0, 0, 0, e)
    BY <1>1, <1>2 DEF Held
  <1>4. Reading(m_place, open, pipe, message_s, pickled, remaining, sent, 0, 0)
    BY DEF Reading
  <1>5. ReceivedSent(received, sent)
    BY <1>2 DEF ReceivedSent
  <1> QED
    BY <1>2, <1>3, <1>4, <1>5 DEF BoxInv, st

\* The steps of the other parts leave the pipe and its ends as they are.
LEMMA BoxStays ==
    ASSUME BoxInv, UNCHANGED <<writing, pipe, open, Box!reader, sent, received>>
    PROVE  BoxInv'
  <1>1. /\ writing' = writing /\ pipe' = pipe /\ open' = open /\ m_place' = m_place
        /\ message_s' = message_s /\ pickled' = pickled /\ remaining' = remaining
        /\ sent' = sent /\ received' = received
    BY DEF Box!reader
  <1> QED
    BY <1>1, Zenon DEF BoxInv

\* The pipe has taken n characters of what was to be written.
Written(p, w, n, q, v) ==
    n \in 1..Len(w) /\ q = p \o SubSeq(w, 1, n) /\ v = SubSeq(w, n + 1, Len(w))

\* What the pipe takes stays where it is among what is still to be read.
LEMMA StreamWritten ==
    ASSUME NEW p \in Seq(Characters), NEW w \in Seq(Characters), NEW n, NEW q, NEW v,
           Written(p, w, n, q, v)
    PROVE  /\ q \in Seq(Characters) /\ v \in Seq(Characters)
           /\ Len(q) + Len(v) = Len(p) + Len(w) /\ Stream(q, v) = Stream(p, w)
  <1> DEFINE u == SubSeq(w, 1, n)
  <1>w. n \in 1..Len(w) /\ q = p \o u /\ v = SubSeq(w, n + 1, Len(w))
    BY DEF Written
  <1>0. n \in 0..Len(w) /\ n \in Nat /\ Len(w) \in Nat /\ Len(p) \in Nat
    BY <1>w
  <1>1. u \in Seq(Characters) /\ Len(u) = n /\ \A j \in 1..n : u[j] = w[j]
    BY <1>0, Beginning
  <1>2. /\ v \in Seq(Characters) /\ Len(v) = Len(w) - n
        /\ \A j \in 1..(Len(w) - n) : v[j] = w[j + n]
    BY <1>0, <1>w, Ending
  <1> HIDE DEF u
  <1>3. /\ q \in Seq(Characters) /\ Len(q) = Len(p) + n
        /\ \A j \in 1..Len(p) : q[j] = p[j]
        /\ \A j \in 1..n : q[j + Len(p)] = u[j]
    <2>1. q = p \o u
      BY <1>w
    <2>2. /\ q \in Seq(Characters) /\ Len(q) = Len(p) + Len(u)
          /\ \A j \in 1..Len(p) : q[j] = p[j]
          /\ \A j \in 1..Len(u) : q[j + Len(p)] = u[j]
      <3>1. q \in Seq(Characters) /\ Len(q) = Len(p) + Len(u)
        BY <1>1, <2>1, Joined, Zenon
      <3>2. /\ \A j \in 1..Len(p) : q[j] = p[j]
            /\ \A j \in 1..Len(u) : q[j + Len(p)] = u[j]
        BY <1>1, <2>1, Joined
      <3> QED
        BY <3>1, <3>2
    <2> QED
      BY <1>1, <2>2
  <1>4. Len(q) + Len(v) = Len(p) + Len(w)
    <2> DEFINE a == Len(p)  b == Len(w)
    <2>1. a \in Nat /\ b \in Nat /\ n \in Nat /\ Len(q) = a + n /\ Len(v) = b - n
      BY <1>0, <1>2, <1>3
    <2> HIDE DEF a, b
    <2>2. (a + n) + (b - n) = a + b
      BY <2>1
    <2> QED
      BY <2>1, <2>2 DEF a, b
  <1>5. ASSUME NEW j \in 1..(Len(p) + Len(w))
        PROVE  (IF j =< Len(q) THEN q[j] ELSE v[j - Len(q)])
                 = (IF j =< Len(p) THEN p[j] ELSE w[j - Len(p)])
    <2> DEFINE a == Len(p)  b == Len(w)
    <2>0. a \in Nat /\ b \in Nat /\ n \in 1..b /\ Len(q) = a + n /\ j \in 1..(a + b)
      BY <1>0, <1>w, <1>3
    <2> HIDE DEF a, b
    <2>1. CASE j =< a
      <3>1. j \in 1..a /\ j =< a + n
        BY <2>0, <2>1
      <3>2. q[j] = p[j]
        BY <1>3, <3>1 DEF a
      <3> QED
        BY <2>0, <2>1, <3>1, <3>2 DEF a
    <2>2. CASE a < j /\ j =< a + n
      <3> DEFINE i == j - a
      <3>1. i \in 1..n /\ i + a = j
        BY <2>0, <2>2
      <3> HIDE DEF i
      <3>2. q[i + a] = u[i] /\ u[i] = w[i]
        BY <1>1, <1>3, <3>1 DEF a
      <3>3. q[j] = w[j - a]
        BY <3>1, <3>2 DEF i
      <3>4. ~(j =< a)
        BY <2>0, <2>2
      <3> QED
        BY <2>0, <2>2, <3>3, <3>4 DEF a
    <2>3. CASE a + n < j
      <3> DEFINE i == j - (a + n)
      <3>1. i \in 1..(b - n) /\ i + n = j - a
        BY <2>0, <2>3
      <3>2. v[i] = w[i + n]
        BY <1>2, <3>1 DEF b
      <3>3. ~(j =< a) /\ ~(j =< a + n)
        BY <2>0, <2>3
      <3> QED
        BY <2>0, <3>1, <3>2, <3>3 DEF a
    <2> QED
      BY <2>0, <2>1, <2>2, <2>3
  <1> QED
    BY <1>2, <1>3, <1>4, <1>5, Zenon DEF Stream

\* What is read is taken from the beginning of it.
LEMMA StreamRead ==
    ASSUME NEW p \in Seq(Characters), NEW w \in Seq(Characters), NEW m \in 0..Len(p),
           NEW q, q = SubSeq(p, m + 1, Len(p))
    PROVE  /\ q \in Seq(Characters) /\ Len(q) = Len(p) - m
           /\ \A j \in 1..((Len(p) + Len(w)) - m) : Stream(q, w)[j] = Stream(p, w)[j + m]
  <1> DEFINE a == Len(p)  b == Len(w)
  <1>1. a \in Nat /\ b \in Nat /\ m \in 0..a
    OBVIOUS
  <1>2. q \in Seq(Characters) /\ Len(q) = a - m /\ \A j \in 1..(a - m) : q[j] = p[j + m]
    BY Ending
  <1> HIDE DEF a, b
  <1>3. ASSUME NEW j \in 1..((a + b) - m)
        PROVE  Stream(q, w)[j] = Stream(p, w)[j + m]
    <2>1. j \in 1..((a - m) + b) /\ j + m \in 1..(a + b)
      BY <1>1
    <2>2. Stream(q, w)[j] = IF j =< a - m THEN q[j] ELSE w[j - (a - m)]
      BY <1>2, <2>1 DEF Stream, b
    <2>3. Stream(p, w)[j + m] = IF j + m =< a THEN p[j + m] ELSE w[(j + m) - a]
      BY <2>1 DEF Stream, a, b
    <2>4. CASE j =< a - m
      <3>1. j \in 1..(a - m) /\ j + m =< a
        BY <1>1, <2>4
      <3>2. q[j] = p[j + m]
        BY <1>2, <3>1
      <3> QED
        BY <2>2, <2>3, <2>4, <3>1, <3>2
    <2>5. CASE ~(j =< a - m)
      <3>1. ~(j + m =< a) /\ j - (a - m) = (j + m) - a
        BY <1>1, <2>5
      <3> QED
        BY <2>2, <2>3, <2>5, <3>1
    <2> QED
      BY <2>4, <2>5
  <1> QED
    BY <1>2, <1>3 DEF a, b

\* A message that is sent is at the end of it.
LEMMA StreamPut ==
    ASSUME NEW p \in Seq(Characters), NEW w \in Seq(Characters)
    PROVE  /\ \A j \in 1..Len(p) : Stream(p, w)[j] = Stream(p, <<>>)[j]
           /\ \A j \in 1..Len(w) : Stream(p, w)[Len(p) + j] = w[j]
  <1> DEFINE a == Len(p)  b == Len(w)
  <1>1. a \in Nat /\ b \in Nat /\ Len(<<>>) = 0
    OBVIOUS
  <1> HIDE DEF a, b
  <1>2. ASSUME NEW j \in 1..a PROVE Stream(p, w)[j] = Stream(p, <<>>)[j]
    <2>1. j \in 1..(a + b) /\ j \in 1..(a + 0) /\ j =< a
      BY <1>1
    <2>2. Stream(p, w)[j] = p[j]
      BY <2>1 DEF Stream, a, b
    <2>3. Stream(p, <<>>)[j] = p[j]
      BY <1>1, <2>1 DEF Stream, a
    <2> QED
      BY <2>2, <2>3
  <1>3. ASSUME NEW j \in 1..b PROVE Stream(p, w)[a + j] = w[j]
    <2>1. a + j \in 1..(a + b) /\ ~(a + j =< a) /\ (a + j) - a = j
      BY <1>1
    <2> QED
      BY <2>1 DEF Stream, a, b
  <1> QED
    BY <1>2, <1>3 DEF a, b

\* A call for n characters has read m of them, none only at the end of the pipe.
HasRead(m, n, data, r, k) ==
    /\ pipe' \in Seq(Characters) /\ (m = 0 /\ 0 < n => ~open /\ pipe' = <<>>)
    /\ \E e : Held(sent, Stream(pipe', writing'), Len(pipe') + Len(writing'), r, k + m, e)
    /\ r < Len(sent) => Extract(data, Box!Encoded(sent[r + 1]), k, k + m)
    /\ r = Len(sent) => m = 0 /\ data = <<>> /\ k = 0

\* Reading takes a part of the message that the reader is in, if there is one.
LEMMA Returned ==
    ASSUME writing \in Seq(Characters), pipe \in Seq(Characters), writing' = writing,
           NEW n \in Nat, NEW data, Box!Returns(n, data),
           NEW r, NEW k, NEW ends,
           Held(sent, Stream(pipe, writing), Len(pipe) + Len(writing), r, k, ends),
           r < Len(sent) => k + n =< Width(sent[r + 1])
    PROVE  \E m \in 0..n : HasRead(m, n, data, r, k)
  <1> DEFINE a == Len(pipe)  b == Len(writing)
             m == IF a < n THEN a ELSE n
             st == Stream(pipe, writing)
  <1>1. a \in Nat /\ b \in Nat /\ m \in 0..n /\ m \in 0..a /\ m \in Nat
    OBVIOUS
  <1>2. data = SubSeq(pipe, 1, m)
    BY DEF Box!Returns
  <1>3. /\ data \in Seq(Characters) /\ Len(data) = m
        /\ \A j \in 1..m : data[j] = pipe[j]
    BY <1>1, <1>2, Beginning
  <1>4. pipe' = SubSeq(pipe, m + 1, a)
    BY <1>3 DEF Box!Returns
  <1>5. m = 0 /\ 0 < n => ~open /\ m = a
    <2>1. ASSUME m = 0, 0 < n PROVE a = 0
      BY <1>1, <2>1
    <2>2. a = 0 => pipe = <<>>
      BY DEF a
    <2>3. Len(pipe) >= n \/ ~open \/ pipe # <<>>
      BY Zenon DEF Box!Returns
    <2>4. ASSUME m = 0, 0 < n PROVE ~open /\ m = a
      BY <1>1, <2>1, <2>2, <2>3, <2>4
    <2> QED
      BY <2>4
  <1> HIDE DEF m
  <1>6. /\ pipe' \in Seq(Characters) /\ Len(pipe') = a - m
        /\ \A j \in 1..((a + b) - m) : Stream(pipe', writing)[j] = st[j + m]
    <2> DEFINE q == pipe'
    <2>1. q = SubSeq(pipe, m + 1, Len(pipe)) /\ m \in 0..Len(pipe)
      BY <1>1, <1>4
    <2> HIDE DEF q
    <2>2. /\ q \in Seq(Characters) /\ Len(q) = Len(pipe) - m
          /\ \A j \in 1..((Len(pipe) + Len(writing)) - m) :
               Stream(q, writing)[j] = Stream(pipe, writing)[j + m]
      <3>1. q \in Seq(Characters)
        BY <2>1, StreamRead
      <3>2. Len(q) = Len(pipe) - m
        BY <2>1, StreamRead, Zenon
      <3>3. \A j \in 1..((Len(pipe) + Len(writing)) - m) :
               Stream(q, writing)[j] = Stream(pipe, writing)[j + m]
        BY <2>1, StreamRead, ZenonT(40)
      <3> QED
        BY <3>1, <3>2, <3>3
    <2> QED
      BY <2>2, Zenon DEF q
  <1>7. m = 0 /\ 0 < n => ~open /\ pipe' = <<>>
    <2>1. ASSUME m = a PROVE Len(pipe') = 0
      BY <1>1, <1>6, <2>1
    <2>2. pipe' \in Seq(Characters)
      BY <1>6
    <2>3. Len(pipe') = 0 => pipe' = <<>>
      BY <2>2
    <2> QED
      BY <1>5, <2>1, <2>3, Zenon
  <1>8. \E e : Held(sent, Stream(pipe', writing), (a + b) - m, r, k + m, e)
    <2>1. m =< a + b
      BY <1>1
    <2>2. Held(sent, st, a + b, r, k, ends)
      OBVIOUS
    <2> DEFINE l == a + b
               rest == Stream(pipe', writing)
    <2>3. \A j \in 1..(l - m) : rest[j] = st[j + m]
      <3> HIDE DEF a, b, st
      <3> QED
        BY <1>6, Zenon
    <2>4. m \in Nat /\ m =< l /\ Held(sent, st, l, r, k, ends)
      BY <1>1, <2>1, <2>2, Zenon
    <2> HIDE DEF l, rest, st
    <2>5. \E e : Held(sent, rest, l - m, r, k + m, e)
      BY <2>3, <2>4, HeldConsumed, Zenon
    <2> QED
      BY <2>5, Zenon DEF l, rest
  <1>9. Len(pipe') + Len(writing') = (a + b) - m
    <2> HIDE DEF a
    <2>1. Len(writing') = b
      OBVIOUS
    <2> HIDE DEF b
    <2>2. (a - m) + b = (a + b) - m
      BY <1>1
    <2> QED
      BY <1>6, <2>1, <2>2
  <1>10. \A j \in 1..m : data[j] = st[j]
    <2>1. ASSUME NEW j \in 1..m PROVE st[j] = pipe[j]
      <3> HIDE DEF a, b
      <3>1. j \in 1..(a + b) /\ j =< a
        BY <1>1
      <3> QED
        BY <3>1 DEF Stream, a, b
    <2> QED
      BY <1>3, <2>1
  <1>11. ASSUME r < Len(sent)
         PROVE  Extract(data, Box!Encoded(sent[r + 1]), k, k + m)
    <2>1. k \in Nat /\ Width(sent[r + 1]) \in Nat
      <3>1. sent \in Seq(Texts) /\ r \in 0..Len(sent) /\ k \in Nat
        BY DEF Held
      <3>2. sent[r + 1] \in Texts
        BY <1>11, <3>1
      <3> QED
        BY <3>1, <3>2, Widths
    <2>2. k + m =< Width(sent[r + 1])
      <3> DEFINE w == Width(sent[r + 1])
      <3>1. w \in Nat /\ k + n =< w
        BY <1>11, <2>1
      <3> HIDE DEF w
      <3>2. k + m =< w
        BY <1>1, <2>1, <3>1
      <3> QED
        BY <3>2 DEF w
    <2>3. Held(sent, st, a + b, r, k, ends)
      OBVIOUS
    <2> HIDE DEF st, a, b
    <2> QED
      BY <1>1, <1>3, <1>10, <1>11, <2>2, <2>3, NextPart
  <1>12. ASSUME r = Len(sent)
         PROVE  m = 0 /\ data = <<>> /\ k = 0
    <2>1. a + b = 0 /\ k = 0
      <3> DEFINE l == a + b
      <3>1. Held(sent, st, l, r, k, ends)
        OBVIOUS
      <3> HIDE DEF l, st
      <3>2. l = 0
        BY <1>12, <3>1, NothingHeld, Zenon
      <3>3. k = 0
        BY <1>12, <3>1, NothingHeld, Zenon
      <3> QED
        BY <3>2, <3>3, Zenon DEF l
    <2>2. m = 0
      BY <1>1, <2>1
    <2> QED
      BY <1>3, <2>1, <2>2
  <1>13. \E e : Held(sent, Stream(pipe', writing'), Len(pipe') + Len(writing'), r, k + m, e)
    BY <1>8, <1>9, Zenon
  <1> QED
    BY <1>1, <1>6, <1>7, <1>11, <1>12, <1>13, Zenon DEF HasRead

\* The reader begins with nothing when nothing is there.
LEMMA BeginOfNothing ==
    ASSUME Box!begin(<<>>)
    PROVE  m_place' = "none"
  <1>1. ~Box!IsDigits(<<>>) /\ DOMAIN <<>> = {}
    BY DEF Box!IsDigits
  <1> QED
    BY <1>1, Zenon DEF Box!begin

\* A message that is put is still to be written.
LEMMA BoxPuts ==
    ASSUME BoxInv, NEW text \in Texts, Box!put(text)
    PROVE  BoxInv'
  <1>1. PICK k, ends :
          /\ Held(sent, Stream(pipe, writing), Len(pipe) + Len(writing), Len(received), k, ends)
          /\ Reading(m_place, open, pipe, message_s, pickled, remaining, sent, Len(received), k)
    BY DEF BoxInv
  <1>2. /\ writing = <<>> /\ writing' = Box!Encoded(text) /\ sent' = Append(sent, text)
        /\ pipe' = pipe /\ open' = open /\ received' = received
        /\ m_place' = m_place /\ message_s' = message_s /\ pickled' = pickled
        /\ remaining' = remaining
    BY DEF Box!put, Box!reader
  <1>3. /\ writing' \in Seq(Characters) /\ pipe' \in Seq(Characters) /\ open' \in BOOLEAN
    <2>1. Box!Encoded(text) \in Seq(Characters)
      BY TextsOfCharacters, EncodedShape
    <2> QED
      BY <1>2, <2>1 DEF BoxInv
  <1>4. \E e : Held(sent', Stream(pipe', writing'), Len(pipe') + Len(writing'),
                    Len(received'), k, e)
    <2> DEFINE st == Stream(pipe, <<>>)
               more == Stream(pipe, Box!Encoded(text))
    <2>1. /\ \A j \in 1..Len(pipe) : more[j] = st[j]
          /\ \A j \in 1..Width(text) : more[Len(pipe) + j] = Box!Encoded(text)[j]
      BY <1>2, <1>3, StreamPut DEF Width
    <2>2. Held(sent, st, Len(pipe), Len(received), k, ends)
      <3>1. Len(pipe) + Len(writing) = Len(pipe)
        BY <1>2 DEF BoxInv
      <3> QED
        BY <1>1, <1>2, <3>1, Zenon
    <2> HIDE DEF st, more
    <2>3. \E e : Held(Append(sent, text), more, Len(pipe) + Width(text), Len(received), k, e)
      BY <2>1, <2>2, HeldAdded
    <2> QED
      BY <1>2, <2>3, Zenon DEF more, Width
  <1>5. Reading(m_place', open', pipe', message_s', pickled', remaining', sent',
                Len(received'), k)
    <2> DEFINE r == Len(received)
    <2>1. sent \in Seq(Texts) /\ r \in 0..Len(sent)
      BY <1>1 DEF Held
    <2> HIDE DEF r
    <2>2. r < Len(sent) => r < Len(Append(sent, text)) /\ Append(sent, text)[r + 1] = sent[r + 1]
      BY <2>1
    <2>3. Reading(m_place, open, pipe, message_s, pickled, remaining, sent, r, k)
      BY <1>1 DEF r
    <2>4. Reading(m_place, open, pipe, message_s, pickled, remaining, Append(sent, text), r, k)
      BY <2>2, <2>3 DEF Reading
    <2> QED
      BY <1>2, <2>4, Zenon DEF r
  <1>6. ReceivedSent(received', sent')
    <2>1. ReceivedSent(received, sent) /\ sent \in Seq(Texts)
      BY <1>1 DEF BoxInv, Held
    <2>2. ReceivedSent(received, Append(sent, text))
      BY <2>1 DEF ReceivedSent
    <2> QED
      BY <1>2, <2>2, Zenon
  <1> QED
    BY <1>3, <1>4, <1>5, <1>6, Zenon DEF BoxInv

\* What the pipe takes is still to be read.
LEMMA BoxWrites ==
    ASSUME BoxInv, NEW n, Box!write(n)
    PROVE  BoxInv'
  <1>1. PICK k, ends :
          /\ Held(sent, Stream(pipe, writing), Len(pipe) + Len(writing), Len(received), k, ends)
          /\ Reading(m_place, open, pipe, message_s, pickled, remaining, sent, Len(received), k)
    BY DEF BoxInv
  <1>2. /\ open /\ n \in 1..Len(writing) /\ pipe' = pipe \o SubSeq(writing, 1, n)
        /\ writing' = SubSeq(writing, n + 1, Len(writing))
        /\ open' = open /\ received' = received /\ sent' = sent
        /\ m_place' = m_place /\ message_s' = message_s /\ pickled' = pickled
        /\ remaining' = remaining
    BY DEF Box!write, Box!reader, Box!history
  <1>0. writing \in Seq(Characters) /\ pipe \in Seq(Characters) /\ open \in BOOLEAN
        /\ ReceivedSent(received, sent)
    BY DEF BoxInv
  <1>3. /\ pipe' \in Seq(Characters) /\ writing' \in Seq(Characters)
        /\ Len(pipe') + Len(writing') = Len(pipe) + Len(writing)
        /\ Stream(pipe', writing') = Stream(pipe, writing)
    <2> DEFINE q == pipe'  v == writing'
    <2>1. Written(pipe, writing, n, q, v)
      BY <1>2, Zenon DEF Written
    <2> HIDE DEF q, v
    <2>2. q \in Seq(Characters) /\ v \in Seq(Characters)
      BY <1>0, <2>1, StreamWritten, Zenon
    <2>3. Len(q) + Len(v) = Len(pipe) + Len(writing) /\ Stream(q, v) = Stream(pipe, writing)
      <3> QED
        BY <1>0, <2>1, StreamWritten
    <2> QED
      BY <2>2, <2>3, Zenon DEF q, v
  <1>4. Held(sent', Stream(pipe', writing'), Len(pipe') + Len(writing'), Len(received'), k, ends)
    BY <1>1, <1>2, <1>3, Zenon
  <1>5. Reading(m_place, open, pipe', message_s, pickled, remaining, sent, Len(received), k)
    BY <1>1, <1>2 DEF Reading
  <1>6. Reading(m_place', open', pipe', message_s', pickled', remaining', sent',
                Len(received'), k)
    BY <1>2, <1>5, Zenon
  <1> QED
    BY <1>0, <1>2, <1>3, <1>4, <1>6, Zenon DEF BoxInv

\* A writer that dies leaves in the pipe what it has written.
LEMMA BoxDies ==
    ASSUME BoxInv, Box!die
    PROVE  BoxInv'
  <1>1. PICK k, ends :
          /\ Held(sent, Stream(pipe, writing), Len(pipe) + Len(writing), Len(received), k, ends)
          /\ Reading(m_place, open, pipe, message_s, pickled, remaining, sent, Len(received), k)
    BY DEF BoxInv
  <1>2. /\ writing' = writing /\ pipe' = pipe /\ open' = FALSE
        /\ received' = received /\ sent' = sent
        /\ m_place' = m_place /\ message_s' = message_s /\ pickled' = pickled
        /\ remaining' = remaining
    BY DEF Box!die, Box!reader, Box!history
  <1>3. Reading(m_place, FALSE, pipe, message_s, pickled, remaining, sent, Len(received), k)
    BY <1>1 DEF Reading
  <1>4. Reading(m_place', open', pipe', message_s', pickled', remaining', sent',
                Len(received'), k)
    BY <1>2, <1>3, Zenon
  <1>5. Held(sent', Stream(pipe', writing'), Len(pipe') + Len(writing'), Len(received'), k, ends)
    BY <1>1, <1>2, Zenon
  <1>6. open' \in BOOLEAN
    BY <1>2
  <1> QED
    BY <1>2, <1>4, <1>5, <1>6, Zenon DEF BoxInv

\* The reader begins with three characters of a message, or is at the end of the pipe.
LEMMA BoxGets ==
    ASSUME BoxInv, Box!get
    PROVE  BoxInv'
  <1> DEFINE r == Len(received)
  <1>1. PICK k, ends :
          /\ Held(sent, Stream(pipe, writing), Len(pipe) + Len(writing), r, k, ends)
          /\ Reading(m_place, open, pipe, message_s, pickled, remaining, sent, r, k)
    BY DEF BoxInv
  <1>2. PICK data : Box!Returns(3, data) /\ message_s' = data /\ Box!begin(data)
    BY DEF Box!get, Box!history
  <1>3. /\ m_place = "get" /\ writing' = writing /\ open' = open
        /\ sent' = sent /\ received' = received
    BY DEF Box!get, Box!history
  <1>4. /\ writing \in Seq(Characters) /\ pipe \in Seq(Characters) /\ open \in BOOLEAN
        /\ ReceivedSent(received, sent) /\ sent \in Seq(Texts) /\ r \in 0..Len(sent)
    BY <1>1 DEF BoxInv, Held
  <1>5. k = 0
    BY <1>1, <1>3 DEF Reading
  <1> HIDE DEF r
  <1>6. ASSUME r < Len(sent)
        PROVE  /\ sent[r + 1] \in Texts /\ Places(sent[r + 1]) \in Nat \ {0}
               /\ Width(sent[r + 1]) \in Nat /\ 3 =< Width(sent[r + 1])
    <2>1. sent[r + 1] \in Texts
      BY <1>4, <1>6
    <2>2. /\ Places(sent[r + 1]) \in Nat \ {0} /\ Len(sent[r + 1]) \in Nat
          /\ Width(sent[r + 1]) = Places(sent[r + 1]) + Len(sent[r + 1]) + 2
      BY <2>1, Widths
    <2>3. Width(sent[r + 1]) \in Nat /\ 3 =< Width(sent[r + 1])
      <3> DEFINE p == Places(sent[r + 1])  n == Len(sent[r + 1])
      <3>1. p \in Nat \ {0} /\ n \in Nat /\ Width(sent[r + 1]) = p + n + 2
        BY <2>2
      <3> HIDE DEF p, n
      <3> QED
        BY <3>1
    <2> QED
      BY <2>1, <2>2, <2>3
  <1>p. PICK m \in 0..3 : HasRead(m, 3, data, r, k)
    <2>1. r < Len(sent) => k + 3 =< Width(sent[r + 1])
      BY <1>5, <1>6
    <2>2. 3 \in Nat
      OBVIOUS
    <2> QED
      BY <1>1, <1>2, <1>3, <1>4, <2>1, <2>2, Returned, Zenon
  <1>7. /\ pipe' \in Seq(Characters) /\ (m = 0 /\ 0 < 3 => ~open /\ pipe' = <<>>)
        /\ \E e : Held(sent, Stream(pipe', writing'), Len(pipe') + Len(writing'),
                       r, k + m, e)
        /\ r < Len(sent) => Extract(data, Box!Encoded(sent[r + 1]), k, k + m)
        /\ r = Len(sent) => m = 0 /\ data = <<>> /\ k = 0
    BY <1>p, Zenon DEF HasRead
  <1>8. k + m = m /\ m \in Nat
    BY <1>5
  <1>9. Reading(m_place', open, pipe', data, pickled', remaining', sent, r, m)
    <2>1. CASE r = Len(sent)
      <3>1. m = 0 /\ data = <<>>
        BY <1>7, <2>1
      <3>2. ~open /\ pipe' = <<>>
        BY <1>7, <3>1
      <3>3. m_place' = "none"
        BY <1>2, <3>1, BeginOfNothing, Zenon
      <3> QED
        BY <3>1, <3>2, <3>3 DEF Reading
    <2>2. CASE r # Len(sent)
      <3> DEFINE text == sent[r + 1]
      <3>1. r < Len(sent)
        BY <1>4, <2>2
      <3>2. /\ text \in Texts /\ Places(text) \in Nat \ {0}
            /\ Width(text) \in Nat /\ 3 =< Width(text)
        BY <1>6, <3>1
      <3>3. Extract(data, Box!Encoded(text), 0, m)
        BY <1>5, <1>7, <1>8, <3>1, Zenon
      <3> HIDE DEF text
      <3>4. m \in 0..Width(text)
        BY <3>2
      <3>5. /\ m = 0 => m_place' = "none"
            /\ m \in 1..Places(text) => m_place' = "digits"
            /\ m > Places(text) =>
                 /\ m_place' = "body" /\ remaining' = Width(text) - m
                 /\ Extract(pickled', Box!Encoded(text), Places(text) + 1, m)
        BY <1>2, <3>2, <3>3, <3>4, BeginOfMessage
      <3>6. CASE m = 0
        <4>1. ~open /\ pipe' = <<>>
          BY <1>7, <3>6
        <4> QED
          BY <3>5, <3>6, <4>1 DEF Reading
      <3>7. CASE m \in 1..Places(text)
        BY <3>1, <3>3, <3>5, <3>7 DEF Reading, text
      <3>8. CASE m > Places(text)
        <4>1. m \in (Places(text) + 1)..Width(text)
          BY <3>2, <3>4, <3>8
        <4> QED
          BY <3>1, <3>5, <3>8, <4>1 DEF Reading, text
      <3> QED
        BY <1>8, <3>2, <3>6, <3>7, <3>8
    <2> QED
      BY <2>1, <2>2
  <1>10. Reading(m_place', open', pipe', message_s', pickled', remaining', sent',
                 Len(received'), m)
    BY <1>2, <1>3, <1>9, Zenon DEF r
  <1>11. \E e : Held(sent', Stream(pipe', writing'), Len(pipe') + Len(writing'),
                     Len(received'), m, e)
    BY <1>3, <1>7, <1>8, Zenon DEF r
  <1> QED
    BY <1>3, <1>4, <1>7, <1>10, <1>11, Zenon DEF BoxInv

\* It reads a digit, the colon, or the end of the pipe.
LEMMA BoxReadsDigit ==
    ASSUME BoxInv, Box!readDigit
    PROVE  BoxInv'
  <1> DEFINE r == Len(received)
             text == sent[r + 1]
  <1>1. PICK k, ends :
          /\ Held(sent, Stream(pipe, writing), Len(pipe) + Len(writing), r, k, ends)
          /\ Reading(m_place, open, pipe, message_s, pickled, remaining, sent, r, k)
    BY DEF BoxInv
  <1>2. PICK data :
          /\ Box!Returns(1, data) /\ message_s' = message_s \o data
          /\ Box!begin(message_s \o data)
    BY DEF Box!readDigit, Box!history
  <1>3. /\ m_place = "digits" /\ writing' = writing /\ open' = open
        /\ sent' = sent /\ received' = received
    BY DEF Box!readDigit, Box!history
  <1>4. /\ writing \in Seq(Characters) /\ pipe \in Seq(Characters) /\ open \in BOOLEAN
        /\ ReceivedSent(received, sent) /\ sent \in Seq(Texts) /\ r \in 0..Len(sent)
        /\ k \in Nat
    BY <1>1 DEF BoxInv, Held
  <1>5. /\ r < Len(sent) /\ k \in 1..Places(text)
        /\ Extract(message_s, Box!Encoded(text), 0, k)
    BY <1>1, <1>3 DEF Reading
  <1>6. /\ text \in Texts /\ Places(text) \in Nat \ {0}
        /\ Width(text) \in Nat /\ Places(text) + 2 =< Width(text)
    <2>1. text \in Texts
      BY <1>4, <1>5
    <2> HIDE DEF text
    <2>2. /\ Places(text) \in Nat \ {0} /\ Len(text) \in Nat
          /\ Width(text) = Places(text) + Len(text) + 2
      BY <2>1, Widths
    <2> QED
      BY <2>1, <2>2
  <1> HIDE DEF r
  <1>p. PICK m \in 0..1 : HasRead(m, 1, data, r, k)
    <2>1. r < Len(sent) => k + 1 =< Width(sent[r + 1])
      <3> HIDE DEF text
      <3>1. k + 1 =< Width(text)
        BY <1>5, <1>6
      <3> QED
        BY <3>1 DEF text
    <2>2. 1 \in Nat
      OBVIOUS
    <2> QED
      BY <1>1, <1>2, <1>3, <1>4, <2>1, <2>2, Returned, Zenon
  <1>7. /\ pipe' \in Seq(Characters) /\ (m = 0 /\ 0 < 1 => ~open /\ pipe' = <<>>)
        /\ \E e : Held(sent, Stream(pipe', writing'), Len(pipe') + Len(writing'),
                       r, k + m, e)
        /\ r < Len(sent) => Extract(data, Box!Encoded(sent[r + 1]), k, k + m)
        /\ r = Len(sent) => m = 0 /\ data = <<>> /\ k = 0
    BY <1>p, Zenon DEF HasRead
  <1>8. Extract(data, Box!Encoded(text), k, k + m)
    BY <1>5, <1>7
  <1> HIDE DEF text
  <1>9. /\ k + m \in Nat /\ k + m \in 1..(Places(text) + 1) /\ k + m \in 0..Width(text)
        /\ k =< k + m /\ k + m # 0 /\ 0 =< k /\ 0 \in Nat
    BY <1>4, <1>5, <1>6
  <1> DEFINE x == message_s \o data
             n == k + m
  <1>10. Extract(x, Box!Encoded(text), 0, n)
    BY <1>4, <1>5, <1>8, <1>9, ExtractsJoin, Zenon
  <1>11. Box!begin(x) /\ message_s' = x /\ n \in Nat /\ n \in 0..Width(text) /\ n # 0
    BY <1>2, <1>9
  <1>12. \E e : Held(sent, Stream(pipe', writing'), Len(pipe') + Len(writing'), r, n, e)
    BY <1>7
  <1> HIDE DEF x, n
  <1>13. Reading(m_place', open, pipe', x, pickled', remaining', sent, r, n)
    <2>1. /\ n \in 1..Places(text) => m_place' = "digits"
          /\ n > Places(text) =>
               /\ m_place' = "body" /\ remaining' = Width(text) - n
               /\ Extract(pickled', Box!Encoded(text), Places(text) + 1, n)
      BY <1>6, <1>10, <1>11, BeginOfMessage
    <2>2. CASE n \in 1..Places(text)
      BY <1>5, <1>10, <2>1, <2>2 DEF Reading, text
    <2>3. CASE n > Places(text)
      <3>1. n \in (Places(text) + 1)..Width(text)
        BY <1>6, <1>11, <2>3
      <3> QED
        BY <1>5, <2>1, <2>3, <3>1 DEF Reading, text
    <2> QED
      BY <1>6, <1>11, <2>2, <2>3
  <1>14. Reading(m_place', open', pipe', message_s', pickled', remaining', sent',
                 Len(received'), n)
    BY <1>3, <1>11, <1>13, Zenon DEF r
  <1>15. \E e : Held(sent', Stream(pipe', writing'), Len(pipe') + Len(writing'),
                     Len(received'), n, e)
    BY <1>3, <1>12, Zenon DEF r
  <1> QED
    BY <1>3, <1>4, <1>7, <1>14, <1>15, Zenon DEF BoxInv

\* It reads a part of the text, or the end of the pipe.
LEMMA BoxReadsBody ==
    ASSUME BoxInv, Box!readBody
    PROVE  BoxInv'
  <1> DEFINE r == Len(received)
             text == sent[r + 1]
             p == Places(text)
             w == Width(text)
  <1>1. PICK k, ends :
          /\ Held(sent, Stream(pipe, writing), Len(pipe) + Len(writing), r, k, ends)
          /\ Reading(m_place, open, pipe, message_s, pickled, remaining, sent, r, k)
    BY DEF BoxInv
  <1>2. PICK data :
          /\ Box!Returns(remaining, data) /\ remaining' = remaining - Len(data)
          /\ pickled' = pickled \o data
    BY DEF Box!readBody, Box!history
  <1>3. /\ m_place = "body" /\ remaining > 0 /\ writing' = writing /\ open' = open
        /\ sent' = sent /\ received' = received /\ m_place' = m_place
        /\ message_s' = message_s
    BY DEF Box!readBody, Box!history
  <1>4. /\ writing \in Seq(Characters) /\ pipe \in Seq(Characters) /\ open \in BOOLEAN
        /\ ReceivedSent(received, sent) /\ sent \in Seq(Texts) /\ r \in 0..Len(sent)
        /\ k \in Nat
    BY <1>1 DEF BoxInv, Held
  <1>5. /\ r < Len(sent) /\ k \in (p + 1)..w /\ remaining = w - k
        /\ Extract(pickled, Box!Encoded(text), p + 1, k)
    BY <1>1, <1>3 DEF Reading
  <1>6. text \in Texts /\ p \in Nat /\ w \in Nat
    <2>1. text \in Texts
      BY <1>4, <1>5
    <2> HIDE DEF text
    <2> QED
      BY <2>1, Widths
  <1> HIDE DEF r, p, w
  <1>0. remaining \in Nat /\ k + remaining = w
    BY <1>3, <1>4, <1>5, <1>6
  <1>p. PICK m \in 0..remaining : HasRead(m, remaining, data, r, k)
    <2>1. k + remaining =< w
      BY <1>0, <1>6
    <2>2. r < Len(sent) => k + remaining =< Width(sent[r + 1])
      BY <2>1 DEF w
    <2> QED
      BY <1>0, <1>1, <1>2, <1>3, <1>4, <2>2, Returned, Zenon
  <1>7. /\ pipe' \in Seq(Characters) /\ (m = 0 /\ 0 < remaining => ~open /\ pipe' = <<>>)
        /\ \E e : Held(sent, Stream(pipe', writing'), Len(pipe') + Len(writing'),
                       r, k + m, e)
        /\ r < Len(sent) => Extract(data, Box!Encoded(sent[r + 1]), k, k + m)
        /\ r = Len(sent) => m = 0 /\ data = <<>> /\ k = 0
    BY <1>p, Zenon DEF HasRead
  <1>8. Extract(data, Box!Encoded(text), k, k + m)
    BY <1>5, <1>7
  <1> HIDE DEF text
  <1>9. /\ k + m \in Nat /\ k + m \in (p + 1)..w /\ k =< k + m /\ p + 1 =< k /\ p + 1 \in Nat
    BY <1>0, <1>4, <1>5, <1>6
  <1>10. remaining' = w - (k + m)
    <2>1. Len(data) = (k + m) - k
      BY <1>8 DEF Extract
    <2>2. (k + m) - k = m
      BY <1>4, <1>9
    <2>3. remaining' = remaining - m
      BY <1>2, <2>1, <2>2, Zenon
    <2> QED
      BY <1>0, <1>4, <1>5, <1>6, <2>3
  <1> DEFINE x == pickled \o data
             n == k + m
  <1>11. Extract(x, Box!Encoded(text), p + 1, n)
    BY <1>4, <1>5, <1>8, <1>9, ExtractsJoin, Zenon
  <1>12. pickled' = x /\ n \in (p + 1)..w /\ remaining' = w - n
    BY <1>2, <1>9, <1>10
  <1>13. \E e : Held(sent, Stream(pipe', writing'), Len(pipe') + Len(writing'), r, n, e)
    BY <1>7
  <1> HIDE DEF x, n
  <1>14. Reading("body", open, pipe', message_s, x, remaining', sent, r, n)
    BY <1>5, <1>11, <1>12 DEF Reading, text, p, w
  <1>15. Reading(m_place', open', pipe', message_s', pickled', remaining', sent',
                 Len(received'), n)
    BY <1>3, <1>12, <1>14, Zenon DEF r
  <1>16. \E e : Held(sent', Stream(pipe', writing'), Len(pipe') + Len(writing'),
                     Len(received'), n, e)
    BY <1>3, <1>13, Zenon DEF r
  <1> QED
    BY <1>3, <1>4, <1>7, <1>15, <1>16, Zenon DEF BoxInv

\* It has the whole text, which is what was sent.
LEMMA BoxLoads ==
    ASSUME BoxInv, Box!load
    PROVE  BoxInv'
  <1> DEFINE r == Len(received)
             text == sent[r + 1]
             p == Places(text)
             w == Width(text)
  <1>1. PICK k, ends :
          /\ Held(sent, Stream(pipe, writing), Len(pipe) + Len(writing), r, k, ends)
          /\ Reading(m_place, open, pipe, message_s, pickled, remaining, sent, r, k)
    BY DEF BoxInv
  <1>2. /\ m_place = "body" /\ remaining =< 0 /\ writing' = writing /\ pipe' = pipe
        /\ open' = open /\ message_s' = message_s /\ pickled' = pickled
        /\ remaining' = remaining /\ sent' = sent
    BY DEF Box!load
  <1>3. /\ writing \in Seq(Characters) /\ pipe \in Seq(Characters) /\ open \in BOOLEAN
        /\ ReceivedSent(received, sent) /\ sent \in Seq(Texts) /\ r \in 0..Len(sent)
        /\ k \in Nat
    BY <1>1 DEF BoxInv, Held
  <1>4. /\ r < Len(sent) /\ k \in (p + 1)..w /\ remaining = w - k
        /\ Extract(pickled, Box!Encoded(text), p + 1, k)
    BY <1>1, <1>2 DEF Reading
  <1>5. text \in Texts /\ p \in Nat /\ w \in Nat
    <2>1. text \in Texts
      BY <1>3, <1>4
    <2> HIDE DEF text
    <2> QED
      BY <2>1, Widths
  <1>6. k = w
    <2> HIDE DEF p, w
    <2> QED
      BY <1>2, <1>3, <1>4, <1>5
  <1>7. pickled # <<>> /\ Box!Last(pickled) = "," /\ Box!Front(pickled) = text
    <2>1. Extract(pickled, Box!Encoded(text), Places(text) + 1, Width(text))
      BY <1>4, <1>6
    <2> HIDE DEF text
    <2> QED
      BY <1>5, <2>1, TextOfMessage
  <1>8. received' = Append(received, text) /\ m_place' = "get"
    BY <1>5, <1>7, Zenon DEF Box!load, Box!Ended
  <1>9. received \in Seq(Texts) /\ \A i \in 1..r : received[i] = sent[i]
    BY <1>3 DEF ReceivedSent
  <1>10. /\ received' \in Seq(Texts) /\ Len(received') = r + 1
         /\ received'[r + 1] = text /\ \A i \in 1..r : received'[i] = received[i]
    <2> HIDE DEF text
    <2> QED
      BY <1>5, <1>8, <1>9
  <1>11. ReceivedSent(received', sent')
    <2>1. r \in Nat /\ r + 1 =< Len(sent)
      BY <1>3, <1>4
    <2>2. \A i \in 1..(r + 1) : i \in 1..r \/ i = r + 1
      BY <2>1
    <2>3. \A i \in 1..(r + 1) : received'[i] = sent[i]
      BY <1>9, <1>10, <2>2
    <2> QED
      BY <1>2, <1>10, <2>1, <2>3 DEF ReceivedSent
  <1>12. Held(sent, Stream(pipe, writing), Len(pipe) + Len(writing), r + 1, 0, ends)
    <2> HIDE DEF r
    <2> QED
      BY <1>1, <1>4, <1>6, HeldFinished DEF w, text
  <1>13. Held(sent', Stream(pipe', writing'), Len(pipe') + Len(writing'), Len(received'), 0, ends)
    BY <1>2, <1>10, <1>12, Zenon
  <1>14. Reading(m_place', open', pipe', message_s', pickled', remaining', sent',
                 Len(received'), 0)
    BY <1>8 DEF Reading
  <1>15. writing' \in Seq(Characters) /\ pipe' \in Seq(Characters) /\ open' \in BOOLEAN
    BY <1>2, <1>3
  <1> QED
    BY <1>11, <1>13, <1>14, <1>15, Zenon DEF BoxInv

\* A write that was interrupted before anything was written is made again.
LEMMA BoxWritesAgain ==
    ASSUME BoxInv, Box!interruptWrite, broken' = {}
    PROVE  BoxInv'
  <1>1. writing = Box!Encoded(Box!Last(sent))
    BY Zenon DEF Box!interruptWrite
  <1>2. UNCHANGED <<writing, pipe, open, Box!reader, sent, received>>
    BY <1>1 DEF Box!interruptWrite
  <1> QED
    BY <1>2, BoxStays

\* So is a read in the length of a message, or before it.
LEMMA BoxReadsAgain ==
    ASSUME BoxInv, Box!interruptRead, broken' = {}
    PROVE  BoxInv'
  <1>1. m_place # "body"
    BY DEF Box!interruptRead
  <1>2. UNCHANGED <<writing, pipe, open, Box!reader, sent, received>>
    BY <1>1 DEF Box!interruptRead, Box!reader
  <1> QED
    BY <1>2, BoxStays

\* Every step of the writer and of the reader is one of those above; what is broken
\* remains so.
LEMMA BoxMoves ==
    ASSUME broken = {} => BoxInv, Next
    PROVE  broken' = {} => BoxInv'
  <1>1. CASE part = "box" /\ Box!Next
    <2>0. ASSUME broken' = {} PROVE broken = {}
      <3>1. CASE Box!interruptWrite
        BY <2>0, <3>1 DEF Box!interruptWrite
      <3>2. CASE Box!interruptRead
        BY <2>0, <3>2 DEF Box!interruptRead
      <3>3. CASE \E text \in Texts : Box!put(text)
        BY <2>0, <3>3 DEF Box!put
      <3>4. CASE \E n \in DOMAIN writing : Box!write(n)
        BY <2>0, <3>4 DEF Box!write, Box!history
      <3>5. CASE Box!die
        BY <2>0, <3>5 DEF Box!die, Box!history
      <3>6. CASE Box!get \/ Box!readDigit \/ Box!readBody \/ Box!load
        BY <2>0, <3>6 DEF Box!get, Box!readDigit, Box!readBody, Box!load, Box!history
      <3> QED
        BY <1>1, <3>1, <3>2, <3>3, <3>4, <3>5, <3>6, Zenon
           DEF Box!Next, Box!Writer, Box!Reader
    <2>1. SUFFICES ASSUME broken' = {}, BoxInv PROVE BoxInv'
      BY <2>0
    <2>2. CASE \E text \in Texts : Box!put(text)
      BY <2>1, <2>2, BoxPuts
    <2>3. CASE \E n \in DOMAIN writing : Box!write(n)
      BY <2>1, <2>3, BoxWrites
    <2>4. CASE Box!die
      BY <2>1, <2>4, BoxDies
    <2>5. CASE Box!get
      BY <2>1, <2>5, BoxGets
    <2>6. CASE Box!readDigit
      BY <2>1, <2>6, BoxReadsDigit
    <2>7. CASE Box!readBody
      BY <2>1, <2>7, BoxReadsBody
    <2>8. CASE Box!load
      BY <2>1, <2>8, BoxLoads
    <2>9. CASE Box!interruptWrite
      BY <2>1, <2>9, BoxWritesAgain
    <2>10. CASE Box!interruptRead
      BY <2>1, <2>10, BoxReadsAgain
    <2> QED
      BY <1>1, <2>2, <2>3, <2>4, <2>5, <2>6, <2>7, <2>8, <2>9, <2>10, Zenon
         DEF Box!Next, Box!Writer, Box!Reader
  <1>2. CASE UNCHANGED box
    <2>1. UNCHANGED <<writing, pipe, open, Box!reader, sent, received>> /\ broken' = broken
      BY <1>2 DEF box, Box!reader
    <2> QED
      BY <2>1, BoxStays
  <1> QED
    BY <1>1, <1>2 DEF Next, Others

\* The reader gives up only where the pipe ends.
NoneOnlyThere == (m_place = "none" => ~open /\ pipe = <<>>) /\ m_place # "failed"

\* The invariant says that what was received was sent, and that the reader sees the end of
\* the pipe only where it is.
LEMMA BoxReceives ==
    ASSUME broken = {} => BoxInv
    PROVE  MessagesWhole
  <1>0. SUFFICES ASSUME BoxInv PROVE Box!IsPrefix(received, sent) /\ NoneOnlyThere
    BY DEF MessagesWhole, Box!ReceivedAsSent, Box!NoneOnlyAtEnd, NoneOnlyThere
  <1>1. /\ received \in Seq(Texts) /\ Len(received) =< Len(sent)
        /\ \A i \in 1..Len(received) : received[i] = sent[i] /\ sent \in Seq(Texts)
    BY <1>0 DEF BoxInv, ReceivedSent, Held
  <1>2. sent \in Seq(Texts)
    BY <1>0 DEF BoxInv, Held
  <1>3. SubSeq(received, 1, Len(received)) = SubSeq(sent, 1, Len(received))
    <2> DEFINE u == SubSeq(received, 1, Len(received))
               v == SubSeq(sent, 1, Len(received))
    <2>0. Len(received) \in 0..Len(received) /\ Len(received) \in 0..Len(sent)
      BY <1>1, <1>2
    <2>1. /\ u \in Seq(Texts) /\ Len(u) = Len(received)
          /\ \A j \in 1..Len(received) : u[j] = received[j]
      BY <1>1, <2>0, Beginning
    <2>2. /\ v \in Seq(Texts) /\ Len(v) = Len(received)
          /\ \A j \in 1..Len(received) : v[j] = sent[j]
      BY <1>2, <2>0, Beginning
    <2> HIDE DEF u, v
    <2>3. u = v
      BY <1>1, <2>1, <2>2, SameSequences
    <2> QED
      BY <2>3 DEF u, v
  <1>4. NoneOnlyThere
    BY <1>0 DEF BoxInv, Reading, NoneOnlyThere
  <1> QED
    BY <1>1, <1>3, <1>4 DEF Box!IsPrefix

\* Messages over a pipe are received whole and in order, and none is invented at its end,
\* whatever the texts, however the writes are cut and whatever calls are interrupted, as
\* long as no interrupted write had written a part and no interrupted read was in a text
\* (util/messagebox.py:10-58, 94-112).
THEOREM MessagesAlwaysWhole == Spec => []MessagesWhole
  <1> DEFINE Unbroken == broken = {} => BoxInv
  <1>1. Init => Unbroken
    BY BoxBegins DEF Init, NoBox, Box!Init
  <1>2. Unbroken /\ [Next]_vars => Unbroken'
    <2>1. ASSUME Unbroken, UNCHANGED vars PROVE Unbroken'
      <3>1. UNCHANGED <<writing, pipe, open, Box!reader, sent, received>> /\ broken' = broken
        BY <2>1 DEF vars, box, Box!reader
      <3> QED
        BY <2>1, <3>1, BoxStays
    <2>2. ASSUME Unbroken, Next PROVE Unbroken'
      BY <2>2, BoxMoves
    <2> QED
      BY <2>1, <2>2
  <1>3. Unbroken => MessagesWhole
    BY BoxReceives
  <1> HIDE DEF Unbroken
  <1> QED
    BY <1>1, <1>2, <1>3, PTL DEF Spec
-----------------------------------------------------------------------------
(* A client of the proxy and the coroutine that reads it: what the parts of its *)
(* messages are together, and how many characters and requests they have.  *)

\* The sequences that the beginnings of a sequence of sequences are together.
Together(s, X, v) ==
    /\ v \in [0..Len(s) -> Seq(X)] /\ v[0] = <<>>
    /\ \A i \in 1..Len(s) : v[i] = v[i - 1] \o s[i]

\* Sequences put together are the last of what their beginnings are together.
LEMMA FlattenDefined ==
    ASSUME NEW X, NEW s \in Seq(Seq(X))
    PROVE  \E v : Together(s, X, v) /\ Http!FlattenSeq(s) = v[Len(s)]
  <1> DEFINE S == Seq(X)
             Basic == {0}
             p == [n \in Nat |-> IF n = 0 THEN 0 ELSE n - 1]
             base == [n \in Nat |-> <<>>]
             last_(n) == IF n \in 1..Len(s) THEN s[n] ELSE <<>>
             g == [x \in Nat \X S |-> x[2] \o last_(x[1])]
  <1>0. Len(s) \in Nat /\ <<>> \in S
    OBVIOUS
  <1>1. \A n \in Nat : last_(n) \in S
    BY <1>0
  <1>2. p \in [Nat -> Nat] /\ \A n \in Nat : n # 0 => p[n] = n - 1
    OBVIOUS
  <1>3. base \in [Nat -> S] /\ \A n \in Nat : base[n] = <<>>
    BY <1>0
  <1>4. /\ g \in [Nat \X S -> S]
        /\ \A n \in Nat : \A k \in S : g[<<n, k>>] = k \o last_(n)
    <2> HIDE DEF last_
    <2>1. \A n \in Nat : \A k \in S : k \o last_(n) \in S
      BY <1>1
    <2> HIDE DEF S
    <2> QED
      BY <2>1
  <1>5. \A n \in Nat : n \in Basic \/ p[n] < n
    BY <1>2
  <1>6. \A n \in Nat : n \in Basic <=> n = 0
    OBVIOUS
  <1> HIDE DEF Basic, p, base, g, S
  <1>7. PICK f : Solves(f, S, Basic, p, base, g)
    <2>1. Founded(S, Basic, p, base, g)
      BY <1>2, <1>3, <1>4, <1>5 DEF Founded
    <2> QED
      BY <2>1, Recursion
  <1>8. /\ f \in [Nat -> S]
        /\ \A n \in Nat : f[n] = IF n \in Basic THEN base[n] ELSE g[<<n, f[p[n]]>>]
    BY <1>7 DEF Solves
  <1> HIDE <1>7
  <1>9. f[0] = <<>>
    BY <1>3, <1>6, <1>8
  <1>10. ASSUME NEW i \in 1..Len(s) PROVE f[i] = f[i - 1] \o s[i]
    <2>1. i \in Nat /\ i # 0 /\ p[i] = i - 1 /\ i - 1 \in Nat
      BY <1>0, <1>2
    <2>2. f[i] = g[<<i, f[i - 1]>>]
      BY <1>6, <1>8, <2>1
    <2>3. last_(i) = s[i]
      OBVIOUS
    <2> HIDE DEF last_
    <2>4. f[i - 1] \in S
      BY <1>8, <2>1
    <2>5. g[<<i, f[i - 1]>>] = f[i - 1] \o last_(i)
      BY <1>4, <2>1, <2>4
    <2> QED
      BY <2>2, <2>3, <2>5, Zenon
  <1> HIDE DEF last_
  <1> DEFINE u == [i \in 0..Len(s) |-> f[i]]
  <1>11. /\ u \in [0..Len(s) -> S] /\ u[0] = <<>> /\ u[Len(s)] = f[Len(s)]
         /\ \A i \in 0..Len(s) : u[i] = f[i]
    BY <1>0, <1>8, <1>9
  <1> HIDE DEF u
  <1>12. Together(s, X, u)
    <2>1. ASSUME NEW i \in 1..Len(s) PROVE u[i] = u[i - 1] \o s[i]
      <3>1. i \in 0..Len(s) /\ i - 1 \in 0..Len(s)
        BY <1>0
      <3>2. u[i] = f[i] /\ u[i - 1] = f[i - 1]
        BY <1>11, <3>1
      <3> QED
        BY <1>10, <3>2, Zenon
    <2> QED
      BY <1>11, <2>1 DEF Together, S
  <1>13. CASE Len(s) = 0
    BY <1>11, <1>12, <1>13 DEF Http!FlattenSeq
  <1>14. CASE Len(s) # 0
    <2> DEFINE Flat(h, i) == IF i = 1 THEN s[i] ELSE h[i - 1] \o s[i]
               h1 == [i \in 1..Len(s) |-> f[i]]
               v == CHOOSE v : v = [i \in 1..Len(s) |-> IF i = 1 THEN s[i] ELSE v[i - 1] \o s[i]]
    <2>1. \A i \in 1..Len(s) : f[i] = IF i = 1 THEN s[i] ELSE f[i - 1] \o s[i]
      <3> SUFFICES ASSUME NEW i \in 1..Len(s)
                   PROVE  f[i] = IF i = 1 THEN s[i] ELSE f[i - 1] \o s[i]
        OBVIOUS
      <3>1. CASE i = 1
        <4>1. f[1] = <<>> \o s[1]
          <5>1. 1 - 1 = 0
            OBVIOUS
          <5> QED
            BY <1>9, <1>10, <3>1, <5>1
        <4>2. <<>> \o s[1] = s[1]
          BY <3>1
        <4> QED
          BY <3>1, <4>1, <4>2, Zenon
      <3>2. CASE i # 1
        BY <1>10, <3>2, Zenon
      <3> QED
        BY <3>1, <3>2
    <2>2. h1 = [i \in 1..Len(s) |-> IF i = 1 THEN s[i] ELSE h1[i - 1] \o s[i]]
      <3> SUFFICES ASSUME NEW i \in 1..Len(s)
                   PROVE  f[i] = IF i = 1 THEN s[i] ELSE h1[i - 1] \o s[i]
        OBVIOUS
      <3>1. i # 1 => h1[i - 1] = f[i - 1]
        <4>1. i # 1 => i - 1 \in 1..Len(s)
          BY <1>0
        <4> QED
          BY <4>1
      <3> HIDE DEF h1
      <3> QED
        BY <2>1, <3>1, Zenon
    <2> HIDE DEF h1
    <2>3. v = [i \in 1..Len(s) |-> IF i = 1 THEN s[i] ELSE v[i - 1] \o s[i]]
      BY <2>2, Zenon
    <2>4. Http!FlattenSeq(s) = v[Len(s)]
      BY <1>14, Zenon DEF Http!FlattenSeq
    <2> HIDE DEF v
    <2>5. \A i \in 1..Len(s) : v[i] = f[i]
      <3> DEFINE D == {i \in 1..Len(s) : v[i] # f[i]}
      <3> SUFFICES ASSUME D # {} PROVE FALSE
        OBVIOUS
      <3>1. PICK i \in D : \A x \in D : i =< x
        <4>1. D \in SUBSET Nat
          BY <1>0
        <4> HIDE DEF D
        <4> QED
          BY <4>1, LeastNumber
      <3>2. i \in 1..Len(s) /\ v[i] # f[i]
        BY <3>1
      <3>3. v[i] = IF i = 1 THEN s[i] ELSE v[i - 1] \o s[i]
        BY <2>3, <3>2, Zenon
      <3>4. i # 1 => i - 1 \in 1..Len(s) /\ i - 1 < i
        BY <1>0, <3>2
      <3>5. i # 1 => v[i - 1] = f[i - 1]
        <4>1. i # 1 => i - 1 \notin D
          <5> HIDE DEF D
          <5> QED
            BY <1>0, <3>1, <3>2, <3>4
        <4> QED
          BY <3>4, <4>1
      <3> QED
        BY <2>1, <3>2, <3>3, <3>5, Zenon
    <2>6. Len(s) \in 1..Len(s)
      BY <1>0, <1>14
    <2> QED
      BY <1>11, <1>12, <2>4, <2>5, <2>6
  <1> QED
    BY <1>13, <1>14

\* One sequence more comes at the end.
LEMMA FlattenAppended ==
    ASSUME NEW X, NEW s \in Seq(Seq(X)), NEW x \in Seq(X)
    PROVE  /\ Http!FlattenSeq(s) \in Seq(X)
           /\ Http!FlattenSeq(Append(s, x)) = Http!FlattenSeq(s) \o x
  <1> DEFINE t == Append(s, x)
             S == Seq(X)
  <1>1. /\ t \in Seq(S) /\ Len(s) \in Nat /\ Len(t) = Len(s) + 1
        /\ t[Len(s) + 1] = x /\ \A i \in 1..Len(s) : t[i] = s[i]
    OBVIOUS
  <1> HIDE DEF t
  <1>2. PICK v : Together(s, X, v) /\ Http!FlattenSeq(s) = v[Len(s)]
    BY FlattenDefined
  <1>3. PICK w : Together(t, X, w) /\ Http!FlattenSeq(t) = w[Len(t)]
    BY <1>1, FlattenDefined
  <1>4. /\ v \in [0..Len(s) -> S] /\ v[0] = <<>>
        /\ \A i \in 1..Len(s) : v[i] = v[i - 1] \o s[i]
    BY <1>2 DEF Together
  <1>5. /\ w[0] = <<>> /\ \A i \in 1..Len(t) : w[i] = w[i - 1] \o t[i]
    BY <1>3 DEF Together
  <1> HIDE DEF S
  <1>6. \A i \in 0..Len(s) : w[i] = v[i]
    <2> DEFINE D == {i \in 0..Len(s) : w[i] # v[i]}
    <2> SUFFICES ASSUME D # {} PROVE FALSE
      OBVIOUS
    <2>1. PICK i \in D : \A y \in D : i =< y
      <3>1. D \in SUBSET Nat
        BY <1>1
      <3> HIDE DEF D
      <3> QED
        BY <3>1, LeastNumber
    <2>2. i \in 0..Len(s) /\ w[i] # v[i]
      BY <2>1
    <2>3. i # 0 /\ i \in 1..Len(s) /\ i \in 1..Len(t) /\ i - 1 \in 0..Len(s) /\ i - 1 < i
      <3>1. i # 0
        BY <1>4, <1>5, <2>2
      <3> QED
        BY <1>1, <2>2, <3>1
    <2>4. w[i - 1] = v[i - 1]
      <3>1. i - 1 \notin D
        <4> HIDE DEF D
        <4> QED
          BY <1>1, <2>1, <2>2, <2>3
      <3> QED
        BY <2>3, <3>1
    <2>5. w[i] = w[i - 1] \o t[i] /\ v[i] = v[i - 1] \o s[i] /\ t[i] = s[i]
      BY <1>1, <1>4, <1>5, <2>3, Zenon
    <2> QED
      BY <2>2, <2>4, <2>5, Zenon
  <1>7. Len(s) \in 0..Len(s) /\ Len(t) \in 1..Len(t) /\ Len(t) - 1 = Len(s)
    BY <1>1
  <1>8. v[Len(s)] \in S
    BY <1>4, <1>7
  <1>9. w[Len(t)] = w[Len(s)] \o x /\ w[Len(s)] = v[Len(s)]
    <2>1. w[Len(t)] = w[Len(t) - 1] \o t[Len(t)]
      BY <1>5, <1>7, Zenon
    <2>2. t[Len(t)] = x
      BY <1>1
    <2> QED
      BY <1>6, <1>7, <2>1, <2>2, Zenon
  <1> QED
    BY <1>2, <1>3, <1>8, <1>9, Zenon DEF t, S

\* No sequences put together are empty.
LEMMA FlattenNothing ==
    Http!FlattenSeq(<<>>) = <<>>
  BY DEF Http!FlattenSeq

\* How many of the parts are requests.
Heads(s) ==
    LET count[i \in 0..Len(s)] ==
          IF i = 0 THEN 0 ELSE count[i - 1] + IF s[i][1] = "request" THEN 1 ELSE 0
    IN  count[Len(s)]

One(piece) == IF piece[1] = "request" THEN 1 ELSE 0

Tally(s, v) ==
    /\ v \in [0..Len(s) -> Int] /\ v[0] = 0
    /\ \A i \in 1..Len(s) : v[i] = v[i - 1] + One(s[i])

\* The number of requests is the last of those of the beginnings.
LEMMA HeadsDefined ==
    ASSUME NEW X, NEW s \in Seq(X)
    PROVE  \E v : Tally(s, v) /\ Heads(s) = v[Len(s)]
  <1> DEFINE Basic == {0}
             p == [n \in Nat |-> IF n = 0 THEN 0 ELSE n - 1]
             base == [n \in Nat |-> 0]
             last_(n) == IF n \in 1..Len(s) THEN One(s[n]) ELSE 0
             g == [x \in Nat \X Int |-> x[2] + last_(x[1])]
  <1>0. Len(s) \in Nat
    OBVIOUS
  <1>1. \A n \in Nat : last_(n) \in Int
    BY DEF One
  <1>2. p \in [Nat -> Nat] /\ \A n \in Nat : n # 0 => p[n] = n - 1
    OBVIOUS
  <1>3. base \in [Nat -> Int] /\ \A n \in Nat : base[n] = 0
    OBVIOUS
  <1>4. /\ g \in [Nat \X Int -> Int]
        /\ \A n \in Nat : \A k \in Int : g[<<n, k>>] = k + last_(n)
    <2> HIDE DEF last_
    <2> QED
      BY <1>1, SMTT(30)
  <1>5. \A n \in Nat : n \in Basic \/ p[n] < n
    BY <1>2
  <1>6. \A n \in Nat : n \in Basic <=> n = 0
    OBVIOUS
  <1> HIDE DEF Basic, p, base, g
  <1>7. PICK f : Solves(f, Int, Basic, p, base, g)
    <2>1. Founded(Int, Basic, p, base, g)
      BY <1>2, <1>3, <1>4, <1>5 DEF Founded
    <2> QED
      BY <2>1, Recursion
  <1>8. /\ f \in [Nat -> Int]
        /\ \A n \in Nat : f[n] = IF n \in Basic THEN base[n] ELSE g[<<n, f[p[n]]>>]
    BY <1>7 DEF Solves
  <1> HIDE <1>7
  <1>9. f[0] = 0
    BY <1>3, <1>6, <1>8
  <1>10. ASSUME NEW i \in 1..Len(s) PROVE f[i] = f[i - 1] + One(s[i])
    <2>1. i \in Nat /\ i # 0 /\ p[i] = i - 1 /\ i - 1 \in Nat
      BY <1>0, <1>2
    <2>2. f[i] = g[<<i, f[i - 1]>>]
      BY <1>6, <1>8, <2>1
    <2>3. last_(i) = One(s[i])
      OBVIOUS
    <2> HIDE DEF last_
    <2> QED
      BY <1>4, <1>8, <2>1, <2>2, <2>3
  <1> HIDE DEF last_
  <1> DEFINE u == [i \in 0..Len(s) |-> f[i]]
  <1>11. /\ u \in [0..Len(s) -> Int] /\ u[0] = 0 /\ u[Len(s)] = f[Len(s)]
         /\ \A i \in 0..Len(s) : u[i] = f[i]
    BY <1>0, <1>8, <1>9
  <1>12. u = [i \in 0..Len(s) |-> IF i = 0 THEN 0 ELSE u[i - 1] + One(s[i])]
    <2> SUFFICES ASSUME NEW i \in 0..Len(s)
                 PROVE  f[i] = IF i = 0 THEN 0 ELSE u[i - 1] + One(s[i])
      OBVIOUS
    <2>1. CASE i = 0
      BY <1>9, <2>1
    <2>2. CASE i # 0
      <3>1. i \in 1..Len(s) /\ i - 1 \in 0..Len(s)
        BY <1>0, <2>2
      <3> HIDE DEF u
      <3> QED
        BY <1>10, <1>11, <2>2, <3>1
    <2> QED
      BY <2>1, <2>2
  <1> HIDE DEF u
  <1> DEFINE v == CHOOSE v : v = [i \in 0..Len(s) |-> IF i = 0 THEN 0 ELSE v[i - 1] + One(s[i])]
  <1>13. v = [i \in 0..Len(s) |-> IF i = 0 THEN 0 ELSE v[i - 1] + One(s[i])]
    BY <1>12
  <1>14. Heads(s) = v[Len(s)]
    BY DEF Heads, One
  <1> HIDE DEF v
  <1>15. \A i \in 0..Len(s) : v[i] = u[i]
    <2> DEFINE D == {i \in 0..Len(s) : v[i] # u[i]}
    <2> SUFFICES ASSUME D # {} PROVE FALSE
      OBVIOUS
    <2>1. PICK i \in D : \A x \in D : i =< x
      <3>1. D \in SUBSET Nat
        BY <1>0
      <3> HIDE DEF D
      <3> QED
        BY <3>1, LeastNumber
    <2>2. i \in 0..Len(s) /\ v[i] # u[i]
      BY <2>1
    <2>3. /\ u[i] = IF i = 0 THEN 0 ELSE u[i - 1] + One(s[i])
          /\ v[i] = IF i = 0 THEN 0 ELSE v[i - 1] + One(s[i])
      BY <1>12, <1>13, <2>2
    <2>4. i # 0 /\ i - 1 \in 0..Len(s) /\ i - 1 < i
      BY <1>0, <2>2, <2>3
    <2>5. v[i - 1] = u[i - 1]
      <3>1. i - 1 \notin D
        <4> HIDE DEF D
        <4> QED
          BY <1>0, <2>1, <2>2, <2>4
      <3> QED
        BY <2>4, <3>1
    <2> QED
      BY <2>2, <2>3, <2>4, <2>5
  <1>16. Tally(s, u)
    <2>1. ASSUME NEW i \in 1..Len(s) PROVE u[i] = u[i - 1] + One(s[i])
      <3>1. i \in 0..Len(s) /\ i - 1 \in 0..Len(s)
        BY <1>0
      <3> QED
        BY <1>10, <1>11, <3>1
    <2> QED
      BY <1>11, <2>1 DEF Tally
  <1>17. Len(s) \in 0..Len(s)
    BY <1>0
  <1> QED
    BY <1>14, <1>15, <1>16, <1>17

\* It is what the coroutine is asked about.
LEMMA RequestsAreHeads ==
    Http!Requests = Heads(read) /\ Http!Requests' = Heads(read')
  BY DEF Http!Requests, Heads

\* One part more is a request more, or none.
LEMMA HeadsAppended ==
    ASSUME NEW X, NEW s \in Seq(X), NEW d \in X
    PROVE  Heads(s) \in Int /\ Heads(Append(s, d)) = Heads(s) + One(d)
  <1>1. PICK v : Tally(s, v) /\ Heads(s) = v[Len(s)]
    BY HeadsDefined
  <1> DEFINE t == Append(s, d)
  <1>2. /\ t \in Seq(X) /\ Len(s) \in Nat /\ Len(t) = Len(s) + 1
        /\ t[Len(s) + 1] = d /\ \A i \in 1..Len(s) : t[i] = s[i]
    OBVIOUS
  <1> HIDE DEF t
  <1>3. PICK w : Tally(t, w) /\ Heads(t) = w[Len(t)]
    BY <1>2, HeadsDefined
  <1>4. /\ v[0] = 0 /\ \A i \in 1..Len(s) : v[i] = v[i - 1] + One(s[i])
        /\ w[0] = 0 /\ \A i \in 1..Len(t) : w[i] = w[i - 1] + One(t[i])
    BY <1>1, <1>3 DEF Tally
  <1>5. \A i \in 0..Len(s) : w[i] = v[i]
    <2> DEFINE D == {i \in 0..Len(s) : w[i] # v[i]}
    <2> SUFFICES ASSUME D # {} PROVE FALSE
      OBVIOUS
    <2>1. PICK i \in D : \A x \in D : i =< x
      <3>1. D \in SUBSET Nat
        BY <1>2
      <3> HIDE DEF D
      <3> QED
        BY <3>1, LeastNumber
    <2>2. i \in 0..Len(s) /\ w[i] # v[i] /\ i # 0
      BY <1>4, <2>1
    <2>3. i \in 1..Len(s) /\ i \in 1..Len(t) /\ i - 1 \in 0..Len(s) /\ i - 1 < i
      BY <1>2, <2>2
    <2>4. w[i - 1] = v[i - 1]
      <3>1. i - 1 \notin D
        <4> HIDE DEF D
        <4> QED
          BY <1>2, <2>1, <2>2, <2>3
      <3> QED
        BY <2>3, <3>1
    <2>5. v[i] = v[i - 1] + One(s[i]) /\ w[i] = w[i - 1] + One(t[i])
      BY <1>4, <2>3
    <2> QED
      BY <1>2, <2>2, <2>3, <2>4, <2>5
  <1>6. w[Len(s) + 1] = w[Len(s)] + One(d) /\ w[Len(s)] = v[Len(s)]
    <2>1. Len(s) + 1 \in 1..Len(t) /\ Len(s) \in 0..Len(s) /\ (Len(s) + 1) - 1 = Len(s)
      BY <1>2
    <2> QED
      BY <1>2, <1>4, <1>5, <2>1
  <1>7. Heads(t) = Heads(s) + One(d)
    BY <1>1, <1>2, <1>3, <1>6
  <1>8. Heads(s) \in Int
    <2>1. Len(s) \in 0..Len(s)
      BY <1>2
    <2> QED
      BY <1>1, <2>1 DEF Tally
  <1> QED
    BY <1>7, <1>8 DEF t

\* Without parts there is no request.
LEMMA HeadsNothing ==
    Heads(<<>>) = 0
  <1>1. <<>> \in Seq({0}) /\ Len(<<>>) = 0
    OBVIOUS
  <1>2. PICK v : Tally(<<>>, v) /\ Heads(<<>>) = v[Len(<<>>)]
    BY <1>1, HeadsDefined
  <1> QED
    BY <1>1, <1>2 DEF Tally

\* A sequence that agrees with another on all its places but one more.
LEMMA Extended ==
    ASSUME NEW T, NEW n \in Nat, NEW f \in [1..n -> T], NEW y \in T, NEW g \in [1..(n + 1) -> T],
           \A i \in 1..n : g[i] = f[i], g[n + 1] = y
    PROVE  f \in Seq(T) /\ g = Append(f, y)
  <1>1. f \in Seq(T) /\ Len(f) = n /\ g \in Seq(T) /\ Len(g) = n + 1
    OBVIOUS
  <1> DEFINE h == Append(f, y)
  <1>2. /\ h \in Seq(T) /\ Len(h) = n + 1 /\ h[n + 1] = y /\ \A i \in 1..n : h[i] = f[i]
    BY <1>1
  <1> HIDE DEF h
  <1>3. ASSUME NEW i \in 1..(n + 1) PROVE g[i] = h[i]
    <2>1. i \in 1..n \/ i = n + 1
      OBVIOUS
    <2> QED
      BY <1>2, <2>1
  <1>4. g = h
    BY <1>1, <1>2, <1>3, SameSequences
  <1> QED
    BY <1>1, <1>4 DEF h

\* A part is a request or content, and its text.
Kinds == {"request", "content"}
ReadParts == Kinds \X Seq(Characters)

\* The characters of a part, with what each is read as.
Labelled(piece) == [j \in DOMAIN Http!Text(piece) |-> <<piece[1], Http!Text(piece)[j]>>]

\* A part has as many labels as characters, one for each.
LEMMA LabelledLength ==
    ASSUME NEW piece \in ReadParts
    PROVE  /\ Labelled(piece) \in Seq(Kinds \X Characters) /\ Len(Labelled(piece)) = Len(piece[2])
           /\ \A j \in 1..Len(piece[2]) : Labelled(piece)[j] = <<piece[1], piece[2][j]>>
  <1>1. piece[1] \in Kinds /\ piece[2] \in Seq(Characters)
    BY DEF ReadParts
  <1> DEFINE t == piece[2]  k == piece[1]
  <1>2. t \in Seq(Characters) /\ DOMAIN t = 1..Len(t) /\ Len(t) \in Nat /\ k \in Kinds
        /\ \A j \in 1..Len(t) : t[j] \in Characters
    BY <1>1
  <1> HIDE DEF t, k
  <1> DEFINE l == [j \in DOMAIN t |-> <<k, t[j]>>]
  <1>3. l \in [1..Len(t) -> Kinds \X Characters]
    BY <1>2
  <1>4. l = Labelled(piece)
    BY DEF Labelled, Http!Text, t, k
  <1>6. \A j \in 1..Len(t) : l[j] = <<k, t[j]>>
    BY <1>2
  <1> HIDE DEF l
  <1>5. l \in Seq(Kinds \X Characters) /\ Len(l) = Len(t)
    BY <1>2, <1>3
  <1> QED
    BY <1>4, <1>5, <1>6 DEF t, k

\* How many characters the parts have.
Count(parts) == Len(Http!Labels(parts))

\* The labels of one part more come after those of the others.
LEMMA LabelsAppended ==
    ASSUME NEW parts \in Seq(ReadParts), NEW piece \in ReadParts
    PROVE  /\ Http!Labels(parts) \in Seq(Kinds \X Characters)
           /\ Http!Labels(Append(parts, piece)) = Http!Labels(parts) \o Labelled(piece)
  <1> DEFINE n == Len(parts)
             T == Seq(Kinds \X Characters)
             f == [i \in DOMAIN parts |-> Labelled(parts[i])]
             more == Append(parts, piece)
             g == [i \in DOMAIN more |-> Labelled(more[i])]
             y == Labelled(piece)
  <1>1. /\ n \in Nat /\ DOMAIN parts = 1..n /\ DOMAIN more = 1..(n + 1)
        /\ more[n + 1] = piece /\ \A i \in 1..n : more[i] = parts[i] /\ parts[i] \in ReadParts
    OBVIOUS
  <1> HIDE DEF n, more
  <1>2. \A p \in ReadParts : Labelled(p) \in T
    BY LabelledLength
  <1> HIDE DEF T
  <1>3. /\ f \in [1..n -> T] /\ g \in [1..(n + 1) -> T] /\ y \in T
        /\ (\A i \in 1..n : g[i] = f[i]) /\ g[n + 1] = y
    <2>1. f \in [1..n -> T] /\ y \in T
      BY <1>1, <1>2
    <2>2. \A i \in 1..(n + 1) : more[i] \in ReadParts
      BY <1>1
    <2>3. g \in [1..(n + 1) -> T]
      BY <1>1, <1>2, <2>2
    <2>4. (\A i \in 1..n : g[i] = f[i]) /\ g[n + 1] = y
      BY <1>1
    <2> QED
      BY <2>1, <2>3, <2>4
  <1>4. Http!Labels(parts) = Http!FlattenSeq(f) /\ Http!Labels(more) = Http!FlattenSeq(g)
    BY DEF Http!Labels, Labelled
  <1> HIDE DEF f, g
  <1>5. f \in Seq(T) /\ g = Append(f, y)
    BY <1>1, <1>3, Extended
  <1>6. y \in T
    BY <1>3
  <1> HIDE DEF y
  <1>7. /\ Http!FlattenSeq(f) \in Seq(Kinds \X Characters)
        /\ Http!FlattenSeq(g) = Http!FlattenSeq(f) \o y
    BY <1>5, <1>6, FlattenAppended DEF T
  <1> QED
    BY <1>4, <1>7 DEF more, y

\* One part more has as many characters more as its text.
LEMMA CountAppended ==
    ASSUME NEW parts \in Seq(ReadParts), NEW piece \in ReadParts
    PROVE  Count(parts) \in Nat /\ Count(Append(parts, piece)) = Count(parts) + Len(piece[2])
  <1> DEFINE a == Http!Labels(parts)
             c == Http!Labels(Append(parts, piece))
             y == Labelled(piece)
  <1>1. a \in Seq(Kinds \X Characters) /\ c = a \o y
    BY LabelsAppended
  <1>2. y \in Seq(Kinds \X Characters) /\ Len(y) = Len(piece[2])
    BY LabelledLength
  <1> HIDE DEF a, y
  <1> DEFINE T == Kinds \X Characters
  <1>3. a \in Seq(T) /\ y \in Seq(T)
    BY <1>1, <1>2
  <1> HIDE DEF T
  <1>4. Len(a \o y) = Len(a) + Len(y)
    BY <1>3, Joined, Zenon
  <1>5. Len(a) \in Nat
    BY <1>3
  <1> QED
    BY <1>1, <1>2, <1>4, <1>5 DEF Count, a

\* The text of the parts.
TextOf(parts) == Http!FlattenSeq([i \in DOMAIN parts |-> Http!Text(parts[i])])

\* And so does its text.
LEMMA TextAppended ==
    ASSUME NEW parts \in Seq(ReadParts), NEW piece \in ReadParts
    PROVE  TextOf(parts) \in Seq(Characters) /\ TextOf(Append(parts, piece)) = TextOf(parts) \o piece[2]
  <1> DEFINE n == Len(parts)
             T == Seq(Characters)
             f == [i \in DOMAIN parts |-> Http!Text(parts[i])]
             more == Append(parts, piece)
             g == [i \in DOMAIN more |-> Http!Text(more[i])]
             y == piece[2]
  <1>1. /\ n \in Nat /\ DOMAIN parts = 1..n /\ DOMAIN more = 1..(n + 1)
        /\ more[n + 1] = piece /\ \A i \in 1..n : more[i] = parts[i] /\ parts[i] \in ReadParts
    OBVIOUS
  <1> HIDE DEF n, more
  <1>2. \A p \in ReadParts : Http!Text(p) \in T /\ Http!Text(p) = p[2]
    BY DEF Http!Text, ReadParts
  <1> HIDE DEF T
  <1>3. /\ f \in [1..n -> T] /\ g \in [1..(n + 1) -> T] /\ y \in T
        /\ (\A i \in 1..n : g[i] = f[i]) /\ g[n + 1] = y
    <2>1. f \in [1..n -> T] /\ y \in T
      BY <1>1, <1>2
    <2>2. \A i \in 1..(n + 1) : more[i] \in ReadParts
      BY <1>1
    <2>3. g \in [1..(n + 1) -> T]
      BY <1>1, <1>2, <2>2
    <2>4. (\A i \in 1..n : g[i] = f[i]) /\ g[n + 1] = y
      BY <1>1, <1>2
    <2> QED
      BY <2>1, <2>3, <2>4
  <1>4. TextOf(parts) = Http!FlattenSeq(f) /\ TextOf(more) = Http!FlattenSeq(g)
    BY DEF TextOf
  <1> HIDE DEF f, g, y
  <1>5. f \in Seq(T) /\ g = Append(f, y) /\ y \in T
    BY <1>1, <1>3, Extended
  <1>6. /\ Http!FlattenSeq(f) \in Seq(Characters)
        /\ Http!FlattenSeq(g) = Http!FlattenSeq(f) \o y
    BY <1>5, FlattenAppended DEF T
  <1> QED
    BY <1>4, <1>6 DEF more, y

\* The messages whose headers can be found and whose bodies have a length.
HttpMessage == [mode : {"transfer", "chunked", "passthrough"}, lines : Seq(STRING),
            end : {CRLF, LF}, body : Seq(STRING)]
OfLength == {m \in HttpMessage : m.mode = "transfer" /\ Http!Plain(m)}

TheRequest(m) == <<"request", Http!Header(m)>>
TheContent(m) == <<"content", m.body>>

\* How long the header of a message is, and its body, and all of its text.
Top(m) == Len(Http!Header(m))
Size(m) == Len(m.body)
Whole(m) == Http!Header(m) \o m.body

\* The ends of a header are texts of at least two characters.
LEMMA EndsOfHeader ==
    /\ CRLF = Http!CRLF /\ LF = Http!LF /\ CRLF # LF
    /\ Http!CRLF \in Seq(Characters) /\ Len(Http!CRLF) = 4
    /\ Http!LF \in Seq(Characters) /\ Len(Http!LF) = 2
  <1>1. "r" \in Characters /\ "n" \in Characters
    BY DEF Characters
  <1>2. <<"r", "n", "r", "n">> \in Seq(Characters) /\ Len(<<"r", "n", "r", "n">>) = 4
    BY <1>1
  <1>3. <<"n", "n">> \in Seq(Characters) /\ Len(<<"n", "n">>) = 2
    BY <1>1
  <1>4. <<"r", "n", "r", "n">> # <<"n", "n">>
    BY <1>2, <1>3
  <1> QED
    BY <1>2, <1>3, <1>4 DEF CRLF, LF, Http!CRLF, Http!LF

\* Characters of strings are characters.
LEMMA TextsOfStrings == \A x \in Seq(STRING) : x \in Seq(Characters)
  <1>1. \A c \in STRING : c \in Characters
    BY DEF Characters
  <1>2. ASSUME NEW S, NEW T, \A c \in S : c \in T PROVE \A x \in Seq(S) : x \in Seq(T)
    BY <1>2
  <1> QED
    BY <1>1, <1>2, Zenon

\* The header of a message has a line and an end, which is one of two.
LEMMA MessageHeader ==
    ASSUME NEW m \in OfLength
    PROVE  /\ m.lines \in Seq(Characters) /\ m.end \in Seq(Characters)
           /\ m.body \in Seq(Characters) /\ Size(m) \in Nat
           /\ m.end = Http!CRLF \/ m.end = Http!LF
           /\ Len(m.end) \in {2, 4} /\ Len(m.lines) \in Nat \ {0}
           /\ m.mode = "transfer" /\ Http!Plain(m)
  <1>1. /\ m.mode = "transfer" /\ Http!Plain(m) /\ m.lines \in Seq(STRING)
        /\ (m.end = CRLF \/ m.end = LF) /\ m.body \in Seq(STRING)
    BY DEF OfLength, HttpMessage
  <1>2. m.lines \in Seq(Characters) /\ m.body \in Seq(Characters)
    BY <1>1, TextsOfStrings
  <1>3. m.end = Http!CRLF \/ m.end = Http!LF
    BY <1>1, EndsOfHeader
  <1>4. m.end \in Seq(Characters) /\ Len(m.end) \in {2, 4}
    BY <1>3, EndsOfHeader
  <1>5. m.lines # <<>>
    BY <1>1 DEF Http!Plain
  <1>6. Len(m.lines) \in Nat \ {0}
    BY <1>2, <1>5
  <1>7. Size(m) \in Nat
    BY <1>2 DEF Size
  <1> QED
    BY <1>1, <1>2, <1>3, <1>4, <1>6, <1>7

\* And its text is the lines and the end.
LEMMA HeaderText ==
    ASSUME NEW m \in OfLength
    PROVE  /\ Http!Header(m) \in Seq(Characters) /\ Top(m) \in Nat
           /\ Top(m) = Len(m.lines) + Len(m.end) /\ Top(m) > 0
           /\ \A j \in 1..Len(m.lines) : Http!Header(m)[j] = m.lines[j]
           /\ \A j \in 1..Len(m.end) : Http!Header(m)[j + Len(m.lines)] = m.end[j]
  <1>1. /\ m.lines \in Seq(Characters) /\ m.end \in Seq(Characters)
        /\ Len(m.end) \in {2, 4} /\ Len(m.lines) \in Nat \ {0}
    BY MessageHeader
  <1>2. Http!Header(m) = m.lines \o m.end
    BY DEF Http!Header
  <1> DEFINE x == m.lines
             y == m.end
             z == Http!Header(m)
  <1>0. /\ x \in Seq(Characters) /\ y \in Seq(Characters)
        /\ Len(y) \in {2, 4} /\ Len(x) \in Nat \ {0} /\ z = x \o y
    BY <1>1, <1>2
  <1>t. Top(m) = Len(z)
    BY DEF Top
  <1> HIDE DEF x, y, z
  <1>3. /\ z \in Seq(Characters) /\ Len(z) = Len(x) + Len(y)
        /\ \A j \in 1..Len(x) : z[j] = x[j]
        /\ \A j \in 1..Len(y) : z[j + Len(x)] = y[j]
    BY <1>0, Joined
  <1>4. Len(x) + Len(y) \in Nat /\ Len(x) + Len(y) > 0
    <2> DEFINE n == Len(x)
               l == Len(y)
    <2>1. n \in Nat \ {0} /\ l \in {2, 4}
      BY <1>0
    <2> HIDE DEF n, l
    <2>2. n + l \in Nat /\ n + l > 0
      BY <2>1
    <2> QED
      BY <2>2 DEF n, l
  <1>5. Top(m) \in Nat /\ Top(m) > 0 /\ Top(m) = Len(x) + Len(y)
    BY <1>3, <1>4, <1>t
  <1> QED
    BY <1>3, <1>5 DEF x, y, z

\* The text of a message is its header and its body.
LEMMA WholeText ==
    ASSUME NEW m \in OfLength
    PROVE  /\ Whole(m) \in Seq(Characters) /\ Len(Whole(m)) = Top(m) + Size(m)
           /\ \A j \in 1..Top(m) : Whole(m)[j] = Http!Header(m)[j]
           /\ \A j \in 1..Size(m) : Whole(m)[j + Top(m)] = m.body[j]
  <1>1. Http!Header(m) \in Seq(Characters) /\ m.body \in Seq(Characters)
    BY HeaderText, MessageHeader
  <1> DEFINE x == Http!Header(m)
             y == m.body
             z == Whole(m)
  <1>2. z = x \o y /\ Top(m) = Len(x) /\ Size(m) = Len(y)
    BY DEF Whole, Top, Size
  <1> HIDE DEF x, y, z
  <1>3. /\ z \in Seq(Characters) /\ Len(z) = Len(x) + Len(y)
        /\ \A j \in 1..Len(x) : z[j] = x[j]
        /\ \A j \in 1..Len(y) : z[j + Len(x)] = y[j]
    BY <1>1, <1>2, Joined DEF x, y
  <1> QED
    BY <1>2, <1>3 DEF x, y, z

\* A message of a length is a request and content.
LEMMA MessageParts ==
    ASSUME NEW m \in OfLength
    PROVE  /\ Http!Parts(m) = <<TheRequest(m), TheContent(m)>>
           /\ TheRequest(m) \in ReadParts /\ TheContent(m) \in ReadParts
           /\ Top(m) \in Nat /\ Top(m) > 0 /\ Size(m) \in Nat
           /\ TheRequest(m)[2] = Http!Header(m) /\ Len(TheRequest(m)[2]) = Top(m)
           /\ TheContent(m)[2] = m.body /\ Len(TheContent(m)[2]) = Size(m)
  <1>1. /\ Http!Header(m) \in Seq(Characters) /\ m.body \in Seq(Characters)
        /\ Top(m) \in Nat /\ Top(m) > 0 /\ Size(m) \in Nat
    BY HeaderText, MessageHeader
  <1>2. Http!Parts(m) = <<TheRequest(m), TheContent(m)>>
    BY DEF Http!Parts, TheRequest, TheContent
  <1>3. TheRequest(m) \in ReadParts /\ TheRequest(m)[2] = Http!Header(m)
    BY <1>1 DEF ReadParts, Kinds, TheRequest
  <1>4. TheContent(m) \in ReadParts /\ TheContent(m)[2] = m.body
    BY <1>1 DEF ReadParts, Kinds, TheContent
  <1> QED
    BY <1>1, <1>2, <1>3, <1>4 DEF Top, Size

\* One message more is a request and content more.
LEMMA ExpectedAppended ==
    ASSUME NEW ms \in Seq(OfLength), NEW m \in OfLength
    PROVE  /\ Http!Expected(ms) \in Seq(ReadParts)
           /\ Http!Expected(Append(ms, m))
                = Append(Append(Http!Expected(ms), TheRequest(m)), TheContent(m))
  <1> DEFINE n == Len(ms)
             T == Seq(ReadParts)
             f == [i \in DOMAIN ms |-> Http!Parts(ms[i])]
             more == Append(ms, m)
             g == [i \in DOMAIN more |-> Http!Parts(more[i])]
             y == Http!Parts(m)
  <1>1. /\ n \in Nat /\ DOMAIN ms = 1..n /\ DOMAIN more = 1..(n + 1)
        /\ more[n + 1] = m /\ \A i \in 1..n : more[i] = ms[i] /\ ms[i] \in OfLength
    OBVIOUS
  <1> HIDE DEF n, more
  <1>2. \A p \in OfLength : Http!Parts(p) \in T
    <2> SUFFICES ASSUME NEW p \in OfLength PROVE Http!Parts(p) \in T
      OBVIOUS
    <2>1. Http!Parts(p) = <<TheRequest(p), TheContent(p)>>
      BY MessageParts
    <2>2. TheRequest(p) \in ReadParts /\ TheContent(p) \in ReadParts
      BY MessageParts
    <2> QED
      BY <2>1, <2>2
  <1> HIDE DEF T
  <1>3. /\ f \in [1..n -> T] /\ g \in [1..(n + 1) -> T] /\ y \in T
        /\ (\A i \in 1..n : g[i] = f[i]) /\ g[n + 1] = y
    <2>1. f \in [1..n -> T] /\ y \in T
      BY <1>1, <1>2
    <2>2. \A i \in 1..(n + 1) : more[i] \in OfLength
      BY <1>1
    <2>3. g \in [1..(n + 1) -> T]
      BY <1>1, <1>2, <2>2
    <2>4. (\A i \in 1..n : g[i] = f[i]) /\ g[n + 1] = y
      BY <1>1
    <2> QED
      BY <2>1, <2>3, <2>4
  <1>4. Http!Expected(ms) = Http!FlattenSeq(f) /\ Http!Expected(more) = Http!FlattenSeq(g)
    BY DEF Http!Expected
  <1> HIDE DEF f, g, y
  <1>5. f \in Seq(T) /\ g = Append(f, y) /\ y \in T
    BY <1>1, <1>3, Extended
  <1>6. /\ Http!FlattenSeq(f) \in Seq(ReadParts)
        /\ Http!FlattenSeq(g) = Http!FlattenSeq(f) \o y
    BY <1>5, FlattenAppended DEF T
  <1>7. ASSUME NEW s \in Seq(ReadParts), NEW a \in ReadParts, NEW b \in ReadParts
        PROVE  s \o <<a, b>> = Append(Append(s, a), b)
    OBVIOUS
  <1>8. y = <<TheRequest(m), TheContent(m)>> /\ TheRequest(m) \in ReadParts /\ TheContent(m) \in ReadParts
    BY MessageParts DEF y
  <1> QED
    BY <1>4, <1>6, <1>7, <1>8 DEF more
-----------------------------------------------------------------------------
(* Where the messages are in the text that the client sends.               *)

\* A text and what each of its characters is read as.
Tags(all, w) ==
    all \in Seq(Kinds \X Characters) /\ w \in Seq(Characters) /\ Len(all) = Len(w)

\* Both with one part more.
Tagging(all, w, piece, more, v) ==
    /\ Tags(more, v) /\ Len(v) = Len(w) + Len(piece[2])
    /\ \A j \in 1..Len(w) : more[j] = all[j] /\ v[j] = w[j]
    /\ \A j \in 1..Len(piece[2]) : more[Len(w) + j] = <<piece[1], v[Len(w) + j]>>

\* A part more has its text and its labels in the same places.
LEMMA TagsAppended ==
    ASSUME NEW all, NEW w, Tags(all, w), NEW piece \in ReadParts,
           NEW more, more = all \o Labelled(piece), NEW v, v = w \o piece[2]
    PROVE  Tagging(all, w, piece, more, v)
  <1> DEFINE T == Kinds \X Characters
             l == Labelled(piece)
             x == piece[2]
             k == piece[1]
             n == Len(w)
  <1>1. all \in Seq(T) /\ w \in Seq(Characters) /\ Len(all) = n /\ n \in Nat
    BY DEF Tags
  <1>2. x \in Seq(Characters) /\ Len(x) \in Nat
    BY DEF ReadParts
  <1>3. l \in Seq(T) /\ Len(l) = Len(x) /\ \A j \in 1..Len(x) : l[j] = <<k, x[j]>>
    BY LabelledLength
  <1>4. more = all \o l /\ v = w \o x
    OBVIOUS
  <1> HIDE DEF T, l, x, k
  <1>5. more \in Seq(T) /\ v \in Seq(Characters)
    BY <1>1, <1>2, <1>3, <1>4
  <1>6. Len(more) = n + Len(x) /\ Len(v) = n + Len(x)
    <2>1. Len(all \o l) = Len(all) + Len(l)
      BY <1>1, <1>3, Joined, Zenon
    <2>2. Len(w \o x) = Len(w) + Len(x)
      BY <1>1, <1>2, Joined, Zenon
    <2> QED
      BY <1>1, <1>3, <1>4, <2>1, <2>2, Zenon
  <1>7. \A j \in 1..n : more[j] = all[j] /\ v[j] = w[j]
    <2>1. \A j \in 1..Len(all) : (all \o l)[j] = all[j]
      BY <1>1, <1>3, Joined, ZenonT(40)
    <2>2. \A j \in 1..Len(w) : (w \o x)[j] = w[j]
      BY <1>1, <1>2, Joined, Zenon
    <2> QED
      BY <1>1, <1>4, <2>1, <2>2, Zenon
  <1>8. ASSUME NEW j \in 1..Len(x) PROVE more[n + j] = <<k, v[n + j]>>
    <2>0. j \in 1..Len(l)
      BY <1>3
    <2>1. \A i \in 1..Len(l) : (all \o l)[i + Len(all)] = l[i]
      BY <1>1, <1>3, Joined
    <2>2. \A i \in 1..Len(x) : (w \o x)[i + Len(w)] = x[i]
      BY <1>1, <1>2, Joined
    <2>3. j + n = n + j
      BY <1>1
    <2>4. more[n + j] = l[j] /\ v[n + j] = x[j]
      BY <1>1, <1>4, <2>0, <2>1, <2>2, <2>3, Zenon
    <2> QED
      BY <1>3, <2>4
  <1>9. Tags(more, v)
    BY <1>5, <1>6, Zenon DEF Tags, T
  <1> QED
    BY <1>6, <1>7, <1>8, <1>9, Zenon DEF Tagging, x, k

\* What the characters of the messages are read as: those of headers as a request, the
\* others as content.
Tagged(s, b, w) ==
    LET all == Http!Labels(Http!Expected(s))
    IN  /\ Tags(all, w)
        /\ \A i \in 1..Len(s) :
             /\ \A j \in 1..Top(s[i]) : all[b[i - 1] + j] = <<"request", w[b[i - 1] + j]>>
             /\ \A j \in (Top(s[i]) + 1)..(Top(s[i]) + Size(s[i])) :
                  all[b[i - 1] + j] = <<"content", w[b[i - 1] + j]>>

\* A text with labels, and one message more.
MessageTags(all, w, more, v, h, l) ==
    /\ Tags(more, v)
    /\ \A j \in 1..Len(w) : more[j] = all[j] /\ v[j] = w[j]
    /\ \A j \in 1..h : more[Len(w) + j] = <<"request", v[Len(w) + j]>>
    /\ \A j \in (h + 1)..(h + l) : more[Len(w) + j] = <<"content", v[Len(w) + j]>>

\* A message more has its text and its labels in the same places.
LEMMA MessageTagged ==
    ASSUME NEW s \in Seq(OfLength), NEW w, Tags(Http!Labels(Http!Expected(s)), w),
           NEW m \in OfLength, NEW v, v = (w \o TheRequest(m)[2]) \o TheContent(m)[2],
           NEW all, all = Http!Labels(Http!Expected(s)),
           NEW more, more = Http!Labels(Http!Expected(Append(s, m)))
    PROVE  MessageTags(all, w, more, v, Top(m), Size(m))
  <1> DEFINE R == TheRequest(m)
             E == Http!Expected(s)
             F == Append(E, R)
             u == w \o R[2]
             mid == Http!Labels(F)
             h == Top(m)
             l == Size(m)
             n == Len(w)
  <1>1. E \in Seq(ReadParts) /\ Http!Expected(Append(s, m)) = Append(F, TheContent(m))
    BY ExpectedAppended
  <1>2. /\ R \in ReadParts /\ TheContent(m) \in ReadParts /\ h \in Nat /\ l \in Nat
        /\ Len(R[2]) = h /\ Len(TheContent(m)[2]) = l
    BY MessageParts
  <1>3. R[1] = "request" /\ TheContent(m)[1] = "content"
    BY DEF TheRequest, TheContent
  <1>v. v = (w \o R[2]) \o TheContent(m)[2]
    OBVIOUS
  <1> HIDE DEF R
  <1>4. F \in Seq(ReadParts)
    BY <1>1, <1>2
  <1>5. mid = all \o Labelled(R)
    BY <1>1, <1>2, LabelsAppended
  <1>6. more = mid \o Labelled(TheContent(m))
    <2>1. more = Http!Labels(Append(F, TheContent(m)))
      BY <1>1
    <2> HIDE DEF F
    <2> QED
      BY <1>2, <1>4, <2>1, LabelsAppended
  <1>n. n \in Nat
    BY DEF Tags
  <1> HIDE DEF h, l, n, F
  <1>7. Tagging(all, w, R, mid, u)
    <2> HIDE DEF mid
    <2>1. Tags(all, w) /\ u = w \o R[2]
      OBVIOUS
    <2> HIDE DEF u
    <2> QED
      BY <1>2, <1>5, <2>1, TagsAppended
  <1> HIDE DEF mid
  <1>8. Tagging(mid, u, TheContent(m), more, v)
    <2>1. Tags(mid, u)
      BY <1>7 DEF Tagging
    <2>2. v = u \o TheContent(m)[2]
      BY <1>v
    <2> HIDE DEF u
    <2> QED
      BY <1>2, <1>6, <2>1, <2>2, TagsAppended
  <1> HIDE DEF u
  <1>9. /\ Len(u) = n + h /\ (\A j \in 1..n : mid[j] = all[j] /\ u[j] = w[j])
        /\ \A j \in 1..h : mid[n + j] = <<"request", u[n + j]>>
    BY <1>2, <1>3, <1>7 DEF Tagging, n
  <1>10. /\ Tags(more, v) /\ (\A j \in 1..(n + h) : more[j] = mid[j] /\ v[j] = u[j])
         /\ \A j \in 1..l : more[(n + h) + j] = <<"content", v[(n + h) + j]>>
    BY <1>2, <1>3, <1>8, <1>9 DEF Tagging
  <1>11. \A j \in 1..n : more[j] = all[j] /\ v[j] = w[j]
    <2>1. \A j \in 1..n : j \in 1..(n + h)
      BY <1>2, <1>n
    <2> QED
      BY <1>9, <1>10, <2>1
  <1>12. \A j \in 1..h : more[n + j] = <<"request", v[n + j]>>
    <2>1. \A j \in 1..h : n + j \in 1..(n + h)
      BY <1>2, <1>n
    <2> QED
      BY <1>9, <1>10, <2>1
  <1>13. \A j \in (h + 1)..(h + l) : more[n + j] = <<"content", v[n + j]>>
    <2>1. \A j \in (h + 1)..(h + l) : j - h \in 1..l /\ (n + h) + (j - h) = n + j
      BY <1>2, <1>n
    <2> QED
      BY <1>10, <2>1
  <1> QED
    BY <1>10, <1>11, <1>12, <1>13 DEF MessageTags, h, l, n

\* Where the messages of a client end in the text it sends, and what is in that text.
Frame(s, b, w) ==
    /\ s \in Seq(OfLength) /\ w \in Seq(Characters)
    /\ b \in [0..Len(s) -> Nat] /\ b[0] = 0 /\ Len(w) = b[Len(s)]
    /\ \A i \in 1..Len(s) :
         /\ b[i] = b[i - 1] + (Top(s[i]) + Size(s[i])) /\ b[i] =< Len(w)
         /\ \A j \in 1..(Top(s[i]) + Size(s[i])) : w[b[i - 1] + j] = Whole(s[i])[j]
    /\ \A i, k \in 0..Len(s) : i < k => b[i] < b[k]
    /\ Tagged(s, b, w)

\* A text and one message more.
Longer(v, w, m) ==
    /\ v \in Seq(Characters) /\ Len(v) = Len(w) + (Top(m) + Size(m))
    /\ \A j \in 1..Len(w) : v[j] = w[j]
    /\ \A j \in 1..(Top(m) + Size(m)) : v[Len(w) + j] = Whole(m)[j]

\* What a message more adds to the text.
LEMMA TextOfMore ==
    ASSUME NEW w \in Seq(Characters), NEW m \in OfLength,
           NEW v, v = (w \o TheRequest(m)[2]) \o TheContent(m)[2]
    PROVE  Longer(v, w, m)
  <1> DEFINE a == Http!Header(m)
             b == m.body
             u == w \o a
             n == Len(w)
             h == Top(m)
             l == Size(m)
             x == Whole(m)
  <1>1. /\ a \in Seq(Characters) /\ Len(a) = h /\ h \in Nat
        /\ b \in Seq(Characters) /\ Len(b) = l /\ l \in Nat
    BY MessageHeader, HeaderText DEF Top, Size
  <1>2. (\A j \in 1..h : x[j] = a[j]) /\ \A j \in 1..l : x[j + h] = b[j]
    BY WholeText
  <1>0. n \in Nat
    OBVIOUS
  <1>w. v = u \o b
    BY MessageParts
  <1> HIDE DEF a, b, h, l, x
  <1>3. /\ u \in Seq(Characters) /\ Len(u) = n + h
        /\ (\A j \in 1..n : u[j] = w[j]) /\ \A j \in 1..h : u[j + n] = a[j]
    <2>1. u \in Seq(Characters) /\ Len(u) = Len(w) + Len(a)
      BY <1>1, Joined, ZenonT(40)
    <2>2. (\A j \in 1..Len(w) : u[j] = w[j]) /\ \A j \in 1..Len(a) : u[j + Len(w)] = a[j]
      BY <1>1, Joined
    <2> HIDE DEF u
    <2> QED
      BY <1>1, <2>1, <2>2
  <1> HIDE DEF u, n
  <1>4. /\ v \in Seq(Characters) /\ Len(v) = (n + h) + l
        /\ (\A j \in 1..(n + h) : v[j] = u[j]) /\ \A j \in 1..l : v[j + (n + h)] = b[j]
    <2>1. v \in Seq(Characters) /\ Len(v) = Len(u) + Len(b)
      <3>1. u \in Seq(Characters) /\ b \in Seq(Characters)
        BY <1>1, <1>3
      <3>2. Len(u \o b) = Len(u) + Len(b) /\ u \o b \in Seq(Characters)
        BY <3>1, Joined, Zenon
      <3> QED
        BY <1>w, <3>2, Zenon
    <2>2. (\A j \in 1..Len(u) : v[j] = u[j]) /\ \A j \in 1..Len(b) : v[j + Len(u)] = b[j]
      BY <1>1, <1>3, <1>w, Joined, SMTT(30)
    <2> QED
      BY <1>1, <1>3, <2>1, <2>2
  <1>5. Len(v) = n + (h + l)
    BY <1>0, <1>1, <1>4
  <1>6. \A j \in 1..n : v[j] = w[j]
    <2>1. \A j \in 1..n : j \in 1..(n + h)
      BY <1>0, <1>1
    <2> QED
      BY <1>3, <1>4, <2>1
  <1>7. ASSUME NEW j \in 1..(h + l) PROVE v[n + j] = x[j]
    <2>1. CASE j \in 1..h
      <3>1. n + j \in 1..(n + h) /\ j + n = n + j
        BY <1>0, <1>1, <2>1
      <3>2. v[n + j] = u[n + j] /\ u[j + n] = a[j] /\ x[j] = a[j]
        BY <1>2, <1>3, <1>4, <2>1, <3>1
      <3> QED
        BY <3>1, <3>2
    <2>2. CASE j \notin 1..h
      <3> DEFINE k == j - h
      <3>1. k \in 1..l /\ k + h = j /\ k + (n + h) = n + j
        BY <1>0, <1>1, <2>2
      <3> HIDE DEF k
      <3>2. v[k + (n + h)] = b[k] /\ x[k + h] = b[k]
        BY <1>2, <1>4, <3>1
      <3> QED
        BY <3>1, <3>2
    <2> QED
      BY <2>1, <2>2
  <1> QED
    BY <1>4, <1>5, <1>6, <1>7 DEF n, h, l, x, Longer

\* The frame of a text and of one message more.
LEMMA FrameAdded ==
    ASSUME NEW s, NEW b, NEW w, Frame(s, b, w), NEW m \in OfLength,
           NEW v, v = (w \o TheRequest(m)[2]) \o TheContent(m)[2],
           NEW c, c = [i \in 0..(Len(s) + 1) |->
                         IF i =< Len(s) THEN b[i] ELSE Len(w) + (Top(m) + Size(m))]
    PROVE  Frame(Append(s, m), c, v)
  <1> DEFINE n == Len(s)
             t == Append(s, m)
             h == Top(m)
             l == Size(m)
             a == Len(w)
  <1>1. /\ s \in Seq(OfLength) /\ w \in Seq(Characters) /\ n \in Nat /\ a \in Nat
        /\ h \in Nat /\ h > 0 /\ l \in Nat
        /\ b \in [0..n -> Nat] /\ b[0] = 0 /\ a = b[n]
    BY MessageParts DEF Frame
  <1>2. /\ t \in Seq(OfLength) /\ Len(t) = n + 1 /\ t[n + 1] = m /\ \A i \in 1..n : t[i] = s[i]
    BY <1>1
  <1>3. /\ v \in Seq(Characters) /\ Len(v) = a + (h + l)
        /\ \A j \in 1..a : v[j] = w[j]
        /\ \A j \in 1..(h + l) : v[a + j] = Whole(m)[j]
    <2>0. w \in Seq(Characters)
      BY <1>1
    <2>1. Longer(v, w, m)
      BY <2>0, TextOfMore, Zenon
    <2> QED
      BY <2>1, Zenon DEF Longer
  <1>c. c = [i \in 0..(n + 1) |-> IF i =< n THEN b[i] ELSE a + (h + l)]
    OBVIOUS
  \* What the frame says of the messages that are there, with a size that is in the text.
  <1>f. ASSUME NEW i \in 1..n
        PROVE  /\ i \in 0..n /\ i - 1 \in 0..n /\ b[i] \in Nat /\ b[i - 1] \in Nat
               /\ Top(s[i]) \in Nat /\ Size(s[i]) \in Nat
               /\ b[i] = b[i - 1] + (Top(s[i]) + Size(s[i])) /\ b[i] =< a
               /\ \A j \in 1..(Top(s[i]) + Size(s[i])) : w[b[i - 1] + j] = Whole(s[i])[j]
    <2>1. i \in 0..n /\ i - 1 \in 0..n /\ s[i] \in OfLength
      BY <1>1
    <2>2. Top(s[i]) \in Nat /\ Size(s[i]) \in Nat
      BY <2>1, MessageParts
    <2>3. b[i] \in Nat /\ b[i - 1] \in Nat
      BY <1>1, <2>1
    <2> QED
      BY <2>1, <2>2, <2>3 DEF Frame
  <1>g. \A i, k \in 0..n : i < k => b[i] < b[k]
    BY DEF Frame
  <1>t. /\ Tags(Http!Labels(Http!Expected(s)), w)
        /\ \A i \in 1..n :
             /\ \A j \in 1..Top(s[i]) :
                  Http!Labels(Http!Expected(s))[b[i - 1] + j] = <<"request", w[b[i - 1] + j]>>
             /\ \A j \in (Top(s[i]) + 1)..(Top(s[i]) + Size(s[i])) :
                  Http!Labels(Http!Expected(s))[b[i - 1] + j] = <<"content", w[b[i - 1] + j]>>
    BY DEF Frame, Tagged
  <1> HIDE DEF n, t, h, l, a
  <1>4. /\ c \in [0..(n + 1) -> Nat] /\ c[n + 1] = a + (h + l) /\ \A i \in 0..n : c[i] = b[i]
    <2>2. a + (h + l) \in Nat
      BY <1>1
    <2>3. \A i \in 0..(n + 1) : i =< n => i \in 0..n
      BY <1>1
    <2>4. c \in [0..(n + 1) -> Nat]
      BY <1>1, <1>c, <2>2, <2>3
    <2>5. n + 1 \in 0..(n + 1) /\ ~(n + 1 =< n) /\ \A i \in 0..n : i \in 0..(n + 1) /\ i =< n
      BY <1>1
    <2> QED
      BY <1>c, <2>4, <2>5
  <1>5. ASSUME NEW i \in 1..(n + 1)
        PROVE  /\ c[i] = c[i - 1] + (Top(t[i]) + Size(t[i])) /\ c[i] =< Len(v)
               /\ \A j \in 1..(Top(t[i]) + Size(t[i])) : v[c[i - 1] + j] = Whole(t[i])[j]
    <2>1. CASE i = n + 1
      <3>1. i - 1 = n /\ n \in 0..n
        BY <1>1, <2>1
      <3>2. c[i - 1] = a /\ c[i] = a + (h + l) /\ t[i] = m
        BY <1>1, <1>2, <1>4, <2>1, <3>1
      <3>3. a + (h + l) =< a + (h + l)
        BY <1>1, SMTT(30)
      <3>4. Top(m) = h /\ Size(m) = l
        BY DEF h, l
      <3> QED
        BY <1>3, <3>2, <3>3, <3>4, ZenonT(40)
    <2>2. CASE i # n + 1
      <3>1. i \in 1..n
        BY <1>1, <2>2
      <3>2. c[i] = b[i] /\ c[i - 1] = b[i - 1] /\ t[i] = s[i]
        BY <1>2, <1>4, <1>f, <3>1
      <3> DEFINE x == b[i - 1]
                 z == Top(s[i]) + Size(s[i])
      <3>5. x \in Nat /\ z \in Nat /\ b[i] = x + z /\ x + z =< a
            /\ \A j \in 1..z : w[x + j] = Whole(s[i])[j]
        BY <1>f, <3>1
      <3>6. b[i] =< Len(v)
        <4> HIDE DEF x, z
        <4> QED
          BY <1>1, <1>3, <3>5
      <3> HIDE DEF x, z
      <3>7. \A j \in 1..z : x + j \in 1..a
        BY <1>1, <3>5
      <3>9. \A j \in 1..z : v[x + j] = Whole(s[i])[j]
        BY <1>3, <3>5, <3>7
      <3> QED
        BY <3>2, <3>5, <3>6, <3>9, ZenonT(40) DEF x, z
    <2> QED
      BY <2>1, <2>2
  <1>6. ASSUME NEW i \in 0..(n + 1), NEW k \in 0..(n + 1), i < k PROVE c[i] < c[k]
    <2>1. CASE k = n + 1
      <3>1. i \in 0..n /\ n \in 0..n
        BY <1>1, <1>6, <2>1
      <3>2. c[i] = b[i] /\ c[k] = a + (h + l) /\ b[i] \in Nat
        BY <1>1, <1>4, <2>1, <3>1
      <3>3. b[i] =< a
        <4>1. i < n => b[i] < b[n]
          BY <1>g, <3>1
        <4> QED
          BY <1>1, <3>1, <3>2, <4>1
      <3> QED
        BY <1>1, <3>2, <3>3, SMTT(30)
    <2>2. CASE k # n + 1
      <3>1. i \in 0..n /\ k \in 0..n
        BY <1>1, <1>6, <2>2
      <3>2. b[i] < b[k]
        BY <1>6, <1>g, <3>1
      <3> QED
        BY <1>4, <3>1, <3>2
    <2> QED
      BY <2>1, <2>2
  <1>7. c[0] = 0 /\ Len(v) = c[n + 1]
    <2>1. 0 \in 0..n
      BY <1>1, SMTT(30)
    <2> QED
      BY <1>1, <1>3, <1>4, <2>1
  <1>8. Tagged(t, c, v)
    <2> DEFINE all == Http!Labels(Http!Expected(s))
               more == Http!Labels(Http!Expected(t))
    <2>2. /\ Tags(more, v)
          /\ \A j \in 1..a : more[j] = all[j] /\ v[j] = w[j]
          /\ \A j \in 1..h : more[a + j] = <<"request", v[a + j]>>
          /\ \A j \in (h + 1)..(h + l) : more[a + j] = <<"content", v[a + j]>>
      <3>1. MessageTags(all, w, more, v, Top(m), Size(m))
        <4>1. Tags(Http!Labels(Http!Expected(s)), w)
          BY <1>t
        <4> QED
          BY <1>1, <4>1, MessageTagged, Zenon DEF t
      <3> QED
        BY <3>1 DEF MessageTags, a, h, l
    <2>t. \A i \in 1..n :
            /\ \A j \in 1..Top(s[i]) : all[b[i - 1] + j] = <<"request", w[b[i - 1] + j]>>
            /\ \A j \in (Top(s[i]) + 1)..(Top(s[i]) + Size(s[i])) :
                 all[b[i - 1] + j] = <<"content", w[b[i - 1] + j]>>
      BY <1>t
    <2> HIDE DEF all, more
    <2>3. ASSUME NEW i \in 1..(n + 1)
          PROVE  /\ \A j \in 1..Top(t[i]) : more[c[i - 1] + j] = <<"request", v[c[i - 1] + j]>>
                 /\ \A j \in (Top(t[i]) + 1)..(Top(t[i]) + Size(t[i])) :
                      more[c[i - 1] + j] = <<"content", v[c[i - 1] + j]>>
      <3>1. CASE i = n + 1
        <4>1. i - 1 = n /\ n \in 0..n
          BY <1>1, <3>1
        <4>2. c[i - 1] = a /\ Top(t[i]) = h /\ Size(t[i]) = l
          BY <1>1, <1>2, <1>4, <3>1, <4>1 DEF h, l
        <4> QED
          BY <2>2, <4>2, ZenonT(40)
      <3>2. CASE i # n + 1
        <4>1. i \in 1..n
          BY <1>1, <3>2
        <4>2. c[i - 1] = b[i - 1] /\ t[i] = s[i]
          BY <1>2, <1>4, <1>f, <4>1
        <4> DEFINE x == b[i - 1]
                   y == Top(s[i])
                   z == Size(s[i])
        <4>3. x \in Nat /\ y \in Nat /\ z \in Nat /\ x + (y + z) =< a
          BY <1>f, <4>1
        <4>5. /\ \A j \in 1..y : all[x + j] = <<"request", w[x + j]>>
              /\ \A j \in (y + 1)..(y + z) : all[x + j] = <<"content", w[x + j]>>
          BY <2>t, <4>1
        <4> HIDE DEF x, y, z
        <4>4. /\ \A j \in 1..y : x + j \in 1..a
              /\ \A j \in (y + 1)..(y + z) : x + j \in 1..a
          BY <1>1, <4>3
        <4>6. /\ \A j \in 1..y : more[x + j] = <<"request", v[x + j]>>
              /\ \A j \in (y + 1)..(y + z) : more[x + j] = <<"content", v[x + j]>>
          BY <2>2, <4>4, <4>5, Zenon
        <4> QED
          BY <4>2, <4>6, Zenon DEF x, y, z
      <3> QED
        BY <3>1, <3>2, ZenonT(40)
    <2> QED
      BY <1>2, <2>2, <2>3, ZenonT(40) DEF Tagged, more
  <1>9. Frame(t, c, v)
    BY <1>2, <1>3, <1>4, <1>5, <1>6, <1>7, <1>8, ZenonT(40) DEF Frame
  <1> QED
    BY <1>9 DEF t

\* Of no messages there is nothing to read.
LEMMA NothingExpected ==
    /\ Http!Expected(<<>>) = <<>> /\ TextOf(<<>>) = <<>>
    /\ Http!Labels(<<>>) = <<>> /\ Count(<<>>) = 0
  <1>0. DOMAIN <<>> = {}
    OBVIOUS
  <1>1. /\ [i \in DOMAIN <<>> |-> Http!Parts(<<>>[i])] = <<>>
        /\ [i \in DOMAIN <<>> |-> Http!Text(<<>>[i])] = <<>>
        /\ [i \in DOMAIN <<>> |-> Labelled(<<>>[i])] = <<>>
    BY <1>0
  <1>2. Http!Labels(<<>>) = Http!FlattenSeq([i \in DOMAIN <<>> |-> Labelled(<<>>[i])])
    BY DEF Http!Labels, Labelled
  <1>3. Http!Expected(<<>>) = <<>>
    BY <1>1, FlattenNothing DEF Http!Expected
  <1>4. TextOf(<<>>) = <<>>
    BY <1>1, FlattenNothing DEF TextOf
  <1>5. Http!Labels(<<>>) = <<>> /\ Len(<<>>) = 0
    BY <1>1, <1>2, FlattenNothing
  <1> QED
    BY <1>3, <1>4, <1>5 DEF Count

\* The first messages of a sequence, and one more.
LEMMA OneMore ==
    ASSUME NEW S, NEW s \in Seq(S), NEW p, p = [k \in 0..Len(s) |-> SubSeq(s, 1, k)]
    PROVE  /\ p[0] = <<>> /\ p[Len(s)] = s
           /\ \A k \in 0..Len(s) : p[k] \in Seq(S) /\ Len(p[k]) = k
           /\ \A k \in 1..Len(s) : s[k] \in S /\ p[k] = Append(p[k - 1], s[k])
  <1>0. Len(s) \in Nat
    OBVIOUS
  <1>1. ASSUME NEW k \in 0..Len(s)
        PROVE  p[k] \in Seq(S) /\ Len(p[k]) = k /\ \A j \in 1..k : p[k][j] = s[j]
    <2> DEFINE u == SubSeq(s, 1, k)
    <2>1. u \in Seq(S) /\ Len(u) = k /\ \A j \in 1..k : u[j] = s[j]
      BY Beginning
    <2> QED
      BY <2>1
  <1>n. 0 \in 0..Len(s) /\ Len(s) \in 0..Len(s)
    BY <1>0
  <1>2. p[0] = <<>>
    <2>1. p[0] \in Seq(S) /\ Len(p[0]) = 0
      BY <1>1, <1>n
    <2> QED
      BY <2>1
  <1>3. p[Len(s)] = s
    <2> DEFINE u == p[Len(s)]
    <2>1. u \in Seq(S) /\ Len(u) = Len(s) /\ \A j \in 1..Len(u) : u[j] = s[j]
      BY <1>1, <1>n
    <2> HIDE DEF u
    <2>2. u = s
      BY <2>1, SameSequences
    <2> QED
      BY <2>2 DEF u
  <1>4. ASSUME NEW k \in 1..Len(s) PROVE s[k] \in S /\ p[k] = Append(p[k - 1], s[k])
    <2> DEFINE u == p[k]
               v == p[k - 1]
               t == Append(v, s[k])
    <2>0. k \in 0..Len(s) /\ k - 1 \in 0..Len(s) /\ s[k] \in S /\ k \in Nat
      BY <1>0
    <2>1. /\ u \in Seq(S) /\ Len(u) = k /\ (\A j \in 1..k : u[j] = s[j])
          /\ v \in Seq(S) /\ Len(v) = k - 1 /\ \A j \in 1..(k - 1) : v[j] = s[j]
      BY <1>1, <2>0
    <2> HIDE DEF u, v
    <2>2. t \in Seq(S) /\ Len(t) = Len(v) + 1 /\ t[Len(v) + 1] = s[k]
          /\ \A j \in 1..Len(v) : t[j] = v[j]
      BY <2>0, <2>1
    <2> HIDE DEF t
    <2>3. \A j \in 1..k : j \in 1..(k - 1) \/ j = k
      BY <2>0
    <2>5. Len(t) = k /\ t[k] = s[k] /\ \A j \in 1..(k - 1) : t[j] = s[j]
      BY <2>0, <2>1, <2>2
    <2>4. u = t
      <3>1. Len(u) = k /\ Len(u) = Len(t)
        BY <2>1, <2>5
      <3>2. ASSUME NEW j \in 1..k PROVE u[j] = t[j]
        <4>1. CASE j = k
          BY <2>1, <2>5, <4>1
        <4>2. CASE j \in 1..(k - 1)
          BY <2>1, <2>5, <4>2
        <4> QED
          BY <2>3, <4>1, <4>2
      <3>3. \A j \in 1..Len(u) : u[j] = t[j]
        BY <3>1, <3>2
      <3> QED
        BY <2>1, <2>2, <3>1, <3>3, SameSequences
    <2> QED
      BY <2>0, <2>4 DEF u, v, t
  <1> QED
    BY <1>1, <1>2, <1>3, <1>4

\* The ends of the messages are those that the client itself counts with.
Counted(s, b) == \A i \in 0..Len(s) : b[i] = Count(Http!Expected(SubSeq(s, 1, i)))

\* A sequence of messages with the ends of its prefixes.
Framing(t, b, p) ==
    /\ Frame(t, b, TextOf(Http!Expected(t)))
    /\ b[Len(t)] = Count(Http!Expected(t))
    /\ \A i \in 0..Len(t) : b[i] = Count(Http!Expected(p[i]))

\* The frame of one message more, with the ends that the client counts with.
LEMMA MessageFramed ==
    ASSUME NEW t, NEW b, NEW p, Framing(t, b, p), NEW m \in OfLength,
           p[Len(t) + 1] = Append(t, m)
    PROVE  \E c : Framing(Append(t, m), c, p)
  <1> DEFINE R == TheRequest(m)
             E == Http!Expected(t)
             F == Append(E, R)
             G == Append(F, TheContent(m))
             n == Len(t)
             u == Append(t, m)
             w == TextOf(E)
             v == (w \o R[2]) \o TheContent(m)[2]
             c == [i \in 0..(n + 1) |-> IF i =< n THEN b[i] ELSE Len(w) + (Top(m) + Size(m))]
  <1>1. t \in Seq(OfLength) /\ Len(w) = b[n] /\ b[n] = Count(E) /\ b \in [0..n -> Nat]
    BY DEF Framing, Frame
  <1>2. n \in Nat /\ Len(u) = n + 1
    BY <1>1
  <1>3. E \in Seq(ReadParts) /\ Http!Expected(u) = G
    BY <1>1, ExpectedAppended
  <1>4. /\ R \in ReadParts /\ TheContent(m) \in ReadParts /\ Top(m) \in Nat /\ Size(m) \in Nat
        /\ Len(R[2]) = Top(m) /\ Len(TheContent(m)[2]) = Size(m)
    BY MessageParts
  <1>r. v = (w \o TheRequest(m)[2]) \o TheContent(m)[2]
    OBVIOUS
  <1> HIDE DEF R
  <1>5. F \in Seq(ReadParts)
    BY <1>3, <1>4
  <1>6. TextOf(F) = w \o R[2]
    BY <1>3, <1>4, TextAppended
  <1>7. TextOf(G) = TextOf(F) \o TheContent(m)[2]
    <2> HIDE DEF F
    <2> QED
      BY <1>4, <1>5, TextAppended
  <1>8. TextOf(G) = v
    BY <1>6, <1>7
  <1>9. Count(F) = Count(E) + Top(m) /\ Count(E) \in Nat
    BY <1>3, <1>4, CountAppended
  <1>10. Count(G) = Count(F) + Size(m)
    <2> HIDE DEF F
    <2> QED
      BY <1>4, <1>5, CountAppended
  <1>11. Count(G) = Len(w) + (Top(m) + Size(m))
    <2> DEFINE x == Count(E)  y == Count(F)  z == Size(m)  h == Top(m)
    <2>1. x \in Nat /\ z \in Nat /\ h \in Nat /\ y = x + h /\ Count(G) = y + z /\ Len(w) = x
      BY <1>1, <1>4, <1>9, <1>10
    <2> HIDE DEF x, y, z, h, w, G
    <2>2. y + z = x + (h + z)
      BY <2>1
    <2> QED
      BY <2>1, <2>2 DEF z, h
  <1>12. Frame(u, c, v)
    <2>1. Frame(t, b, w)
      BY DEF Framing
    <2>2. v = (w \o TheRequest(m)[2]) \o TheContent(m)[2]
      BY <1>r
    <2> HIDE DEF w, v
    <2> QED
      BY <2>1, <2>2, FrameAdded, Zenon DEF u, c, n
  <1> HIDE DEF v, w, G, E
  <1>13. c[n + 1] = Len(w) + (Top(m) + Size(m)) /\ \A i \in 0..n : c[i] = b[i]
    BY <1>2
  <1> HIDE DEF c, u
  <1>14. \A i \in 0..(n + 1) : i \in 0..n \/ i = n + 1
    BY <1>2
  <1>15. \A i \in 0..n : b[i] = Count(Http!Expected(p[i]))
    BY DEF Framing
  <1> HIDE DEF n
  <1>16. p[n + 1] = u
    BY DEF n, u
  <1>17. \A i \in 0..(n + 1) : c[i] = Count(Http!Expected(p[i]))
    BY <1>3, <1>11, <1>13, <1>14, <1>15, <1>16
  <1>18. Framing(u, c, p)
    BY <1>2, <1>3, <1>8, <1>11, <1>12, <1>13, <1>17 DEF Framing
  <1> QED
    BY <1>18 DEF u

\* Where the messages of a client end, if all have a length.
LEMMA Framed ==
    ASSUME NEW s \in Seq(OfLength)
    PROVE  \E b : Frame(s, b, TextOf(Http!Expected(s))) /\ Counted(s, b)
  <1> DEFINE p == [k \in 0..Len(s) |-> SubSeq(s, 1, k)]
             bad == {k \in 0..Len(s) : ~ \E b : Framing(p[k], b, p)}
  <1>0. Len(s) \in Nat
    OBVIOUS
  <1>1. /\ p[0] = <<>> /\ p[Len(s)] = s
        /\ \A k \in 0..Len(s) : p[k] \in Seq(OfLength) /\ Len(p[k]) = k
        /\ \A k \in 1..Len(s) : s[k] \in OfLength /\ p[k] = Append(p[k - 1], s[k])
    BY OneMore
  <1>p. \A i \in 0..Len(s) : p[i] = SubSeq(s, 1, i)
    OBVIOUS
  <1> HIDE DEF p
  <1>2. \E b : Framing(p[0], b, p)
    <2> DEFINE b == [i \in 0..0 |-> 0]
    <2>1. b \in [0..0 -> Nat] /\ b[0] = 0 /\ \A i \in 0..0 : i = 0
      OBVIOUS
    <2> HIDE DEF b
    <2>2. <<>> \in Seq(OfLength) /\ <<>> \in Seq(Characters) /\ Len(<<>>) = 0
      OBVIOUS
    <2>5. Tagged(<<>>, b, <<>>)
      <3> DEFINE all == Http!Labels(Http!Expected(<<>>))
      <3>1. all = <<>>
        BY NothingExpected
      <3> HIDE DEF all
      <3>2. <<>> \in Seq(Kinds \X Characters)
        OBVIOUS
      <3>3. Tags(all, <<>>)
        BY <2>2, <3>1, <3>2 DEF Tags
      <3>4. 1..Len(<<>>) = {}
        BY <2>2
      <3> QED
        BY <3>3, <3>4 DEF Tagged, all
    <2>3. Frame(<<>>, b, <<>>)
      BY <2>1, <2>2, <2>5 DEF Frame
    <2>4. Framing(<<>>, b, p)
      BY <1>1, <2>1, <2>2, <2>3, NothingExpected DEF Framing
    <2> QED
      BY <1>1, <2>4
  <1>3. bad = {}
    <2> SUFFICES ASSUME bad # {} PROVE FALSE
      OBVIOUS
    <2>1. bad \in SUBSET Nat
      BY <1>0
    <2>2. PICK k \in bad : \A j \in bad : k =< j
      <3> HIDE DEF bad
      <3> QED
        BY <2>1, LeastNumber
    <2>3. k \in 1..Len(s) /\ k - 1 \in 0..Len(s) /\ ~(k =< k - 1)
      BY <1>0, <1>2, <2>2
    <2>4. k - 1 \notin bad
      BY <2>2, <2>3
    <2>5. PICK b : Framing(p[k - 1], b, p)
      BY <2>3, <2>4
    <2>6. /\ s[k] \in OfLength /\ p[k] = Append(p[k - 1], s[k]) /\ Len(p[k - 1]) + 1 = k
      BY <1>0, <1>1, <2>3, SMTT(30)
    <2>7. \E c : Framing(Append(p[k - 1], s[k]), c, p)
      BY <2>5, <2>6, MessageFramed, Zenon
    <2> QED
      BY <2>2, <2>6, <2>7
  <1>4. Len(s) \in 0..Len(s)
    BY <1>0
  <1>5. PICK b : Framing(p[Len(s)], b, p)
    BY <1>3, <1>4
  <1>6. Framing(s, b, p)
    BY <1>1, <1>5
  <1>7. Counted(s, b)
    BY <1>p, <1>6 DEF Framing, Counted
  <1> QED
    BY <1>6, <1>7 DEF Framing
-----------------------------------------------------------------------------
(* What the coroutine finds in a text.                                     *)

\* A text that is a beginning of a message.
Begins(x, m) ==
    /\ x \in Seq(Characters) /\ x # <<>> /\ Len(x) =< Top(m) + Size(m)
    /\ \A j \in 1..Len(x) : x[j] = Whole(m)[j]

\* It has a length.
LEMMA TextBegins ==
    ASSUME NEW m, NEW x, Begins(x, m)
    PROVE  x \in Seq(Characters) /\ Len(x) \in Nat /\ x # <<>>
  <1>1. x \in Seq(Characters) /\ x # <<>>
    BY DEF Begins
  <1> QED
    BY <1>1

\* A text that does not begin with an end of line is not stripped.
LEMMA Stripped ==
    ASSUME NEW x \in Seq(Characters), x = <<>> \/ x[1] \notin Http!LineEnds
    PROVE  Http!lstrip(x) = x
  <1> DEFINE P(n) == /\ \A i \in 1..n : x[i] \in Http!LineEnds
                     /\ n = Len(x) \/ x[n + 1] \notin Http!LineEnds
             d == CHOOSE n \in 0..Len(x) : P(n)
  <1>0. Len(x) \in Nat /\ (x # <<>> => Len(x) >= 1) /\ (x = <<>> => Len(x) = 0)
    OBVIOUS
  <1>1. 0 \in 0..Len(x) /\ P(0)
    <2>1. x = <<>> => 0 = Len(x)
      OBVIOUS
    <2>2. 0 + 1 = 1 /\ \A i \in 1..0 : FALSE
      OBVIOUS
    <2> QED
      BY <1>0, <2>1, <2>2
  <1>2. \A n \in 0..Len(x) : P(n) => n = 0
    <2> SUFFICES ASSUME NEW n \in 0..Len(x), P(n), n # 0 PROVE FALSE
      OBVIOUS
    <2>1. 1 \in 1..n /\ x # <<>>
      BY <1>0
    <2> QED
      BY <2>1
  <1>3. d = 0
    BY <1>1, <1>2
  <1> HIDE DEF d
  <1>4. SubSeq(x, 0 + 1, Len(x)) = x
    <2> DEFINE u == SubSeq(x, 0 + 1, Len(x))
    <2>1. u \in Seq(Characters) /\ Len(u) = Len(x) - 0 /\ \A j \in 1..(Len(x) - 0) : u[j] = x[j + 0]
      BY <1>0, Ending
    <2> HIDE DEF u
    <2>2. u = x
      <3>1. Len(u) = Len(x) /\ \A j \in 1..Len(u) : u[j] = x[j]
        BY <1>0, <2>1
      <3> QED
        BY <2>1, <3>1, SameSequences
    <2> QED
      BY <2>2 DEF u
  <1>5. Http!lstrip(x) = SubSeq(x, d + 1, Len(x))
    BY DEF Http!lstrip, Http!Drop, d
  <1> QED
    BY <1>3, <1>4, <1>5

\* A kind of end that occurs nowhere is not found.
LEMMA NoPlace ==
    ASSUME NEW x, NEW e, \A p \in 0..Len(x) : ~Http!Occurs(x, p, e)
    PROVE  Http!lookFor(x, e, 0) = [length |-> 0, seek |-> 0]
  <1> DEFINE places == {p \in 0..Len(x) : Http!Occurs(x, p, e)}
  <1>1. places = {}
    OBVIOUS
  <1> QED
    BY <1>1 DEF Http!lookFor

\* The first end is found where it is, if the quotes before it are closed.
LEMMA FirstPlace ==
    ASSUME NEW x, NEW e, NEW n \in Nat \ {0}, n \in 0..Len(x), Http!Occurs(x, n, e),
           \A p \in 0..Len(x) : Http!Occurs(x, p, e) => n <= p,
           Http!Balanced(Http!Take(x, n))
    PROVE  Http!lookFor(x, e, 0) = [length |-> n + Len(e), seek |-> 0]
  <1> DEFINE places == {p \in 0..Len(x) : Http!Occurs(x, p, e)}
             pos == CHOOSE p \in places : \A other \in places : p <= other
  <1>1. n \in places /\ \A other \in places : n <= other
    OBVIOUS
  <1>2. places # {} /\ places \subseteq Int
    BY <1>1
  <1>3. Http!lookFor(x, e, 0) =
          IF places = {} \/ pos = 0 THEN [length |-> 0, seek |-> 0]
          ELSE IF Http!Balanced(Http!Take(x, pos)) THEN [length |-> pos + Len(e), seek |-> 0]
          ELSE [length |-> 0, seek |-> pos + Len(e)]
    BY DEF Http!lookFor
  <1> HIDE DEF places
  <1>4. pos \in places /\ \A other \in places : pos <= other
    BY <1>1
  <1>5. pos = n
    <2> HIDE DEF pos
    <2> QED
      BY <1>1, <1>2, <1>4
  <1> HIDE DEF pos
  <1> QED
    BY <1>2, <1>3, <1>5

\* What two texts have in common, an end that lies in it included.
LEMMA OccursToo ==
    ASSUME NEW x, NEW y, NEW n \in Nat, Len(x) \in Nat, Len(y) \in Nat, n =< Len(x), n =< Len(y),
           \A j \in 1..n : x[j] = y[j],
           NEW e, Len(e) \in Nat, NEW p \in Nat, p + Len(e) =< n
    PROVE  Http!Occurs(x, p, e) <=> Http!Occurs(y, p, e)
  <1> DEFINE l == Len(e)
  <1>1. \A j \in 1..l : p + j \in 1..n
    <2> HIDE DEF l
    <2>1. l \in Nat /\ p + l =< n
      BY DEF l
    <2> QED
      BY <2>1
  <1>2. \A j \in 1..l : x[p + j] = y[p + j]
    BY <1>1
  <1>3. p + l =< Len(x) /\ p + l =< Len(y)
    <2> HIDE DEF l
    <2>1. l \in Nat /\ p + l =< n
      BY DEF l
    <2> QED
      BY <2>1
  <1> QED
    BY <1>2, <1>3 DEF Http!Occurs

\* An end that occurs in a beginning of a message occurs in the message, and in its header if
\* it lies there.
LEMMA OccursInMessage ==
    ASSUME NEW m \in OfLength, NEW x, Begins(x, m), NEW e, Len(e) \in Nat,
           NEW p \in 0..Len(x), Http!Occurs(x, p, e)
    PROVE  /\ p + Len(e) =< Len(x) /\ Http!Occurs(Whole(m), p, e)
           /\ p \in 0..Len(Whole(m))
           /\ p + Len(e) =< Top(m) => Http!Occurs(Http!Header(m), p, e) /\ p \in 0..Top(m)
  <1>1. /\ x \in Seq(Characters) /\ Len(x) \in Nat /\ Len(x) =< Top(m) + Size(m)
        /\ \A j \in 1..Len(x) : x[j] = Whole(m)[j]
    BY DEF Begins
  <1>2. /\ Whole(m) \in Seq(Characters) /\ Len(Whole(m)) = Top(m) + Size(m)
        /\ \A j \in 1..Top(m) : Whole(m)[j] = Http!Header(m)[j]
    BY WholeText
  <1>3. Top(m) \in Nat /\ Size(m) \in Nat /\ Len(Http!Header(m)) = Top(m)
    BY MessageHeader, HeaderText DEF Top
  <1>4. p + Len(e) =< Len(x)
    BY DEF Http!Occurs
  <1>5. Http!Occurs(Whole(m), p, e)
    <2>1. Len(x) =< Len(Whole(m)) /\ Len(x) =< Len(x) /\ Len(Whole(m)) \in Nat /\ p \in Nat
      BY <1>1, <1>2, <1>3
    <2> QED
      BY <1>1, <1>4, <2>1, OccursToo
  <1>6. p \in 0..Len(Whole(m))
    BY <1>1, <1>2, <1>3
  <1>7. ASSUME p + Len(e) =< Top(m) PROVE Http!Occurs(Http!Header(m), p, e) /\ p \in 0..Top(m)
    <2>1. Top(m) =< Len(Whole(m)) /\ Top(m) =< Len(Http!Header(m)) /\ p \in Nat
          /\ Len(Whole(m)) \in Nat /\ Len(Http!Header(m)) \in Nat
      BY <1>2, <1>3, SMTT(30)
    <2>2. Http!Occurs(Http!Header(m), p, e)
      BY <1>2, <1>3, <1>5, <1>7, <2>1, OccursToo
    <2>3. p \in 0..Top(m)
      BY <1>3, <1>7, <2>1, SMTT(30)
    <2> QED
      BY <2>2, <2>3
  <1> QED
    BY <1>4, <1>5, <1>6, <1>7

\* The end of a header is looked for and found when all of the header is there.
LEMMA EndFound ==
    ASSUME NEW m \in OfLength, NEW x, Begins(x, m)
    PROVE  Http!lookFor(x, m.end, 0) = [length |-> IF Len(x) < Top(m) THEN 0 ELSE Top(m), seek |-> 0]
  <1> DEFINE n == Len(m.lines)
             e == m.end
             l == Len(e)
             h == Top(m)
             k == Len(x)
  <1>1. /\ n \in Nat \ {0} /\ l \in Nat /\ h \in Nat /\ h = n + l /\ k \in Nat /\ l > 0
        /\ x \in Seq(Characters) /\ m.lines \in Seq(Characters)
    <2>1. x \in Seq(Characters) /\ k \in Nat
      BY TextBegins
    <2>2. m.lines \in Seq(Characters) /\ n \in Nat \ {0} /\ l \in {2, 4}
      BY MessageHeader
    <2>3. h \in Nat /\ h = n + l
      BY HeaderText
    <2> HIDE DEF n, l, h, k
    <2>4. l \in Nat /\ l > 0
      BY <2>2
    <2> QED
      BY <2>1, <2>2, <2>3, <2>4
  <1>2. \A p \in 0..h : Http!Occurs(Http!Header(m), p, e) => p = n
    BY MessageHeader DEF Http!Plain, Top
  <1>3. /\ \A j \in 1..n : Http!Header(m)[j] = m.lines[j]
        /\ \A j \in 1..l : Http!Header(m)[j + n] = e[j]
    BY HeaderText
  <1>4. \A p \in 0..k : Http!Occurs(x, p, e) =>
          /\ p + l =< k
          /\ p + l =< h => Http!Occurs(Http!Header(m), p, e) /\ p \in 0..h
    BY <1>1, OccursInMessage
  <1>5. \A j \in 1..k : j =< h => x[j] = Http!Header(m)[j]
    <2>1. \A j \in 1..k : x[j] = Whole(m)[j]
      BY DEF Begins
    <2>2. \A j \in 1..h : Whole(m)[j] = Http!Header(m)[j]
      BY WholeText
    <2>3. \A j \in 1..k : j =< h => j \in 1..h
      <3> HIDE DEF n, l, h, k
      <3> QED
        BY <1>1
    <2> QED
      BY <2>1, <2>2, <2>3
  <1>b. Http!Balanced(m.lines)
    BY MessageHeader DEF Http!Plain
  <1> HIDE DEF n, e, l, h, k
  <1>6. CASE k < h
    <2>1. ASSUME NEW p \in 0..k, Http!Occurs(x, p, e) PROVE FALSE
      <3>1. p + l =< k /\ p + l =< h
        BY <1>1, <1>4, <1>6, <2>1
      <3>2. p = n
        BY <1>2, <1>4, <2>1, <3>1
      <3> QED
        BY <1>1, <1>6, <3>1, <3>2
    <2>2. Http!lookFor(x, e, 0) = [length |-> 0, seek |-> 0]
      BY <2>1, NoPlace DEF k
    <2> QED
      BY <1>6, <2>2 DEF e, h, k
  <1>7. CASE ~(k < h)
    <2>1. Http!Occurs(x, n, e)
      <3>1. n + l =< k
        BY <1>1, <1>7
      <3>2. ASSUME NEW j \in 1..l PROVE x[n + j] = e[j]
        <4>1. n + j \in 1..k /\ n + j =< h /\ j + n = n + j
          BY <1>1, <1>7
        <4> QED
          BY <1>3, <1>5, <4>1
      <3> QED
        BY <3>1, <3>2 DEF Http!Occurs, k, l
    <2>2. ASSUME NEW p \in 0..k, Http!Occurs(x, p, e) PROVE n <= p
      <3>1. CASE p + l =< h
        <4>1. p = n
          BY <1>2, <1>4, <2>2, <3>1
        <4> QED
          BY <1>1, <4>1
      <3>2. CASE ~(p + l =< h)
        BY <1>1, <3>2
      <3> QED
        BY <3>1, <3>2
    <2>3. Http!Take(x, n) = m.lines
      <3> DEFINE u == SubSeq(x, 1, n)
      <3>1. n \in 0..Len(x) /\ (IF n < Len(x) THEN n ELSE Len(x)) = n
        BY <1>1, <1>7 DEF k
      <3>2. u \in Seq(Characters) /\ Len(u) = n /\ \A j \in 1..n : u[j] = x[j]
        BY <1>1, <3>1, Beginning
      <3>3. \A j \in 1..n : x[j] = m.lines[j]
        <4>1. \A j \in 1..n : j \in 1..k /\ j =< h
          BY <1>1, <1>7
        <4> QED
          BY <1>3, <1>5, <4>1
      <3>4. Http!Take(x, n) = u
        BY <3>1, Zenon DEF Http!Take
      <3> HIDE DEF u
      <3>5. Len(u) = Len(m.lines) /\ \A j \in 1..Len(u) : u[j] = m.lines[j]
        BY <3>2, <3>3 DEF n
      <3>6. u = m.lines
        BY <1>1, <3>2, <3>5, SameSequences
      <3> QED
        BY <3>4, <3>6
    <2>4. n \in 0..Len(x) /\ n \in Nat \ {0}
      BY <1>1, <1>7 DEF k
    <2>5. \A p \in 0..Len(x) : Http!Occurs(x, p, e) => n <= p
      BY <2>2 DEF k
    <2>6. Http!Balanced(Http!Take(x, n))
      BY <1>b, <2>3
    <2>7. Http!lookFor(x, e, 0) = [length |-> n + Len(e), seek |-> 0]
      BY <2>1, <2>4, <2>5, <2>6, FirstPlace
    <2> QED
      BY <1>1, <1>7, <2>7 DEF e, h, k, l
  <1> QED
    BY <1>6, <1>7

\* The other kind of end is not found before it.
LEMMA OtherEnd ==
    ASSUME NEW m \in OfLength, NEW x, Begins(x, m)
    PROVE  /\ m.end = Http!LF => Http!lookFor(x, Http!CRLF, 0) = [length |-> 0, seek |-> 0]
           /\ m.end = Http!CRLF /\ Len(x) < Top(m) =>
                Http!lookFor(x, Http!LF, 0) = [length |-> 0, seek |-> 0]
  <1>1. Len(Http!CRLF) \in Nat /\ Len(Http!LF) \in Nat
    BY EndsOfHeader
  <1>2. Top(m) \in Nat /\ Len(x) \in Nat
    BY MessageParts, TextBegins
  <1>3. Http!Plain(m)
    BY MessageHeader
  <1>4. ASSUME m.end = Http!LF
        PROVE  Http!lookFor(x, Http!CRLF, 0) = [length |-> 0, seek |-> 0]
    <2>1. \A p \in 0..Len(Whole(m)) : ~Http!Occurs(Whole(m), p, Http!CRLF)
      BY <1>3, <1>4 DEF Http!Plain, Whole
    <2>2. \A p \in 0..Len(x) : ~Http!Occurs(x, p, Http!CRLF)
      BY <1>1, <2>1, OccursInMessage
    <2> QED
      BY <2>2, NoPlace
  <1>5. ASSUME m.end = Http!CRLF, Len(x) < Top(m)
        PROVE  Http!lookFor(x, Http!LF, 0) = [length |-> 0, seek |-> 0]
    <2>1. \A p \in 0..Top(m) : ~Http!Occurs(Http!Header(m), p, Http!LF)
      BY <1>3, <1>5 DEF Http!Plain, Top
    <2>2. ASSUME NEW p \in 0..Len(x), Http!Occurs(x, p, Http!LF) PROVE FALSE
      <3>1. /\ p + Len(Http!LF) =< Len(x)
            /\ p + Len(Http!LF) =< Top(m) => Http!Occurs(Http!Header(m), p, Http!LF) /\ p \in 0..Top(m)
        BY <1>1, <2>2, OccursInMessage
      <3>2. p + Len(Http!LF) =< Top(m)
        BY <1>1, <1>2, <1>5, <3>1
      <3> QED
        BY <2>1, <3>1, <3>2
    <2> QED
      BY <2>2, NoPlace
  <1> QED
    BY <1>4, <1>5

\* What is found of a request in a text, and left of it, with nothing else remarkable.
Finds(found, request_, rest) ==
    /\ found.request = request_ /\ found.rest = rest /\ found.seek = 0 /\ found.closes = FALSE

\* Of a text that is cut at a length, or not at all.
LEMMA FoundAt ==
    ASSUME NEW x \in Seq(Characters), NEW h \in Nat, h =< Len(x),
           \/ Http!lookFor(x, Http!CRLF, 0) = [length |-> h, seek |-> 0] /\ h > 0
           \/ /\ Http!lookFor(x, Http!CRLF, 0) = [length |-> 0, seek |-> 0]
              /\ Http!lookFor(x, Http!LF, 0) = [length |-> h, seek |-> 0],
           h = 0 => MaxBuffer = 0 \/ Len(x) =< MaxBuffer
    PROVE  Finds(Http!checkRequest(x, 0), SubSeq(x, 1, h), SubSeq(x, h + 1, Len(x)))
  <1> DEFINE crlf == Http!lookFor(x, Http!CRLF, 0)
             found == IF crlf.length > 0 THEN crlf ELSE Http!lookFor(x, Http!LF, crlf.seek)
  <1>1. found = [length |-> h, seek |-> 0]
    <2>1. CASE crlf = [length |-> h, seek |-> 0] /\ h > 0
      <3>1. crlf.length = h
        BY <2>1
      <3> HIDE DEF crlf
      <3> QED
        BY <2>1, <3>1
    <2>2. CASE /\ crlf = [length |-> 0, seek |-> 0]
               /\ Http!lookFor(x, Http!LF, 0) = [length |-> h, seek |-> 0]
      <3>1. crlf.length = 0 /\ crlf.seek = 0
        BY <2>2
      <3> HIDE DEF crlf
      <3>2. ~(crlf.length > 0)
        BY <3>1
      <3> QED
        BY <2>2, <3>1, <3>2
    <2> QED
      BY <2>1, <2>2
  <1>2. Http!checkRequest(x, 0) =
          [request |-> Http!Take(x, found.length), rest |-> Http!Drop(x, found.length),
           seek |-> found.seek,
           closes |-> found.length = 0 /\ MaxBuffer # 0 /\ Len(x) > MaxBuffer]
    BY DEF Http!checkRequest
  <1> HIDE DEF found
  <1>3. found.length = h /\ found.seek = 0
    BY <1>1
  <1>4. (h = 0 /\ MaxBuffer # 0 /\ Len(x) > MaxBuffer) = FALSE
    <2>1. Len(x) \in Nat /\ MaxBuffer \in Nat
      BY PartsAssumption
    <2> QED
      BY <2>1
  <1>5. Http!Take(x, h) = SubSeq(x, 1, h)
    <2> DEFINE l == Len(x)
    <2>1. l \in Nat /\ h =< l
      OBVIOUS
    <2> HIDE DEF l
    <2>2. (IF h < l THEN h ELSE l) = h
      BY <2>1
    <2> QED
      BY <2>2, Zenon DEF Http!Take, l
  <1>6. Http!Drop(x, h) = SubSeq(x, h + 1, Len(x))
    BY DEF Http!Drop
  <1>7. Http!checkRequest(x, 0) =
          [request |-> SubSeq(x, 1, h), rest |-> SubSeq(x, h + 1, Len(x)), seek |-> 0,
           closes |-> FALSE]
    BY <1>2, <1>3, <1>4, <1>5, <1>6, Zenon
  <1> DEFINE a == SubSeq(x, 1, h)  d == SubSeq(x, h + 1, Len(x))
  <1> HIDE DEF a, d
  <1>8. Http!checkRequest(x, 0) = [request |-> a, rest |-> d, seek |-> 0, closes |-> FALSE]
    BY <1>7 DEF a, d
  <1>9. Finds(Http!checkRequest(x, 0), a, d)
    BY <1>8 DEF Finds
  <1> QED
    BY <1>9 DEF a, d

\* Nothing is before the first place of a text, and all after it.
LEMMA NotCut ==
    ASSUME NEW x \in Seq(Characters)
    PROVE  SubSeq(x, 1, 0) = <<>> /\ SubSeq(x, 0 + 1, Len(x)) = x
  <1> DEFINE u == SubSeq(x, 0 + 1, Len(x))
             v == SubSeq(x, 1, 0)
  <1>0. Len(x) \in Nat /\ 0 \in 0..Len(x)
    OBVIOUS
  <1>1. u \in Seq(Characters) /\ Len(u) = Len(x) - 0 /\ \A j \in 1..(Len(x) - 0) : u[j] = x[j + 0]
    BY <1>0, Ending
  <1>2. v \in Seq(Characters) /\ Len(v) = 0
    BY <1>0, Beginning
  <1> HIDE DEF u, v
  <1>3. u = x
    <2>1. Len(u) = Len(x) /\ \A j \in 1..Len(u) : u[j] = x[j]
      BY <1>0, <1>1
    <2> QED
      BY <1>1, <2>1, SameSequences
  <1>4. v = <<>>
    BY <1>2
  <1> QED
    BY <1>3, <1>4 DEF u, v

\* The coroutine makes nothing of an empty text.
LEMMA NoHeader ==
    Finds(Http!checkRequest(<<>>, 0), <<>>, <<>>)
  <1>1. <<>> \in Seq(Characters) /\ Len(<<>>) = 0 /\ 0 =< Len(<<>>)
    OBVIOUS
  <1>2. ASSUME NEW e, Len(e) \in Nat \ {0} PROVE \A p \in 0..Len(<<>>) : ~Http!Occurs(<<>>, p, e)
    <2> SUFFICES ASSUME NEW p \in 0..Len(<<>>), Http!Occurs(<<>>, p, e) PROVE FALSE
      OBVIOUS
    <2>1. p + Len(e) =< 0 /\ p \in Nat
      BY <1>1 DEF Http!Occurs
    <2> QED
      BY <1>2, <2>1
  <1>3. Len(Http!CRLF) \in Nat \ {0} /\ Len(Http!LF) \in Nat \ {0}
    BY EndsOfHeader
  <1>4. /\ Http!lookFor(<<>>, Http!CRLF, 0) = [length |-> 0, seek |-> 0]
        /\ Http!lookFor(<<>>, Http!LF, 0) = [length |-> 0, seek |-> 0]
    BY <1>2, <1>3, NoPlace
  <1>5. Len(<<>>) =< MaxBuffer
    BY <1>1, PartsAssumption
  <1>6. Finds(Http!checkRequest(<<>>, 0), SubSeq(<<>>, 1, 0), SubSeq(<<>>, 0 + 1, Len(<<>>)))
    BY <1>1, <1>4, <1>5, FoundAt
  <1>7. SubSeq(<<>>, 1, 0) = <<>> /\ SubSeq(<<>>, 0 + 1, Len(<<>>)) = <<>>
    BY <1>1, NotCut
  <1> QED
    BY <1>6, <1>7

\* A header is found when all of it is there, and taken off.
LEMMA HeaderFound ==
    ASSUME NEW m \in OfLength, NEW x, Begins(x, m)
    PROVE  IF Len(x) < Top(m) THEN Finds(Http!checkRequest(x, 0), <<>>, x)
           ELSE Finds(Http!checkRequest(x, 0), SubSeq(x, 1, Top(m)), SubSeq(x, Top(m) + 1, Len(x)))
  <1>1. x \in Seq(Characters) /\ Len(x) \in Nat /\ Top(m) \in Nat /\ Top(m) > 0
    BY MessageParts, TextBegins
  <1>2. m.end = Http!CRLF \/ m.end = Http!LF
    BY MessageHeader
  <1> DEFINE crlf == Http!lookFor(x, Http!CRLF, 0)
             lf == Http!lookFor(x, Http!LF, 0)
  <1>3. CASE Len(x) < Top(m)
    <2>1. Http!lookFor(x, m.end, 0) = [length |-> 0, seek |-> 0]
      BY <1>3, EndFound
    <2>2. crlf = [length |-> 0, seek |-> 0] /\ lf = [length |-> 0, seek |-> 0]
      <3>1. CASE m.end = Http!CRLF
        BY <1>3, <2>1, <3>1, OtherEnd
      <3>2. CASE m.end = Http!LF
        BY <2>1, <3>2, OtherEnd
      <3> QED
        BY <1>2, <3>1, <3>2
    <2>3. MaxBuffer = 0 \/ Len(x) =< MaxBuffer
      <3>1. MaxBuffer # 0 => Top(m) =< MaxBuffer
        BY MessageHeader DEF Http!Plain, Top
      <3>2. MaxBuffer \in Nat
        BY PartsAssumption
      <3> QED
        BY <1>1, <1>3, <3>1, <3>2
    <2>4. 0 \in Nat /\ 0 =< Len(x)
      BY <1>1
    <2>5. Finds(Http!checkRequest(x, 0), SubSeq(x, 1, 0), SubSeq(x, 0 + 1, Len(x)))
      BY <1>1, <2>2, <2>3, <2>4, FoundAt
    <2>6. SubSeq(x, 1, 0) = <<>> /\ SubSeq(x, 0 + 1, Len(x)) = x
      BY <1>1, NotCut
    <2>7. Finds(Http!checkRequest(x, 0), <<>>, x)
      BY <2>5, <2>6
    <2> QED
      BY <1>3, <2>7
  <1>4. CASE ~(Len(x) < Top(m))
    <2>1. Http!lookFor(x, m.end, 0) = [length |-> Top(m), seek |-> 0]
      BY <1>4, EndFound
    <2>2. \/ crlf = [length |-> Top(m), seek |-> 0] /\ Top(m) > 0
          \/ crlf = [length |-> 0, seek |-> 0] /\ lf = [length |-> Top(m), seek |-> 0]
      <3>1. CASE m.end = Http!CRLF
        BY <1>1, <2>1, <3>1
      <3>2. CASE m.end = Http!LF
        BY <2>1, <3>2, OtherEnd
      <3> QED
        BY <1>2, <3>1, <3>2
    <2>3. Top(m) =< Len(x) /\ Top(m) # 0
      BY <1>1, <1>4
    <2>4. Finds(Http!checkRequest(x, 0), SubSeq(x, 1, Top(m)), SubSeq(x, Top(m) + 1, Len(x)))
      BY <1>1, <2>2, <2>3, FoundAt
    <2> QED
      BY <1>4, <2>4
  <1> QED
    BY <1>3, <1>4

\* The coroutine after it found no header in a text.
FoundNone(x) ==
    /\ read' = read /\ asked' = FALSE /\ r_buffer' = x /\ mode' = "http" /\ seek' = 0

\* And after it found one of a length.
FoundHeader(x, h) ==
    /\ read' = Append(read, <<"request", SubSeq(x, 1, h)>>) /\ asked' = TRUE
    /\ r_buffer' = SubSeq(x, h + 1, Len(x)) /\ mode' = "http" /\ seek' = 0

\* What the coroutine does with what it found.
LEMMA HeaderTaken ==
    ASSUME seek = 0, NEW x, Http!lstrip(x) = x, Http!readHeader(x), NEW u, NEW v,
           Finds(Http!checkRequest(x, 0), u, v)
    PROVE  /\ read' = IF u = <<>> THEN read ELSE Append(read, <<"request", u>>)
           /\ asked' = (u # <<>>) /\ r_buffer' = v /\ mode' = "http" /\ seek' = 0
  <1> DEFINE found == Http!checkRequest(Http!lstrip(x), seek)
  <1>1. found.request = u /\ found.rest = v /\ found.seek = 0 /\ found.closes = FALSE
    BY DEF Finds
  <1>2. /\ read' = IF found.request = <<>> THEN read ELSE Append(read, <<"request", found.request>>)
        /\ asked' = (found.request # <<>>) /\ r_buffer' = found.rest
        /\ mode' = IF found.closes THEN "closed" ELSE "http"
        /\ seek' = IF asked' THEN 0 ELSE found.seek
    BY DEF Http!readHeader, Http!Reads
  <1> HIDE DEF found
  <1> QED
    BY <1>1, <1>2

\* In an empty text no header is found.
LEMMA HeaderOfNothing ==
    ASSUME seek = 0, Http!readHeader(<<>>)
    PROVE  FoundNone(<<>>)
  <1>1. <<>> \in Seq(Characters)
    OBVIOUS
  <1>2. Http!lstrip(<<>>) = <<>>
    BY <1>1, Stripped, Zenon
  <1> QED
    BY <1>2, NoHeader, HeaderTaken DEF FoundNone

\* In a text that begins with a header it is found if it is all there.
LEMMA HeaderRead ==
    ASSUME seek = 0, NEW m \in OfLength, NEW x, Begins(x, m), Http!readHeader(x)
    PROVE  IF Len(x) < Top(m) THEN FoundNone(x) ELSE FoundHeader(x, Top(m))
  <1>1. x \in Seq(Characters) /\ Len(x) \in Nat /\ x # <<>> /\ Top(m) \in Nat /\ Top(m) > 0
    BY MessageParts, TextBegins
  <1>2. Http!lstrip(x) = x
    <2>1. m.lines[1] \notin Http!LineEnds /\ Len(m.lines) \in Nat \ {0}
      BY MessageHeader DEF Http!Plain
    <2>2. 1 \in 1..Len(m.lines) /\ 1 \in 1..Top(m) /\ 1 \in 1..Len(x)
      BY <1>1, <2>1
    <2>3. x[1] = Whole(m)[1]
      BY <2>2 DEF Begins
    <2>4. Whole(m)[1] = Http!Header(m)[1]
      BY <2>2, WholeText
    <2>5. Http!Header(m)[1] = m.lines[1]
      BY <2>2, HeaderText
    <2> QED
      BY <1>1, <2>1, <2>3, <2>4, <2>5, Stripped
  <1>5. CASE Len(x) < Top(m)
    <2>1. Finds(Http!checkRequest(x, 0), <<>>, x)
      BY <1>5, HeaderFound
    <2>2. /\ read' = IF <<>> = <<>> THEN read ELSE Append(read, <<"request", <<>>>>)
          /\ asked' = (<<>> # <<>>) /\ r_buffer' = x /\ mode' = "http" /\ seek' = 0
      BY <1>2, <2>1, HeaderTaken
    <2> QED
      BY <1>5, <2>2 DEF FoundNone
  <1>6. CASE ~(Len(x) < Top(m))
    <2> DEFINE u == SubSeq(x, 1, Top(m))
               v == SubSeq(x, Top(m) + 1, Len(x))
    <2>1. u # <<>>
      <3>1. Top(m) \in 0..Len(x)
        BY <1>1, <1>6
      <3>2. Len(u) = Top(m)
        BY <1>1, <3>1, Beginning
      <3> HIDE DEF u
      <3> QED
        BY <1>1, <3>2
    <2>2. Finds(Http!checkRequest(x, 0), u, v)
      BY <1>6, HeaderFound
    <2> HIDE DEF u, v
    <2>4. /\ read' = IF u = <<>> THEN read ELSE Append(read, <<"request", u>>)
          /\ asked' = (u # <<>>) /\ r_buffer' = v /\ mode' = "http" /\ seek' = 0
      BY <1>2, <2>2, HeaderTaken
    <2>3. /\ read' = Append(read, <<"request", u>>) /\ asked' = TRUE
          /\ r_buffer' = v /\ mode' = "http" /\ seek' = 0
      BY <2>1, <2>4
    <2> QED
      BY <1>6, <2>3 DEF FoundHeader, u, v
  <1> QED
    BY <1>5, <1>6

\* The coroutine after it has read all of a text as content, of which n characters are due.
FoundContent(x, n) ==
    /\ read' = Append(read, <<"content", x>>) /\ asked' = FALSE /\ r_buffer' = <<>>
    /\ seek' = 0 /\ nb_to_send' = n - Len(x)
    /\ mode' = IF Len(x) = n THEN "new-request" ELSE "transfer"

\* Of a text that is no longer than what is due all is content.
LEMMA ContentRead ==
    ASSUME NEW x \in Seq(Characters), x # <<>>, NEW n \in Nat, Len(x) =< n,
           Http!readContent("transfer", x, n)
    PROVE  FoundContent(x, n)
  <1>0. Len(x) \in Nat
    BY SMTT(30)
  <1>1. Http!Take(x, n) = x
    <2> DEFINE l == Len(x)  u == SubSeq(x, 1, l)
    <2>1. (IF n < l THEN n ELSE l) = l
      <3> HIDE DEF l, u
      <3>1. l \in Nat /\ l =< n
        BY DEF l
      <3> QED
        BY <3>1
    <2>2. u = x
      <3>1. l \in 0..Len(x)
        BY <1>0
      <3>2. u \in Seq(Characters) /\ Len(u) = l /\ \A j \in 1..l : u[j] = x[j]
        BY <3>1, Beginning
      <3> HIDE DEF u
      <3> QED
        BY <3>2, SameSequences
    <2> QED
      BY <2>1, <2>2, Zenon DEF Http!Take
  <1>2. Http!Drop(x, n) = <<>>
    <2> DEFINE l == Len(x)
    <2>1. l \in Nat /\ n + 1 > l
      BY <1>0
    <2> HIDE DEF l
    <2>2. SubSeq(x, n + 1, l) = <<>>
      BY <2>1
    <2> QED
      BY <2>2 DEF Http!Drop, l
  <1> DEFINE result == Http!process("transfer", x, n)
  <1>4. result = [data |-> x, r_buffer |-> <<>>,
                  mode |-> IF n - Len(x) = 0 THEN "new-request" ELSE "transfer",
                  nb_to_send |-> n - Len(x), seek |-> 0]
    <2>1. result = Http!_transfer(x, n)
      BY DEF Http!process
    <2> QED
      BY <1>1, <1>2, <2>1 DEF Http!_transfer, Http!Result
  <1>5. /\ Http!Reads("content", result.data)
        /\ r_buffer' = result.r_buffer /\ seek' = result.seek
        /\ mode' = result.mode /\ nb_to_send' = result.nb_to_send /\ asked' = FALSE
    BY DEF Http!readContent
  <1> HIDE DEF result
  <1>6. n - Len(x) = 0 <=> Len(x) = n
    BY <1>0
  <1>7. /\ result.data = x /\ result.r_buffer = <<>> /\ result.seek = 0
        /\ result.nb_to_send = n - Len(x)
        /\ result.mode = IF Len(x) = n THEN "new-request" ELSE "transfer"
    BY <1>4, <1>6
  <1>8. read' = Append(read, <<"content", x>>)
    BY <1>5, <1>7 DEF Http!Reads
  <1> QED
    BY <1>5, <1>7, <1>8 DEF FoundContent

\* What was read of a text, what is in the buffer and in the socket, and what is not sent.
Placed(w, buffer, sock, rest, r, q, t) ==
    /\ r \in Nat /\ q \in Nat /\ t \in Nat /\ r =< q /\ q =< t /\ t =< Len(w)
    /\ Extract(buffer, w, r, q) /\ Extract(sock, w, q, t) /\ Extract(rest, w, t, Len(w))

\* Between a place and itself there is nothing.
LEMMA NoExtract ==
    ASSUME NEW w, NEW a \in Nat, NEW x
    PROVE  /\ x = <<>> => Extract(x, w, a, a)
           /\ Extract(x, w, a, a) => x = <<>>
  <1>1. a - a = 0 /\ <<>> \in Seq(Characters) /\ Len(<<>>) = 0
    OBVIOUS
  <1>2. ASSUME x = <<>> PROVE Extract(x, w, a, a)
    <2>1. \A j \in 1..(a - a) : x[j] = w[a + j]
      BY <1>1
    <2> QED
      BY <1>1, <1>2, <2>1 DEF Extract
  <1>3. ASSUME Extract(x, w, a, a) PROVE x = <<>>
    <2>1. x \in Seq(Characters) /\ Len(x) = 0
      BY <1>1, <1>3 DEF Extract
    <2> QED
      BY <2>1
  <1> QED
    BY <1>2, <1>3

\* An extract with nothing in it has one place.
LEMMA EmptyPlace ==
    ASSUME NEW w, NEW a \in Nat, NEW d \in Nat, NEW x, Extract(x, w, a, d)
    PROVE  (x = <<>> <=> a = d) /\ x \in Seq(Characters) /\ Len(x) = d - a
  <1>1. x \in Seq(Characters) /\ Len(x) = d - a
    BY DEF Extract
  <1> QED
    BY <1>1

\* A part of a text that is cut in two.
LEMMA ExtractsCut ==
    ASSUME NEW w, NEW a \in Nat, NEW d \in Nat, NEW x, Extract(x, w, a, d),
           NEW n \in Nat, a + n =< d,
           NEW u, u = SubSeq(x, 1, n), NEW v, v = SubSeq(x, n + 1, Len(x))
    PROVE  Extract(u, w, a, a + n) /\ Extract(v, w, a + n, d)
  <1>1. x \in Seq(Characters) /\ Len(x) = d - a /\ \A j \in 1..(d - a) : x[j] = w[a + j]
    BY DEF Extract
  <1>2. n \in 0..Len(x)
    BY <1>1
  <1>3. u \in Seq(Characters) /\ Len(u) = n /\ \A j \in 1..n : u[j] = x[j]
    BY <1>1, <1>2, Beginning
  <1>4. /\ v \in Seq(Characters) /\ Len(v) = Len(x) - n
        /\ \A j \in 1..(Len(x) - n) : v[j] = x[j + n]
    BY <1>1, <1>2, Ending
  <1>5. /\ (a + n) - a = n /\ (d - a) - n = d - (a + n)
        /\ \A j \in 1..n : j \in 1..(d - a)
        /\ \A j \in 1..(d - (a + n)) : j + n \in 1..(d - a) /\ a + (j + n) = (a + n) + j
    OBVIOUS
  <1>6. Extract(u, w, a, a + n)
    BY <1>1, <1>3, <1>5 DEF Extract
  <1>7. Extract(v, w, a + n, d)
    <2>1. Len(v) = d - (a + n)
      BY <1>1, <1>4, <1>5
    <2>2. ASSUME NEW j \in 1..(d - (a + n)) PROVE v[j] = w[(a + n) + j]
      <3>1. v[j] = x[j + n]
        BY <1>1, <1>4, <1>5
      <3> QED
        BY <1>1, <1>5, <3>1
    <2> QED
      BY <1>4, <2>1, <2>2 DEF Extract
  <1> QED
    BY <1>6, <1>7

\* Where a message begins there is a beginning of its text.
LEMMA HeaderThere ==
    ASSUME NEW s, NEW b, NEW w, Frame(s, b, w), NEW i \in 1..Len(s),
           NEW d \in Nat, b[i - 1] < d, d =< b[i], NEW x, Extract(x, w, b[i - 1], d)
    PROVE  s[i] \in OfLength /\ Begins(x, s[i])
  <1> DEFINE a == b[i - 1]
             h == Top(s[i]) + Size(s[i])
  <1>1. /\ s \in Seq(OfLength) /\ b \in [0..Len(s) -> Nat] /\ Len(s) \in Nat
        /\ b[i] = a + h /\ \A j \in 1..h : w[a + j] = Whole(s[i])[j]
    <2>1. s \in Seq(OfLength) /\ b \in [0..Len(s) -> Nat]
      BY DEF Frame
    <2>2. b[i] = a + h /\ \A j \in 1..h : w[a + j] = Whole(s[i])[j]
      BY Zenon DEF Frame
    <2> QED
      BY <2>1, <2>2
  <1>2. s[i] \in OfLength /\ i - 1 \in 0..Len(s)
    BY <1>1
  <1>3. a \in Nat /\ h \in Nat
    <2>1. Top(s[i]) \in Nat /\ Size(s[i]) \in Nat
      BY <1>2, MessageParts
    <2> QED
      BY <1>1, <1>2, <2>1
  <1>4. /\ x \in Seq(Characters) /\ Len(x) = d - a /\ \A j \in 1..(d - a) : x[j] = w[a + j]
        /\ d =< b[i] /\ a < d
    BY DEF Extract
  <1> HIDE DEF a, h
  <1>5. x # <<>> /\ Len(x) =< h /\ \A j \in 1..Len(x) : j \in 1..h
    BY <1>1, <1>3, <1>4
  <1>6. \A j \in 1..Len(x) : x[j] = Whole(s[i])[j]
    BY <1>1, <1>4, <1>5
  <1> QED
    BY <1>2, <1>4, <1>5, <1>6 DEF Begins, h

\* One part more was read.
OnePartMore(got, kind, x, more) ==
    /\ got \in Seq(ReadParts) /\ kind \in Kinds /\ x \in Seq(Characters)
    /\ more = Append(got, <<kind, x>>)

\* Every character that was read was read as what it was sent as.
SentSoFar(s, got) ==
    \A p \in 1..Count(got) : Http!Labels(got)[p] = Http!Labels(Http!Expected(s))[p]

\* What the characters of a text after one place and up to another are to be read as.
SentAs(s, w, kind, a, d) ==
    \A p \in (a + 1)..d : Http!Labels(Http!Expected(s))[p] = <<kind, w[p]>>

\* The labels of a message, where it is in the text.
LEMMA TagsThere ==
    ASSUME NEW s, NEW b, NEW w, Frame(s, b, w), NEW i \in 1..Len(s)
    PROVE  /\ SentAs(s, w, "request", b[i - 1], b[i - 1] + Top(s[i]))
           /\ SentAs(s, w, "content", b[i - 1] + Top(s[i]), b[i])
  <1> DEFINE all == Http!Labels(Http!Expected(s))
             a == b[i - 1]
             h == Top(s[i])
             l == Size(s[i])
  <1>1. /\ \A j \in 1..h : all[a + j] = <<"request", w[a + j]>>
        /\ \A j \in (h + 1)..(h + l) : all[a + j] = <<"content", w[a + j]>>
    BY DEF Frame, Tagged
  <1>2. /\ s \in Seq(OfLength) /\ b \in [0..Len(s) -> Nat] /\ Len(s) \in Nat
        /\ b[i] = a + (h + l)
    <2>1. s \in Seq(OfLength) /\ b \in [0..Len(s) -> Nat]
      BY DEF Frame
    <2>2. \A k \in 1..Len(s) : b[k] = b[k - 1] + (Top(s[k]) + Size(s[k]))
      BY DEF Frame
    <2> QED
      BY <2>1, <2>2
  <1>3. a \in Nat /\ l \in Nat /\ h \in Nat
    <2>1. s[i] \in OfLength /\ i - 1 \in 0..Len(s)
      BY <1>2
    <2> QED
      BY <1>2, <2>1, MessageParts
  <1> HIDE DEF all, a, h, l
  <1>4. ASSUME NEW p \in (a + 1)..(a + h) PROVE all[p] = <<"request", w[p]>>
    <2>1. p - a \in 1..h /\ a + (p - a) = p
      BY <1>3
    <2> QED
      BY <1>1, <2>1
  <1>5. ASSUME NEW p \in ((a + h) + 1)..b[i] PROVE all[p] = <<"content", w[p]>>
    <2>1. p - a \in (h + 1)..(h + l) /\ a + (p - a) = p
      BY <1>2, <1>3
    <2> QED
      BY <1>1, <2>1
  <1> QED
    BY <1>4, <1>5 DEF SentAs, all, a, h

\* What was read as it was sent, and a part that is read so.
LEMMA SentSoFarMore ==
    ASSUME NEW s, NEW got, NEW kind, NEW x, NEW more, OnePartMore(got, kind, x, more),
           SentSoFar(s, got), NEW w, NEW d \in Nat, Extract(x, w, Count(got), d),
           SentAs(s, w, kind, Count(got), d)
    PROVE  SentSoFar(s, more)
  <1> DEFINE r == Count(got)
             piece == <<kind, x>>
             y == Labelled(piece)
             now_ == Http!Labels(got)
             next == Http!Labels(more)
             all == Http!Labels(Http!Expected(s))
             T == Kinds \X Characters
  <1>1. /\ got \in Seq(ReadParts) /\ kind \in Kinds /\ x \in Seq(Characters)
        /\ more = Append(got, piece)
    BY DEF OnePartMore
  <1>2. piece \in ReadParts /\ piece[1] = kind /\ piece[2] = x
    BY <1>1 DEF ReadParts
  <1>3. now_ \in Seq(T) /\ next = now_ \o y /\ Len(now_) = r /\ r \in Nat
    BY <1>1, <1>2, LabelsAppended, CountAppended DEF Count
  <1>4. y \in Seq(T) /\ Len(y) = Len(x) /\ \A j \in 1..Len(x) : y[j] = <<kind, x[j]>>
    BY <1>2, LabelledLength
  <1>5. Len(x) = d - r /\ \A j \in 1..(d - r) : x[j] = w[r + j]
    BY DEF Extract
  <1>6. \A p \in 1..r : now_[p] = all[p]
    BY DEF SentSoFar
  <1>7. \A p \in (r + 1)..d : all[p] = <<kind, w[p]>>
    BY DEF SentAs
  <1>c. Count(more) = Len(next)
    BY DEF Count
  <1> HIDE DEF piece, y, now_, next, all, T, r
  <1>8. /\ Len(next) = r + Len(x)
        /\ \A j \in 1..r : next[j] = now_[j]
        /\ \A j \in 1..Len(x) : next[j + r] = y[j]
    <2>1. Len(now_ \o y) = Len(now_) + Len(y)
      BY <1>3, <1>4, Joined, Zenon
    <2>2. \A j \in 1..Len(now_) : (now_ \o y)[j] = now_[j]
      BY <1>3, <1>4, Joined, Zenon
    <2>3. \A j \in 1..Len(y) : (now_ \o y)[j + Len(now_)] = y[j]
      BY <1>3, <1>4, Joined
    <2> QED
      BY <1>3, <1>4, <2>1, <2>2, <2>3, Zenon
  <1>9. ASSUME NEW p \in 1..Len(next) PROVE next[p] = all[p]
    <2>0. Len(x) \in Nat /\ p \in Nat /\ p =< r + Len(x)
      BY <1>1, <1>8, SMTT(30)
    <2>1. CASE p \in 1..r
      BY <1>6, <1>8, <2>1
    <2>2. CASE p \notin 1..r
      <3> DEFINE j == p - r
      <3>1. j \in 1..Len(x) /\ j + r = p /\ r + j = p /\ j \in 1..(d - r) /\ p \in (r + 1)..d
        BY <1>3, <1>5, <2>0, <2>2
      <3> HIDE DEF j
      <3>2. next[p] = y[j] /\ y[j] = <<kind, x[j]>> /\ x[j] = w[p]
        BY <1>4, <1>5, <1>8, <3>1
      <3> QED
        BY <1>7, <3>1, <3>2
    <2> QED
      BY <2>1, <2>2
  <1> QED
    BY <1>9, <1>c DEF SentSoFar, next, all
-----------------------------------------------------------------------------
(* How far the coroutine is, and how far the client.                       *)

\* The client does not send past the end of a message that was not read.
HeldBack(s, b, r, t) == \A k \in 0..Len(s) : b[k] < t => b[k] =< r

\* Where the coroutine is when it has read some requests: before a header, after the last
\* one, which waits for its decision, or in the body that follows.
AtStart(s, b, r, q, m, wait, i) ==
    /\ ~wait /\ m \in {"http", "new-request"} /\ i \in 0..Len(s)
    /\ r = b[i] /\ (q = r \/ (i < Len(s) /\ q < r + Top(s[i + 1])))
    /\ m = "new-request" => q = r
AtRequest(s, b, r, q, wait, i) ==
    wait /\ i \in 1..Len(s) /\ r = b[i - 1] + Top(s[i]) /\ q =< b[i]
InBody(s, b, r, q, m, nb, wait, i) ==
    /\ ~wait /\ m = "transfer" /\ i \in 1..Len(s) /\ q = r
    /\ b[i - 1] + Top(s[i]) =< r /\ nb \in Nat \ {0} /\ r + nb = b[i]

Phase(s, b, r, q, m, nb, wait, i) ==
    \/ AtStart(s, b, r, q, m, wait, i)
    \/ AtRequest(s, b, r, q, wait, i)
    \/ InBody(s, b, r, q, m, nb, wait, i)

Followed(s, b, w, got, buffer, sock, rest, m, nb, sk, wait, q, t) ==
    /\ got \in Seq(ReadParts) /\ SentSoFar(s, got) /\ sk = 0
    /\ Placed(w, buffer, sock, rest, Count(got), q, t)
    /\ HeldBack(s, b, Count(got), t)
    /\ Phase(s, b, Count(got), q, m, nb, wait, Heads(got))

\* One part more has its characters more, and is a request more or none.
LEMMA PartAdded ==
    ASSUME NEW got, NEW kind, NEW x, NEW more, OnePartMore(got, kind, x, more)
    PROVE  /\ more \in Seq(ReadParts) /\ Count(got) \in Nat /\ Heads(got) \in Int
           /\ Count(more) = Count(got) + Len(x)
           /\ kind = "request" => Heads(more) = Heads(got) + 1
           /\ kind = "content" => Heads(more) = Heads(got)
  <1>0. /\ got \in Seq(ReadParts) /\ kind \in Kinds /\ x \in Seq(Characters)
        /\ more = Append(got, <<kind, x>>)
    BY DEF OnePartMore
  <1> DEFINE piece == <<kind, x>>
  <1>1. piece \in ReadParts /\ piece[1] = kind /\ piece[2] = x
    BY <1>0 DEF ReadParts
  <1> HIDE DEF piece
  <1>2. more = Append(got, piece) /\ more \in Seq(ReadParts)
    BY <1>0, <1>1 DEF piece
  <1>3. Count(got) \in Nat /\ Count(more) = Count(got) + Len(x)
    BY <1>0, <1>1, <1>2, CountAppended
  <1>4. Heads(got) \in Int /\ Heads(more) = Heads(got) + One(piece)
    BY <1>0, <1>1, <1>2, HeadsAppended
  <1>5. kind = "request" => One(piece) = 1
    BY <1>1 DEF One
  <1>6. kind = "content" => One(piece) = 0
    BY <1>1 DEF One
  <1> QED
    BY <1>2, <1>3, <1>4, <1>5, <1>6

\* The ends of the messages in a frame.
LEMMA FrameEnds ==
    ASSUME NEW s, NEW b, NEW w, Frame(s, b, w)
    PROVE  /\ s \in Seq(OfLength) /\ Len(s) \in Nat /\ b \in [0..Len(s) -> Nat]
           /\ b[0] = 0 /\ Len(w) = b[Len(s)] /\ Len(w) \in Nat
           /\ \A i \in 0..Len(s) : b[i] \in Nat
           /\ \A i \in 1..Len(s) :
                /\ i - 1 \in 0..Len(s) /\ s[i] \in OfLength
                /\ Top(s[i]) \in Nat /\ Top(s[i]) > 0 /\ Size(s[i]) \in Nat
                /\ b[i] = b[i - 1] + (Top(s[i]) + Size(s[i]))
           /\ \A i, k \in 0..Len(s) : i < k => b[i] < b[k]
  <1>1. /\ s \in Seq(OfLength) /\ Len(s) \in Nat /\ b \in [0..Len(s) -> Nat]
        /\ b[0] = 0 /\ Len(w) = b[Len(s)]
        /\ \A i \in 1..Len(s) : b[i] = b[i - 1] + (Top(s[i]) + Size(s[i]))
        /\ \A i, k \in 0..Len(s) : i < k => b[i] < b[k]
    BY DEF Frame
  <1>2. ASSUME NEW i \in 1..Len(s)
        PROVE  /\ i - 1 \in 0..Len(s) /\ s[i] \in OfLength
               /\ Top(s[i]) \in Nat /\ Top(s[i]) > 0 /\ Size(s[i]) \in Nat
    <2>1. s[i] \in OfLength /\ i - 1 \in 0..Len(s)
      BY <1>1
    <2> QED
      BY <2>1, MessageParts
  <1>3. Len(s) \in 0..Len(s)
    BY <1>1
  <1> QED
    BY <1>1, <1>2, <1>3

\* More was read and nothing more was sent.
LEMMA StillHeldBack ==
    ASSUME NEW s, NEW b, NEW w, Frame(s, b, w), NEW r \in Nat, NEW g \in Nat, r =< g, NEW t \in Nat,
           HeldBack(s, b, r, t)
    PROVE  HeldBack(s, b, g, t)
  <1>1. \A k \in 0..Len(s) : b[k] \in Nat
    BY FrameEnds
  <1> QED
    BY <1>1 DEF HeldBack

\* The coroutine has found no header, or the header of the next message.
LEMMA HeaderFollowed ==
    ASSUME NEW b, NEW w, Frame(script, b, w), read \in Seq(ReadParts), SentSoFar(script, read),
           NEW i \in 1..Len(script), Heads(read) = i - 1, Count(read) = b[i - 1],
           NEW t \in Nat, b[i - 1] < t, t =< b[i], t =< Len(w), HeldBack(script, b, Count(read), t),
           NEW x, Extract(x, w, b[i - 1], t), Extract(unsent, w, t, Len(w)),
           IF Len(x) < Top(script[i]) THEN FoundNone(x) ELSE FoundHeader(x, Top(script[i])),
           socket' = <<>>, unsent' = unsent
    PROVE  Followed(script, b, w, read', r_buffer', socket', unsent', mode', nb_to_send',
                    seek', asked', t, t)
  <1> DEFINE r == Count(read)
             h == Top(script[i])
  <1>0. /\ r = b[i - 1] /\ r \in Nat /\ Len(script) \in Nat /\ Len(w) \in Nat
        /\ i - 1 \in 0..Len(script) /\ b[i] \in Nat /\ h \in Nat /\ h > 0
    <2>1. i \in 0..Len(script) /\ i - 1 \in 0..Len(script) /\ Len(script) \in Nat
          /\ Len(w) \in Nat /\ \A k \in 0..Len(script) : b[k] \in Nat
      BY FrameEnds
    <2>2. Top(script[i]) \in Nat /\ Top(script[i]) > 0
      BY FrameEnds
    <2> QED
      BY <2>1, <2>2
  <1>h. IF Len(x) < h THEN FoundNone(x) ELSE FoundHeader(x, h)
    OBVIOUS
  <1>t. \A k : k = i => Top(script[k]) = h
    OBVIOUS
  <1> HIDE DEF r, h
  <1>1. x \in Seq(Characters) /\ Len(x) = t - r /\ Extract(x, w, r, t)
    BY <1>0 DEF Extract
  <1>2. Extract(socket', w, t, t)
    BY NoExtract
  <1>3. CASE Len(x) < h
    <2>1. FoundNone(x)
      BY <1>3, <1>h
    <2>2. /\ read' = read /\ ~asked' /\ r_buffer' = x /\ mode' = "http" /\ seek' = 0
      BY <2>1 DEF FoundNone
    <2>3. Placed(w, r_buffer', socket', unsent', r, t, t)
      BY <1>0, <1>1, <1>2, <2>2 DEF Placed
    <2>4. t < r + h
      BY <1>0, <1>1, <1>3, SMTT(30)
    <2>7. i - 1 < Len(script) /\ Top(script[(i - 1) + 1]) = h
      BY <1>0, <1>t
    <2>5. AtStart(script, b, r, t, mode', asked', i - 1)
      BY <1>0, <2>2, <2>4, <2>7 DEF AtStart
    <2>6. SentSoFar(script, read')
      BY <2>2
    <2> QED
      BY <2>2, <2>3, <2>5, <2>6 DEF Followed, Phase, r
  <1>4. CASE ~(Len(x) < h)
    <2> DEFINE u == SubSeq(x, 1, h)
               v == SubSeq(x, h + 1, Len(x))
    <2>1. FoundHeader(x, h)
      BY <1>4, <1>h
    <2>2. /\ read' = Append(read, <<"request", u>>) /\ asked' /\ r_buffer' = v /\ seek' = 0
      BY <2>1 DEF FoundHeader
    <2>3. r + h =< t
      BY <1>0, <1>1, <1>4, SMTT(30)
    <2>4. Extract(u, w, r, r + h) /\ Extract(v, w, r + h, t)
      BY <1>0, <1>1, <2>3, ExtractsCut
    <2>5. u \in Seq(Characters) /\ Len(u) = h
      <3>1. (r + h) - r = h
        BY <1>0
      <3> QED
        BY <2>4, <3>1 DEF Extract
    <2> HIDE DEF u, v
    <2>m. OnePartMore(read, "request", u, read')
      BY <2>2, <2>5 DEF OnePartMore, Kinds
    <2>6. read' \in Seq(ReadParts) /\ Count(read') = r + h /\ Heads(read') = i
      <3>3. /\ read' \in Seq(ReadParts) /\ Heads(read) \in Int
            /\ Count(read') = Count(read) + Len(u) /\ Heads(read') = Heads(read) + 1
        BY <2>m, PartAdded
      <3> QED
        BY <2>5, <3>3 DEF r
    <2>7. Placed(w, r_buffer', socket', unsent', r + h, t, t)
      BY <1>0, <1>2, <2>2, <2>3, <2>4, SMTT(30) DEF Placed
    <2>8. HeldBack(script, b, r + h, t)
      <3>1. HeldBack(script, b, r, t) /\ r + h \in Nat /\ r =< r + h
        BY <1>0 DEF r
      <3> QED
        BY <1>0, <3>1, StillHeldBack
    <2>9. AtRequest(script, b, r + h, t, asked', i)
      BY <1>0, <2>2 DEF AtRequest, h
    <2>10. SentSoFar(script, read')
      <3>1. SentAs(script, w, "request", r, r + h)
        BY <1>0, TagsThere DEF h
      <3>2. r + h \in Nat
        BY <1>0, SMTT(30)
      <3> QED
        BY <2>4, <2>m, <3>1, <3>2, SentSoFarMore DEF r
    <2> QED
      BY <2>2, <2>6, <2>7, <2>8, <2>9, <2>10 DEF Followed, Phase
  <1> QED
    BY <1>3, <1>4

\* The coroutine has read all that it had of a body.
LEMMA ContentFollowed ==
    ASSUME NEW b, NEW w, Frame(script, b, w), read \in Seq(ReadParts), SentSoFar(script, read),
           NEW i \in 1..Len(script), Heads(read) = i, b[i - 1] + Top(script[i]) =< Count(read),
           NEW q \in Nat, Count(read) < q, q =< b[i],
           NEW t \in Nat, q =< t, t =< Len(w), HeldBack(script, b, Count(read), t),
           NEW x, Extract(x, w, Count(read), q), Extract(socket', w, q, t),
           Extract(unsent, w, t, Len(w)),
           NEW n \in Nat, Count(read) + n = b[i], FoundContent(x, n), unsent' = unsent
    PROVE  Followed(script, b, w, read', r_buffer', socket', unsent', mode', nb_to_send',
                    seek', asked', q, t)
  <1> DEFINE r == Count(read)
  <1>0. /\ Len(script) \in Nat /\ Len(w) \in Nat /\ i \in 0..Len(script) /\ i - 1 \in 0..Len(script)
        /\ b[i] \in Nat /\ b[i - 1] \in Nat /\ Top(script[i]) \in Nat
    <2>1. i \in 0..Len(script) /\ i - 1 \in 0..Len(script) /\ Len(script) \in Nat
          /\ Len(w) \in Nat /\ \A k \in 0..Len(script) : b[k] \in Nat
      BY FrameEnds
    <2>2. Top(script[i]) \in Nat
      BY FrameEnds
    <2> QED
      BY <2>1, <2>2
  <1>1. x \in Seq(Characters) /\ Len(x) = q - r
    BY DEF Extract
  <1>2. /\ read' = Append(read, <<"content", x>>) /\ ~asked' /\ r_buffer' = <<>>
        /\ seek' = 0 /\ nb_to_send' = n - Len(x)
        /\ mode' = IF Len(x) = n THEN "new-request" ELSE "transfer"
    BY DEF FoundContent
  <1>3. OnePartMore(read, "content", x, read')
    BY <1>1, <1>2 DEF OnePartMore, Kinds
  <1>4. /\ read' \in Seq(ReadParts) /\ Count(read) \in Nat
        /\ Count(read') = Count(read) + Len(x) /\ Heads(read') = Heads(read)
    BY <1>3, PartAdded
  <1>5. r \in Nat /\ r < q /\ q =< b[i] /\ r + n = b[i] /\ b[i - 1] + Top(script[i]) =< r
    BY <1>4
  <1>6. Count(read') = q /\ Heads(read') = i
    <2>1. Count(read') = r + (q - r)
      BY <1>1, <1>4
    <2> HIDE DEF r
    <2>2. r + (q - r) = q
      BY <1>5
    <2> QED
      BY <1>4, <2>1, <2>2
  <1>7. HeldBack(script, b, q, t)
    <2>1. HeldBack(script, b, r, t) /\ r =< q
      BY <1>5
    <2> HIDE DEF r
    <2> QED
      BY <1>5, <2>1, StillHeldBack
  <1>10. SentSoFar(script, read')
    <2>1. SentAs(script, w, "content", b[i - 1] + Top(script[i]), b[i])
      BY TagsThere
    <2>2. \A p \in (r + 1)..q : p \in ((b[i - 1] + Top(script[i])) + 1)..b[i]
      <3> HIDE DEF r
      <3> QED
        BY <1>0, <1>5, SMTT(30)
    <2>3. SentAs(script, w, "content", r, q)
      BY <2>1, <2>2 DEF SentAs
    <2> QED
      BY <1>3, <2>3, SentSoFarMore
  <1> HIDE DEF r
  <1>8. Placed(w, r_buffer', socket', unsent', q, q, t)
    <2>1. Extract(r_buffer', w, q, q)
      BY <1>2, NoExtract
    <2> QED
      BY <1>2, <2>1 DEF Placed
  <1>9. Phase(script, b, q, q, mode', nb_to_send', asked', i)
    <2>1. CASE Len(x) = n
      <3>1. q = b[i]
        BY <1>0, <1>1, <1>5, <2>1, SMTT(30)
      <3>2. mode' = "new-request"
        BY <1>2, <2>1
      <3> QED
        BY <1>0, <1>2, <3>1, <3>2 DEF AtStart, Phase
    <2>2. CASE Len(x) # n
      <3>1. n - Len(x) \in Nat \ {0} /\ q + (n - Len(x)) = b[i] /\ b[i - 1] + Top(script[i]) =< q
        BY <1>0, <1>1, <1>5, <2>2, SMTT(30)
      <3>2. mode' = "transfer"
        BY <1>2, <2>2
      <3>3. InBody(script, b, q, q, mode', nb_to_send', asked', i)
        BY <1>2, <3>1, <3>2 DEF InBody
      <3> QED
        BY <3>3 DEF Phase
    <2> QED
      BY <2>1, <2>2
  <1> QED
    BY <1>2, <1>4, <1>6, <1>7, <1>8, <1>9, <1>10 DEF Followed

\* The coroutine has looked at an empty buffer after a message.
LEMMA NothingFollowed ==
    ASSUME NEW b, NEW w, Frame(script, b, w), read \in Seq(ReadParts), SentSoFar(script, read),
           NEW i \in 0..Len(script), Heads(read) = i, Count(read) = b[i],
           NEW t, Placed(w, <<>>, socket, unsent, Count(read), Count(read), t),
           HeldBack(script, b, Count(read), t),
           FoundNone(<<>>), socket' = socket, unsent' = unsent
    PROVE  Followed(script, b, w, read', r_buffer', socket', unsent', mode', nb_to_send',
                    seek', asked', Count(read), t)
  <1>1. read' = read /\ ~asked' /\ r_buffer' = <<>> /\ mode' = "http" /\ seek' = 0
    BY DEF FoundNone
  <1>2. Count(read) \in Nat
    BY DEF Placed
  <1>4. AtStart(script, b, Count(read), Count(read), mode', asked', i)
    BY <1>1, <1>2 DEF AtStart
  <1>5. SentSoFar(script, read')
    BY <1>1
  <1> QED
    BY <1>1, <1>4, <1>5 DEF Followed, Phase

\* A part of a text that is sent.
PartSent(sock, rest, n, s, v) ==
    n \in 1..Len(rest) /\ s = sock \o SubSeq(rest, 1, n) /\ v = SubSeq(rest, n + 1, Len(rest))

\* What the client sends goes from its text to the end of what is in the socket.
LEMMA PlacedSent ==
    ASSUME NEW w, NEW buffer, NEW sock, NEW rest, NEW r, NEW q, NEW t,
           Placed(w, buffer, sock, rest, r, q, t), Len(w) \in Nat,
           NEW n, NEW s, NEW v, PartSent(sock, rest, n, s, v)
    PROVE  t + n \in Nat /\ t \in Nat /\ n \in Nat /\ Placed(w, buffer, s, v, r, q, t + n)
  <1>1. /\ r \in Nat /\ q \in Nat /\ t \in Nat /\ r =< q /\ q =< t /\ t =< Len(w)
        /\ Extract(buffer, w, r, q) /\ Extract(sock, w, q, t) /\ Extract(rest, w, t, Len(w))
    BY DEF Placed
  <1>2. rest \in Seq(Characters) /\ Len(rest) = Len(w) - t
    BY <1>1 DEF Extract
  <1>s. n \in 1..Len(rest) /\ s = sock \o SubSeq(rest, 1, n) /\ v = SubSeq(rest, n + 1, Len(rest))
    BY DEF PartSent
  <1>3. n \in Nat /\ t + n =< Len(w) /\ t =< t + n /\ q =< t + n /\ t + n \in Nat
    BY <1>s, <1>1, <1>2
  <1> DEFINE u == SubSeq(rest, 1, n)
  <1>4. Extract(u, w, t, t + n) /\ Extract(v, w, t + n, Len(w))
    BY <1>s, <1>1, <1>3, ExtractsCut
  <1> HIDE DEF u
  <1>5. Extract(sock \o u, w, q, t + n)
    BY <1>1, <1>3, <1>4, ExtractsJoin
  <1>6. s = sock \o u
    BY <1>s DEF u
  <1> QED
    BY <1>1, <1>3, <1>4, <1>5, <1>6 DEF Placed

Measured(s, b, w) == Frame(s, b, w) /\ Counted(s, b)

\* What the client counts is what the text and its messages are as long as.
LEMMA ClientCounts ==
    ASSUME NEW b, NEW w, Measured(script, b, w),
           NEW t \in Nat, t =< Len(w), Extract(unsent, w, t, Len(w))
    PROVE  /\ Http!Sent = t
           /\ \A n : Http!MaySend(n) <=>
                \A i \in 1..Len(script) : t =< b[i] /\ b[i] < t + n => Count(read) >= b[i]
  <1>1. /\ script \in Seq(OfLength) /\ Len(script) \in Nat /\ Len(w) \in Nat
        /\ Len(w) = b[Len(script)] /\ \A i \in 0..Len(script) : b[i] \in Nat
    BY FrameEnds DEF Measured
  <1>2. DOMAIN script = 1..Len(script)
    BY <1>1
  <1>3. \A i \in 0..Len(script) : b[i] = Count(Http!Expected(SubSeq(script, 1, i)))
    BY DEF Measured, Counted
  <1>4. SubSeq(script, 1, Len(script)) = script
    <2> DEFINE u == SubSeq(script, 1, Len(script))
    <2>1. Len(script) \in 0..Len(script)
      BY <1>1
    <2>2. /\ u \in Seq(OfLength) /\ Len(u) = Len(script)
          /\ \A j \in 1..Len(script) : u[j] = script[j]
      BY <1>1, <2>1, Beginning
    <2> HIDE DEF u
    <2>3. u = script
      BY <1>1, <2>2, SameSequences
    <2> QED
      BY <2>3 DEF u
  <1>5. Count(Http!Expected(script)) = Len(w)
    <2>1. Len(script) \in 0..Len(script)
      BY <1>1
    <2> QED
      BY <1>1, <1>3, <1>4, <2>1
  <1>6. Len(unsent) = Len(w) - t
    BY DEF Extract
  <1>7. Count(Http!Expected(script)) - Len(unsent) = t
    BY <1>1, <1>5, <1>6
  <1>8. Http!Sent = t
    BY <1>7 DEF Http!Sent, Count
  <1>9. ASSUME NEW n
        PROVE  Http!MaySend(n) <=>
                 \A i \in 1..Len(script) : t =< b[i] /\ b[i] < t + n => Count(read) >= b[i]
    <2>1. Http!MaySend(n) <=>
            \A i \in 1..Len(script) :
              LET before == Count(Http!Expected(SubSeq(script, 1, i)))
                  sent_ == Count(Http!Expected(script)) - Len(unsent)
              IN  sent_ =< before /\ before < sent_ + n => Count(read) >= before
      BY <1>2 DEF Http!MaySend, Http!Relayed, Count
    <2>2. \A i \in 1..Len(script) : b[i] = Count(Http!Expected(SubSeq(script, 1, i)))
      BY <1>1, <1>3
    <2> QED
      BY <1>7, <2>1, <2>2
  <1> QED
    BY <1>8, <1>9

\* The client sends a part of its text.
LEMMA SendFollowed ==
    ASSUME NEW b, NEW w, Measured(script, b, w), NEW q, NEW t,
           Followed(script, b, w, read, r_buffer, socket, unsent, mode, nb_to_send, seek, asked, q, t),
           NEW n \in DOMAIN unsent, Http!send(n)
    PROVE  Followed(script, b, w, read', r_buffer', socket', unsent', mode', nb_to_send',
                    seek', asked', q, t + n)
  <1>1. /\ read \in Seq(ReadParts) /\ SentSoFar(script, read) /\ seek = 0
        /\ Placed(w, r_buffer, socket, unsent, Count(read), q, t)
        /\ HeldBack(script, b, Count(read), t)
        /\ Phase(script, b, Count(read), q, mode, nb_to_send, asked, Heads(read))
    BY DEF Followed
  <1>2. /\ socket' = socket \o SubSeq(unsent, 1, n) /\ unsent' = SubSeq(unsent, n + 1, Len(unsent))
        /\ r_buffer' = r_buffer /\ mode' = mode /\ nb_to_send' = nb_to_send /\ seek' = seek
        /\ asked' = asked /\ read' = read /\ Http!MaySend(n)
    BY DEF Http!send, Http!coroutine
  <1>3. /\ Frame(script, b, w) /\ Len(w) \in Nat /\ \A i \in 0..Len(script) : b[i] \in Nat
        /\ b[0] = 0 /\ Len(script) \in Nat
    BY FrameEnds DEF Measured
  <1>4. t \in Nat /\ t =< Len(w) /\ Extract(unsent, w, t, Len(w)) /\ Count(read) \in Nat
    BY <1>1 DEF Placed
  <1>5. PartSent(socket, unsent, n, socket', unsent')
    <2>1. unsent \in Seq(Characters)
      BY <1>4 DEF Extract
    <2>2. n \in 1..Len(unsent)
      BY <2>1
    <2> QED
      BY <1>2, <2>2 DEF PartSent
  <1>6. /\ t + n \in Nat /\ n \in Nat
        /\ Placed(w, r_buffer, socket', unsent', Count(read), q, t + n)
    BY <1>1, <1>3, <1>5, PlacedSent, Zenon
  <1>7. \A i \in 1..Len(script) : t =< b[i] /\ b[i] < t + n => Count(read) >= b[i]
    BY <1>2, <1>4, ClientCounts
  <1>8. HeldBack(script, b, Count(read), t + n)
    <2> SUFFICES ASSUME NEW k \in 0..Len(script), b[k] < t + n PROVE b[k] =< Count(read)
      BY DEF HeldBack
    <2> DEFINE r == Count(read)
    <2>0. r \in Nat /\ b[k] \in Nat /\ t \in Nat
      BY <1>3, <1>4
    <2>1. CASE b[k] < t
      BY <1>1, <2>1 DEF HeldBack
    <2>2. CASE k = 0
      BY <1>3, <2>0, <2>2
    <2>3. CASE ~(b[k] < t) /\ k # 0
      <3>1. k \in 1..Len(script) /\ t =< b[k]
        BY <1>3, <2>0, <2>3
      <3>2. Count(read) >= b[k]
        BY <1>7, <3>1
      <3> QED
        BY <2>0, <3>2
    <2> QED
      BY <2>1, <2>2, <2>3
  <1> QED
    BY <1>1, <1>2, <1>6, <1>8, Zenon DEF Followed

Receives(m) == m # "new-request" /\ (m # "transfer" \/ r_buffer = <<>>)

\* The three ways to resume: the socket is read, it has nothing, or the buffer comes first.
LEMMA Resumed ==
    ASSUME NEW m, NEW nb, Http!resume(m, nb)
    PROVE  /\ Receives(m) /\ socket # <<>> =>
                /\ socket' = <<>>
                /\ IF m \in {"new-request", "http"} THEN Http!readHeader(r_buffer \o socket)
                   ELSE Http!readContent(m, r_buffer \o socket, nb)
           /\ Receives(m) /\ socket = <<>> =>
                /\ mode' = m /\ nb_to_send' = nb /\ ~asked' /\ r_buffer' = r_buffer
                /\ seek' = seek /\ socket' = socket /\ read' = read
           /\ ~Receives(m) =>
                /\ socket' = socket
                /\ IF m \in {"new-request", "http"} THEN Http!readHeader(r_buffer)
                   ELSE Http!readContent(m, r_buffer, nb)
  BY DEF Http!resume, Receives

\* What Followed says of the places of the text.
LEMMA PlacesOfText ==
    ASSUME NEW w, NEW buffer, NEW sock, NEW rest, NEW r, NEW q, NEW t,
           Placed(w, buffer, sock, rest, r, q, t)
    PROVE  /\ r \in Nat /\ q \in Nat /\ t \in Nat /\ r =< q /\ q =< t /\ t =< Len(w)
           /\ Extract(buffer, w, r, q) /\ Extract(sock, w, q, t) /\ Extract(rest, w, t, Len(w))
           /\ (buffer = <<>> <=> r = q) /\ (sock = <<>> <=> q = t)
           /\ Extract(buffer \o sock, w, r, t)
  <1>1. /\ r \in Nat /\ q \in Nat /\ t \in Nat /\ r =< q /\ q =< t /\ t =< Len(w)
        /\ Extract(buffer, w, r, q) /\ Extract(sock, w, q, t) /\ Extract(rest, w, t, Len(w))
    BY DEF Placed
  <1>2. (buffer = <<>> <=> r = q) /\ (sock = <<>> <=> q = t)
    BY <1>1, EmptyPlace
  <1>3. Extract(buffer \o sock, w, r, t)
    BY <1>1, ExtractsJoin
  <1> QED
    BY <1>1, <1>2, <1>3

\* The coroutine looks for a request in an empty buffer.
LEMMA EmptyResumed ==
    ASSUME NEW b, NEW w, Frame(script, b, w), NEW i \in 0..Len(script),
           Heads(read) = i, Count(read) = b[i], read \in Seq(ReadParts),
           SentSoFar(script, read), seek = 0,
           NEW t, Placed(w, r_buffer, socket, unsent, Count(read), Count(read), t),
           HeldBack(script, b, Count(read), t),
           NEW nb, Http!resume("new-request", nb), unsent' = unsent
    PROVE  Followed(script, b, w, read', r_buffer', socket', unsent', mode', nb_to_send',
                    seek', asked', Count(read), t)
  <1>1. r_buffer = <<>>
    BY PlacesOfText
  <1>2. ~Receives("new-request")
    BY DEF Receives
  <1>3. socket' = socket /\ Http!readHeader(r_buffer)
    BY <1>2, Resumed
  <1>4. FoundNone(<<>>)
    BY <1>1, <1>3, HeaderOfNothing
  <1>5. Placed(w, <<>>, socket, unsent, Count(read), Count(read), t)
    BY <1>1
  <1> HIDE <1>1
  <1> QED
    BY <1>3, <1>4, <1>5, NothingFollowed

\* It reads the socket before a header.
LEMMA StartResumed ==
    ASSUME NEW b, NEW w, Frame(script, b, w), NEW q, NEW t,
           Followed(script, b, w, read, r_buffer, socket, unsent, mode, nb_to_send, seek, asked, q, t),
           AtStart(script, b, Count(read), q, "http", asked, Heads(read)), socket # <<>>,
           NEW nb, Http!resume("http", nb), unsent' = unsent
    PROVE  Followed(script, b, w, read', r_buffer', socket', unsent', mode', nb_to_send',
                    seek', asked', t, t)
  <1> DEFINE r == Count(read)
             i == Heads(read)
             x == r_buffer \o socket
  <1>1. /\ read \in Seq(ReadParts) /\ SentSoFar(script, read) /\ seek = 0
        /\ Placed(w, r_buffer, socket, unsent, r, q, t) /\ HeldBack(script, b, r, t)
    BY DEF Followed
  <1>2. i \in 0..Len(script) /\ r = b[i]
    BY DEF AtStart
  <1>3. /\ r \in Nat /\ q \in Nat /\ t \in Nat /\ r =< q /\ q =< t /\ t =< Len(w)
        /\ Extract(unsent, w, t, Len(w)) /\ (socket = <<>> <=> q = t) /\ Extract(x, w, r, t)
    BY <1>1, PlacesOfText
  <1>4. Receives("http")
    BY DEF Receives
  <1>5. socket' = <<>> /\ Http!readHeader(x)
    BY <1>4, Resumed
  <1>6. /\ Len(script) \in Nat /\ Len(w) \in Nat /\ Len(w) = b[Len(script)]
        /\ \A k \in 0..Len(script) : b[k] \in Nat
        /\ \A k, l \in 0..Len(script) : k < l => b[k] < b[l]
    BY FrameEnds
  <1> HIDE DEF r, i, x
  <1>7. r < t
    BY <1>3
  <1>8. i # Len(script) /\ i \in Nat
    BY <1>2, <1>3, <1>6, <1>7
  <1> DEFINE k == i + 1
  <1>9. k \in 1..Len(script) /\ k \in 0..Len(script) /\ i = k - 1 /\ i < k
    BY <1>2, <1>6, <1>8
  <1> HIDE DEF k
  <1>10. t =< b[k]
    <2>1. b[k] < t => b[k] =< r
      BY <1>1, <1>9 DEF HeldBack
    <2>2. b[k] \in Nat /\ b[i] < b[k]
      BY <1>2, <1>6, <1>9
    <2> QED
      BY <1>2, <1>3, <2>1, <2>2
  <1>11. b[k - 1] < t /\ Extract(x, w, b[k - 1], t) /\ Heads(read) = k - 1 /\ Count(read) = b[k - 1]
    BY <1>2, <1>3, <1>7, <1>9 DEF i, r
  <1>12. script[k] \in OfLength /\ Begins(x, script[k])
    BY <1>3, <1>9, <1>10, <1>11, HeaderThere
  <1>13. IF Len(x) < Top(script[k]) THEN FoundNone(x) ELSE FoundHeader(x, Top(script[k]))
    BY <1>1, <1>5, <1>12, HeaderRead
  <1>14. HeldBack(script, b, Count(read), t)
    BY <1>1 DEF r
  <1> QED
    BY <1>1, <1>3, <1>5, <1>9, <1>10, <1>11, <1>13, <1>14, HeaderFollowed

\* It reads of a body what is in the buffer, or in the socket if the buffer is empty.
LEMMA BodyResumed ==
    ASSUME NEW b, NEW w, Frame(script, b, w), NEW q, NEW t,
           Followed(script, b, w, read, r_buffer, socket, unsent, mode, nb_to_send, seek, asked, q, t),
           NEW i \in 1..Len(script), Heads(read) = i, b[i - 1] + Top(script[i]) =< Count(read), q =< b[i],
           NEW n \in Nat \ {0}, Count(read) + n = b[i],
           Http!resume("transfer", n), unsent' = unsent
    PROVE  \E p : Followed(script, b, w, read', r_buffer', socket', unsent', mode', nb_to_send',
                           seek', asked', p, t)
  <1> DEFINE r == Count(read)
  <1>1. /\ read \in Seq(ReadParts) /\ SentSoFar(script, read) /\ seek = 0
        /\ Placed(w, r_buffer, socket, unsent, r, q, t) /\ HeldBack(script, b, r, t)
    BY DEF Followed
  <1>2. /\ r \in Nat /\ q \in Nat /\ t \in Nat /\ r =< q /\ q =< t /\ t =< Len(w)
        /\ Extract(r_buffer, w, r, q) /\ Extract(socket, w, q, t) /\ Extract(unsent, w, t, Len(w))
        /\ (r_buffer = <<>> <=> r = q) /\ (socket = <<>> <=> q = t)
    BY <1>1, PlacesOfText
  <1>3. /\ Len(script) \in Nat /\ Len(w) \in Nat /\ b[i] \in Nat /\ i \in 0..Len(script)
    <2>1. Len(script) \in Nat /\ Len(w) \in Nat /\ \A k \in 0..Len(script) : b[k] \in Nat
      BY FrameEnds
    <2>2. i \in 0..Len(script)
      BY <2>1
    <2> QED
      BY <2>1, <2>2
  <1> HIDE DEF r
  <1>4. r + n = b[i] /\ r < b[i] /\ b[i - 1] + Top(script[i]) =< r
    BY <1>2, <1>3 DEF r
  <1>5. t =< b[i]
    <2>1. b[i] < t => b[i] =< r
      BY <1>1, <1>3 DEF HeldBack
    <2> QED
      BY <1>2, <1>3, <1>4, <2>1
  \* What is read up to a place p, all of which is due.
  <1>6. ASSUME NEW p \in Nat, r < p, p =< t, NEW x, Extract(x, w, r, p),
               Http!readContent("transfer", x, n), Extract(socket', w, p, t)
        PROVE  Followed(script, b, w, read', r_buffer', socket', unsent', mode', nb_to_send',
                        seek', asked', p, t)
    <2>1. p =< b[i]
      BY <1>2, <1>3, <1>5, <1>6
    <2>2. x \in Seq(Characters) /\ x # <<>> /\ Len(x) = p - r
      BY <1>2, <1>6, EmptyPlace
    <2>3. Len(x) =< n
      BY <1>2, <1>3, <1>4, <1>6, <2>1, <2>2
    <2>4. FoundContent(x, n)
      BY <1>6, <2>2, <2>3, ContentRead
    <2>5. b[i - 1] + Top(script[i]) =< Count(read) /\ Count(read) < p /\ Extract(x, w, Count(read), p)
          /\ Count(read) + n = b[i] /\ HeldBack(script, b, Count(read), t)
      BY <1>1, <1>4, <1>6 DEF r
    <2> QED
      BY <1>1, <1>2, <1>6, <2>1, <2>4, <2>5, ContentFollowed
  <1>7. CASE r_buffer = <<>>
    <2>1. Receives("transfer") /\ r = q
      BY <1>2, <1>7 DEF Receives
    <2>2. CASE socket = <<>>
      <3>1. /\ mode' = "transfer" /\ nb_to_send' = n /\ ~asked' /\ r_buffer' = r_buffer
            /\ seek' = seek /\ socket' = socket /\ read' = read
        BY <2>1, <2>2, Resumed
      <3>5. SentSoFar(script, read')
        BY <1>1, <3>1
      <3>2. InBody(script, b, r, q, mode', nb_to_send', asked', i)
        BY <1>4, <2>1, <3>1 DEF InBody
      <3>3. Placed(w, r_buffer', socket', unsent', r, q, t)
        BY <1>1, <3>1
      <3>4. Followed(script, b, w, read', r_buffer', socket', unsent', mode', nb_to_send',
                     seek', asked', q, t)
        BY <1>1, <3>1, <3>2, <3>3, <3>5 DEF Followed, Phase, r
      <3> QED
        BY <3>4
    <2>3. CASE socket # <<>>
      <3>1. socket' = <<>> /\ Http!readContent("transfer", r_buffer \o socket, n)
        BY <2>1, <2>3, Resumed
      <3>2. r_buffer \o socket = socket
        <4>1. socket \in Seq(Characters)
          BY <1>2 DEF Extract
        <4> QED
          BY <1>7, <4>1
      <3>3. Extract(socket', w, t, t)
        BY <1>2, <3>1, NoExtract
      <3>4. r < t /\ Extract(socket, w, r, t) /\ t =< t
        BY <1>2, <2>1, <2>3
      <3>5. Followed(script, b, w, read', r_buffer', socket', unsent', mode', nb_to_send',
                     seek', asked', t, t)
        BY <1>2, <1>6, <3>1, <3>2, <3>3, <3>4
      <3> QED
        BY <3>5
    <2> QED
      BY <2>2, <2>3
  <1>8. CASE r_buffer # <<>>
    <2>1. ~Receives("transfer")
      BY <1>8 DEF Receives
    <2>2. socket' = socket /\ Http!readContent("transfer", r_buffer, n)
      BY <2>1, Resumed
    <2>3. r < q /\ Extract(socket', w, q, t)
      BY <1>2, <1>8, <2>2
    <2>4. Followed(script, b, w, read', r_buffer', socket', unsent', mode', nb_to_send',
                   seek', asked', q, t)
      BY <1>2, <1>6, <2>2, <2>3
    <2> QED
      BY <2>4
  <1> QED
    BY <1>7, <1>8

\* What TransfersGoThrough and the last theorem are about.
AllOfLength == \A i \in DOMAIN script : Http!Plain(script[i]) /\ script[i].mode = "transfer"

\* The invariant of the coroutine, while it reads such messages.
HttpInv ==
    /\ script \in Scripts
    /\ AllOfLength =>
         \E b, w, q, t :
           /\ Measured(script, b, w)
           /\ Followed(script, b, w, read, r_buffer, socket, unsent, mode, nb_to_send, seek, asked, q, t)

\* A script of such messages.
LEMMA OfLengths ==
    ASSUME script \in Scripts, AllOfLength
    PROVE  script \in Seq(OfLength)
  <1>1. script \in Seq(HttpMessage)
    BY PartsAssumption DEF HttpMessage
  <1>2. DOMAIN script = 1..Len(script) /\ Len(script) \in Nat
    BY <1>1
  <1>3. \A i \in 1..Len(script) : script[i] \in HttpMessage
    BY <1>1
  <1>4. \A i \in 1..Len(script) : script[i] \in OfLength
    BY <1>2, <1>3 DEF AllOfLength, OfLength
  <1>5. script \in [1..Len(script) -> OfLength]
    BY <1>1, <1>2, <1>4
  <1> QED
    BY <1>2, <1>5

\* The invariant holds when nothing was sent.
LEMMA HttpBegins ==
    ASSUME Http!Init
    PROVE  HttpInv
  <1>0. /\ script \in Scripts /\ socket = <<>> /\ r_buffer = <<>> /\ mode = "http" /\ seek = 0
        /\ ~asked /\ read = <<>> /\ unsent = TextOf(Http!Expected(script))
    BY DEF Http!Init, TextOf
  <1>1. SUFFICES ASSUME AllOfLength
                 PROVE  \E b, w, q, t :
                          /\ Measured(script, b, w)
                          /\ Followed(script, b, w, read, r_buffer, socket, unsent, mode,
                                      nb_to_send, seek, asked, q, t)
    BY <1>0 DEF HttpInv
  <1>2. script \in Seq(OfLength)
    BY <1>0, <1>1, OfLengths
  <1> DEFINE w == TextOf(Http!Expected(script))
  <1>3. PICK b : Frame(script, b, w) /\ Counted(script, b)
    BY <1>2, Framed
  <1> HIDE DEF w
  <1>4. /\ Len(script) \in Nat /\ Len(w) \in Nat /\ b[0] = 0
        /\ \A k \in 0..Len(script) : b[k] \in Nat
    BY <1>3, FrameEnds
  <1>5. w \in Seq(Characters) /\ unsent = w
    BY <1>0, <1>3 DEF Frame, w
  <1>6. Count(read) = 0 /\ Heads(read) = 0 /\ read \in Seq(ReadParts)
    <2>1. <<>> \in Seq(ReadParts)
      OBVIOUS
    <2> QED
      BY <1>0, <2>1, NothingExpected, HeadsNothing
  <1>13. SentSoFar(script, read)
    <2>1. 1..0 = {}
      OBVIOUS
    <2> QED
      BY <1>6, <2>1 DEF SentSoFar
  <1>7. Extract(<<>>, w, 0, 0)
    BY NoExtract
  <1>8. Extract(unsent, w, 0, Len(w))
    <2>1. Len(w) - 0 = Len(w) /\ \A j \in 1..Len(w) : 0 + j = j
      BY <1>4
    <2> QED
      BY <1>5, <2>1 DEF Extract
  <1>9. Placed(w, r_buffer, socket, unsent, 0, 0, 0)
    BY <1>0, <1>4, <1>7, <1>8 DEF Placed
  <1>10. HeldBack(script, b, 0, 0)
    BY <1>4 DEF HeldBack
  <1>11. AtStart(script, b, 0, 0, mode, asked, 0)
    BY <1>0, <1>4 DEF AtStart
  <1>12. Followed(script, b, w, read, r_buffer, socket, unsent, mode, nb_to_send, seek, asked, 0, 0)
    BY <1>0, <1>6, <1>9, <1>10, <1>11, <1>13 DEF Followed, Phase
  <1> QED
    BY <1>3, <1>12 DEF Measured

\* The steps of the other parts leave the client and the coroutine as they are.
LEMMA HttpStays ==
    ASSUME HttpInv, UNCHANGED http
    PROVE  HttpInv'
  <1>1. /\ script' = script /\ unsent' = unsent /\ socket' = socket /\ r_buffer' = r_buffer
        /\ mode' = mode /\ nb_to_send' = nb_to_send /\ seek' = seek /\ asked' = asked /\ read' = read
    BY DEF http
  <1> QED
    BY <1>1, Zenon DEF HttpInv, AllOfLength

\* The coroutine reads what came.
LEMMA DataFollowed ==
    ASSUME NEW b, NEW w, Frame(script, b, w), NEW q, NEW t,
           Followed(script, b, w, read, r_buffer, socket, unsent, mode, nb_to_send, seek, asked, q, t),
           Http!readData
    PROVE  \E p : Followed(script, b, w, read', r_buffer', socket', unsent', mode', nb_to_send',
                           seek', asked', p, t)
  <1>1. /\ read \in Seq(ReadParts) /\ SentSoFar(script, read) /\ seek = 0
        /\ Placed(w, r_buffer, socket, unsent, Count(read), q, t)
        /\ HeldBack(script, b, Count(read), t)
        /\ Phase(script, b, Count(read), q, mode, nb_to_send, asked, Heads(read))
    BY DEF Followed
  <1>2. socket # <<>> /\ ~asked /\ Http!resume(mode, nb_to_send) /\ unsent' = unsent
    BY DEF Http!readData
  <1>3. CASE AtStart(script, b, Count(read), q, mode, asked, Heads(read))
    <2>1. /\ mode \in {"http", "new-request"} /\ Heads(read) \in 0..Len(script)
          /\ Count(read) = b[Heads(read)] /\ (mode = "new-request" => q = Count(read))
      BY <1>3 DEF AtStart
    <2>2. CASE mode = "http"
      <3>1. /\ AtStart(script, b, Count(read), q, "http", asked, Heads(read))
            /\ Http!resume("http", nb_to_send)
        BY <1>2, <1>3, <2>2
      <3>2. Followed(script, b, w, read', r_buffer', socket', unsent', mode', nb_to_send',
                     seek', asked', t, t)
        BY <1>2, <3>1, StartResumed
      <3> QED
        BY <3>2
    <2>3. CASE mode = "new-request"
      <3>1. /\ Placed(w, r_buffer, socket, unsent, Count(read), Count(read), t)
            /\ Http!resume("new-request", nb_to_send)
        BY <1>1, <1>2, <2>1, <2>3
      <3>2. Followed(script, b, w, read', r_buffer', socket', unsent', mode', nb_to_send',
                     seek', asked', Count(read), t)
        BY <1>1, <1>2, <2>1, <3>1, EmptyResumed
      <3> QED
        BY <3>2
    <2> QED
      BY <2>1, <2>2, <2>3
  <1>4. CASE InBody(script, b, Count(read), q, mode, nb_to_send, asked, Heads(read))
    <2> DEFINE i == Heads(read)
    <2>1. /\ mode = "transfer" /\ i \in 1..Len(script) /\ q = Count(read)
          /\ b[i - 1] + Top(script[i]) =< Count(read) /\ nb_to_send \in Nat \ {0}
          /\ Count(read) + nb_to_send = b[i]
      BY <1>4 DEF InBody
    <2>2. q =< b[i]
      <3>1. q \in Nat
        BY <1>1 DEF Placed
      <3> HIDE DEF i
      <3> QED
        BY <2>1, <3>1
    <2>3. Http!resume("transfer", nb_to_send)
      BY <1>2, <2>1
    <2> QED
      BY <1>2, <2>1, <2>2, <2>3, BodyResumed
  <1>5. ~AtRequest(script, b, Count(read), q, asked, Heads(read))
    BY <1>2 DEF AtRequest
  <1> QED
    BY <1>1, <1>3, <1>4, <1>5 DEF Phase

\* The decision about a request came.
LEMMA RelatedFollowed ==
    ASSUME NEW b, NEW w, Frame(script, b, w), NEW q, NEW t,
           Followed(script, b, w, read, r_buffer, socket, unsent, mode, nb_to_send, seek, asked, q, t),
           Http!readRelated
    PROVE  \E p : Followed(script, b, w, read', r_buffer', socket', unsent', mode', nb_to_send',
                           seek', asked', p, t)
  <1> DEFINE r == Count(read)
             i == Heads(read)
             message == script[i]
             l == Size(message)
             h == Top(message)
  <1>1. /\ read \in Seq(ReadParts) /\ SentSoFar(script, read) /\ seek = 0
        /\ Placed(w, r_buffer, socket, unsent, r, q, t)
        /\ HeldBack(script, b, r, t)
        /\ Phase(script, b, r, q, mode, nb_to_send, asked, i)
    BY DEF Followed
  <1>2. /\ asked /\ unsent' = unsent
        /\ LET length == IF message.mode = "transfer" THEN l ELSE 0
           IN  Http!resume(IF message.mode = "transfer" /\ length = 0 THEN "new-request"
                           ELSE message.mode, length)
    BY RequestsAreHeads DEF Http!readRelated, Size
  <1>3. AtRequest(script, b, r, q, asked, i)
    BY <1>1, <1>2 DEF Phase, AtStart, InBody
  <1>4. i \in 1..Len(script) /\ r = b[i - 1] + h /\ q =< b[i]
    BY <1>3 DEF AtRequest
  <1>5. /\ script \in Seq(OfLength) /\ Len(script) \in Nat /\ i - 1 \in 0..Len(script)
        /\ l \in Nat /\ h \in Nat /\ b[i] = b[i - 1] + (h + l) /\ b[i - 1] \in Nat /\ b[i] \in Nat
        /\ i \in 0..Len(script)
    <2>1. /\ script \in Seq(OfLength) /\ Len(script) \in Nat
          /\ \A k \in 0..Len(script) : b[k] \in Nat
          /\ \A k \in 1..Len(script) :
               /\ k - 1 \in 0..Len(script) /\ Top(script[k]) \in Nat /\ Size(script[k]) \in Nat
               /\ b[k] = b[k - 1] + (Top(script[k]) + Size(script[k]))
      BY FrameEnds
    <2>2. i \in 0..Len(script)
      BY <1>4, <2>1
    <2> QED
      BY <1>4, <2>1, <2>2
  <1>6. message.mode = "transfer"
    <2>1. message \in OfLength
      BY <1>4, <1>5
    <2> QED
      BY <2>1 DEF OfLength
  <1>m. h = Top(script[i])
    OBVIOUS
  <1> HIDE DEF h, l, message
  <1>7. r \in Nat /\ q \in Nat /\ r =< q
    BY <1>1 DEF Placed
  <1>8. CASE l = 0
    <2>1. Http!resume("new-request", l)
      BY <1>2, <1>6, <1>8
    <2>2. r = b[i] /\ q = r
      <3> HIDE DEF r, i
      <3> QED
        BY <1>4, <1>5, <1>7, <1>8
    <2>3. Placed(w, r_buffer, socket, unsent, r, r, t)
      BY <1>1, <2>2
    <2>4. Followed(script, b, w, read', r_buffer', socket', unsent', mode', nb_to_send',
                   seek', asked', r, t)
      BY <1>1, <1>2, <1>5, <2>1, <2>2, <2>3, EmptyResumed
    <2> QED
      BY <2>4
  <1>9. CASE l # 0
    <2>1. Http!resume("transfer", l) /\ l \in Nat \ {0}
      BY <1>2, <1>5, <1>6, <1>9
    <2>2. r + l = b[i] /\ b[i - 1] + h =< r
      <3> DEFINE x == b[i - 1]
                 y == b[i]
      <3>1. r = x + h /\ y = x + (h + l) /\ x \in Nat /\ l \in Nat /\ h \in Nat
        BY <1>4, <1>5
      <3> HIDE DEF r, i, x, y
      <3>2. r + l = y /\ x + h =< r
        BY <3>1
      <3> QED
        BY <3>2 DEF x, y
    <2>3. b[i - 1] + Top(script[i]) =< r
      BY <1>m, <2>2
    <2> QED
      BY <1>2, <1>4, <2>1, <2>2, <2>3, BodyResumed
  <1> QED
    BY <1>8, <1>9

\* Every step of the client and of the coroutine preserves the invariant.
LEMMA HttpMoves ==
    ASSUME HttpInv, Http!Next
    PROVE  HttpInv'
  <1>1. script' = script
    BY DEF Http!Next, Http!send, Http!readData, Http!readRelated
  <1>2. SUFFICES ASSUME AllOfLength
                 PROVE  \E b, w, q, t :
                          /\ Measured(script', b, w)
                          /\ Followed(script', b, w, read', r_buffer', socket', unsent', mode',
                                      nb_to_send', seek', asked', q, t)
    <2>1. AllOfLength' <=> AllOfLength
      BY <1>1 DEF AllOfLength
    <2>2. script' \in Scripts
      BY <1>1 DEF HttpInv
    <2> QED
      BY <2>1, <2>2, Zenon DEF HttpInv
  <1>3. PICK b, w, q, t :
          /\ Measured(script, b, w)
          /\ Followed(script, b, w, read, r_buffer, socket, unsent, mode, nb_to_send, seek, asked, q, t)
    BY <1>2, Zenon DEF HttpInv
  <1>4. Frame(script, b, w)
    BY <1>3 DEF Measured
  <1>5. \E p, d : Followed(script, b, w, read', r_buffer', socket', unsent', mode', nb_to_send',
                           seek', asked', p, d)
    <2>1. ASSUME NEW n \in DOMAIN unsent, Http!send(n)
          PROVE  Followed(script, b, w, read', r_buffer', socket', unsent', mode', nb_to_send',
                          seek', asked', q, t + n)
      BY <1>3, <2>1, SendFollowed
    <2>2. CASE Http!readData
      BY <1>3, <1>4, <2>2, DataFollowed
    <2>3. CASE Http!readRelated
      BY <1>3, <1>4, <2>3, RelatedFollowed
    <2>4. CASE \E n \in DOMAIN unsent : Http!send(n)
      BY <2>1, <2>4
    <2> QED
      BY <2>2, <2>3, <2>4 DEF Http!Next
  <1> QED
    BY <1>1, <1>3, <1>5, Zenon

\* When the client waits and nothing is on the way, it has sent up to the end of a message,
\* and all of that was read.
LEMMA HttpGoesThrough ==
    ASSUME HttpInv
    PROVE  TransfersGoThrough
  <1> SUFFICES ASSUME AllOfLength, Http!ClientWaits, socket = <<>>, ~asked
               PROVE  Http!Relayed = Http!Sent
    BY DEF TransfersGoThrough, Http!TransfersGoThrough, Http!BodyGoesThrough, AllOfLength
  <1>1. PICK b, w, q, t :
          /\ Measured(script, b, w)
          /\ Followed(script, b, w, read, r_buffer, socket, unsent, mode, nb_to_send, seek, asked, q, t)
    BY Zenon DEF HttpInv
  <1> DEFINE r == Count(read)
             i == Heads(read)
  <1>2. /\ Placed(w, r_buffer, socket, unsent, r, q, t)
        /\ Phase(script, b, r, q, mode, nb_to_send, asked, i)
    BY <1>1 DEF Followed
  <1>3. /\ r \in Nat /\ q \in Nat /\ t \in Nat /\ r =< q /\ q =< t /\ t =< Len(w)
        /\ Extract(unsent, w, t, Len(w)) /\ q = t
    BY <1>2, PlacesOfText
  <1>4. Http!Sent = t /\ Http!Relayed = r
    BY <1>1, <1>3, ClientCounts DEF Http!Relayed, Count
  <1> SUFFICES r = t
    BY <1>4
  <1>5. /\ Len(script) \in Nat /\ Len(w) \in Nat /\ Len(w) = b[Len(script)]
        /\ (\A k \in 0..Len(script) : b[k] \in Nat)
        /\ (\A k, l \in 0..Len(script) : k < l => b[k] < b[l])
        /\ \A k \in 1..Len(script) : b[k] = b[k - 1] + (Top(script[k]) + Size(script[k]))
                                     /\ Top(script[k]) \in Nat /\ Size(script[k]) \in Nat
    BY <1>1, FrameEnds DEF Measured
  <1>6. \E k \in 0..Len(script) : t = b[k]
    <2>1. CASE unsent = <<>>
      <3>1. t = Len(w)
        BY <1>3, <1>5, <2>1, EmptyPlace
      <3>2. Len(script) \in 0..Len(script)
        BY <1>5
      <3> QED
        BY <1>5, <3>1, <3>2
    <2>2. CASE ~Http!MaySend(1)
      <3>1. PICK k \in 1..Len(script) : t =< b[k] /\ b[k] < t + 1
        BY <1>1, <1>3, <2>2, ClientCounts
      <3>2. k \in 0..Len(script) /\ b[k] \in Nat
        BY <1>5, <3>1
      <3>3. t = b[k]
        BY <1>3, <3>1, <3>2
      <3> QED
        BY <3>2, <3>3
    <2> QED
      BY <2>1, <2>2 DEF Http!ClientWaits
  <1>7. CASE AtStart(script, b, r, q, mode, asked, i)
    <2>1. /\ i \in 0..Len(script) /\ r = b[i]
          /\ q = r \/ (i < Len(script) /\ q < r + Top(script[i + 1]))
      BY <1>7 DEF AtStart
    <2>2. PICK k \in 0..Len(script) : t = b[k]
      BY <1>6
    <2> HIDE DEF r, i
    <2>3. CASE i < Len(script) /\ q < r + Top(script[i + 1])
      <3> DEFINE n == i + 1
                 h == Top(script[n])
                 l == Size(script[n])
      <3>1. /\ n \in 1..Len(script) /\ n \in 0..Len(script) /\ n - 1 = i /\ i \in Nat /\ k \in Nat
            /\ b[i] \in Nat /\ b[k] \in Nat /\ b[n] \in Nat
        BY <1>5, <2>1, <2>2, <2>3
      <3>2. b[n] = b[i] + (h + l) /\ h \in Nat /\ l \in Nat
        BY <1>5, <3>1
      <3>3. q < r + h
        BY <2>3
      <3>4. n < k => b[n] < b[k]
        BY <1>5, <3>1
      <3>5. k < i => b[k] < b[i]
        BY <1>5, <2>1
      <3> HIDE DEF h, l
      <3>6. t < b[n]
        BY <1>3, <2>1, <3>1, <3>2, <3>3
      <3>7. k # n /\ ~(n < k)
        BY <2>2, <3>1, <3>4, <3>6
      <3>8. n = i + 1
        OBVIOUS
      <3> HIDE DEF n
      <3>9. ~(i < k)
        BY <3>1, <3>7, <3>8
      <3>10. ~(k < i)
        BY <1>3, <2>1, <2>2, <3>1, <3>5
      <3> QED
        BY <2>1, <2>2, <3>1, <3>9, <3>10
    <2> QED
      BY <1>3, <2>1, <2>3
  <1>8. CASE InBody(script, b, r, q, mode, nb_to_send, asked, i)
    BY <1>3, <1>8 DEF InBody
  <1>9. ~AtRequest(script, b, r, q, asked, i)
    BY DEF AtRequest
  <1> QED
    BY <1>2, <1>7, <1>8, <1>9 DEF Phase

\* What was read is a beginning of what was sent, label by label.
LEMMA HttpReadsAsSent ==
    ASSUME HttpInv, AllOfLength
    PROVE  ReadAsSent
  <1>1. PICK b, w, q, t :
          /\ Measured(script, b, w)
          /\ Followed(script, b, w, read, r_buffer, socket, unsent, mode, nb_to_send, seek, asked, q, t)
    BY Zenon DEF HttpInv
  <1> DEFINE T == Kinds \X Characters
             x == Http!Labels(read)
             y == Http!Labels(Http!Expected(script))
             n == Len(x)
  <1>2. /\ read \in Seq(ReadParts) /\ SentSoFar(script, read)
        /\ Placed(w, r_buffer, socket, unsent, Count(read), q, t)
    BY <1>1 DEF Followed
  <1>3. Count(read) \in Nat /\ Count(read) =< Len(w) /\ Len(w) \in Nat
    <2>1. /\ Count(read) \in Nat /\ q \in Nat /\ t \in Nat
          /\ Count(read) =< q /\ q =< t /\ t =< Len(w)
      BY <1>2 DEF Placed
    <2>2. Len(w) \in Nat
      BY <1>1, FrameEnds DEF Measured
    <2> QED
      BY <2>1, <2>2
  <1>4. Tags(y, w)
    BY <1>1 DEF Measured, Frame, Tagged
  <1>5. y \in Seq(T) /\ Len(y) = Len(w)
    BY <1>4 DEF Tags
  <1>6. x \in Seq(T)
    <2>1. ASSUME NEW e \in Seq(Characters) PROVE <<"request", e>> \in ReadParts
      BY DEF ReadParts, Kinds
    <2>2. <<>> \in Seq(Characters)
      OBVIOUS
    <2> QED
      BY <1>2, <2>1, <2>2, LabelsAppended
  <1>7. n = Count(read) /\ \A p \in 1..n : x[p] = y[p]
    BY <1>2 DEF SentSoFar, Count
  <1> HIDE DEF T, x, y
  <1>8. n \in 0..n /\ n \in 0..Len(y)
    BY <1>3, <1>5, <1>7
  <1> DEFINE u == SubSeq(x, 1, n)
             v == SubSeq(y, 1, n)
  <1>9. u \in Seq(T) /\ Len(u) = n /\ \A j \in 1..n : u[j] = x[j]
    BY <1>6, <1>8, Beginning
  <1>10. v \in Seq(T) /\ Len(v) = n /\ \A j \in 1..n : v[j] = y[j]
    BY <1>5, <1>8, Beginning
  <1> HIDE DEF u, v
  <1>11. u = v
    BY <1>7, <1>9, <1>10, SameSequences
  <1>12. Len(x) =< Len(y) /\ SubSeq(x, 1, Len(x)) = SubSeq(y, 1, Len(x))
    BY <1>8, <1>11 DEF u, v
  <1> QED
    BY <1>12 DEF ReadAsSent, Http!ReadAsSent, Http!AsSent, Http!IsPrefix, x, y

\* And so does every step of the system.
LEMMA HttpGoesOn ==
    ASSUME HttpInv, [Next]_vars
    PROVE  HttpInv'
  <1>1. CASE part = "http" /\ Http!Next
    BY <1>1, HttpMoves
  <1>2. CASE UNCHANGED http
    BY <1>2, HttpStays
  <1> QED
    BY <1>1, <1>2 DEF Next, Others, vars

\* Bodies that have a length are not kept waiting, whatever the messages whose headers can
\* be told, and however their text is cut (reactor/client/http.py:47-63, 112-245).
THEOREM TransfersAlwaysGoThrough == Spec => []TransfersGoThrough
  <1>1. Init => HttpInv
    BY HttpBegins DEF Init
  <1>2. HttpInv /\ [Next]_vars => HttpInv'
    BY HttpGoesOn
  <1>3. HttpInv => TransfersGoThrough
    BY HttpGoesThrough
  <1> QED
    BY <1>1, <1>2, <1>3, PTL DEF Spec

\* And such messages are read for what they are: headers as requests, bodies as content,
\* character by character (reactor/client/http.py:47-63, 112-245).
THEOREM TransfersReadAsSent == Spec => [](AllOfLength => ReadAsSent)
  <1>1. Init => HttpInv
    BY HttpBegins DEF Init
  <1>2. HttpInv /\ [Next]_vars => HttpInv'
    BY HttpGoesOn
  <1>3. HttpInv => (AllOfLength => ReadAsSent)
    BY HttpReadsAsSent
  <1> QED
    BY <1>1, <1>2, <1>3, PTL DEF Spec
=============================================================================

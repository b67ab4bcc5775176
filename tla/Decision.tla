------------------------------ MODULE Decision ------------------------------
(***************************************************************************)
(* What a worker of the redirector makes of a request, with the program    *)
(* that it asks: Redirector (reactor/redirector/worker.py) for programs    *)
(* that are given URLs, ICAPRedirector (reactor/redirector/icap.py) for    *)
(* those that speak ICAP.  A request on which the worker fails is tried    *)
(* once more with another (reactor/redirector/manager.py).                 *)
(*                                                                         *)
(* A command is a string: "page" is each of http, rewrite, redirect and    *)
(* monitor, which end in a page and a close; "defer" means that the        *)
(* program was asked, and "fail" an exception or no command.               *)
(***************************************************************************)
EXTENDS Naturals

VARIABLES protocol,   \* "url" or "icap"
          enabled,    \* there is a program to ask
          child,      \* the program: runs, gone, or absent
          unread,     \* questions it was asked whose answers were not read
          place, request, tainted,
          answer      \* history: the last answer

vars == <<protocol, enabled, child, unread, place, request, tainted, answer>>

\* How much of a message could be parsed: nothing, the host and the port, or all.
Parsed == {"none", "host", "whole"}
Methods == {"content", "CONNECT", "OPTIONS", "webdav", "other"}
Messages == [parsed : Parsed, method : Methods]

\* A request of an HTTP client: the port is one of security.connect, and what the header
\* max-forwards says.
HTTPRequests ==
    [source : {"proxy"}, parsed : Parsed, method : Methods, port : BOOLEAN,
     forwards : {"none", "bad", "zero", "more"}]
\* The others have nothing that matters here but what could be parsed.
OtherRequests ==
    [source : {"web", "tls", "icap", "passthrough"}, parsed : {"none", "whole"},
     method : {"content"}, port : {FALSE}, forwards : {"none"}]

NoRequest == [source |-> "none"]
NoAnswer == [command |-> "none"]

Init ==
    /\ protocol \in {"url", "icap"} /\ enabled \in BOOLEAN
    /\ child \in IF enabled THEN {"runs", "absent"} ELSE {"absent"}
    /\ unread = 0
    /\ place = "idle" /\ request = NoRequest /\ tainted = FALSE
    /\ answer = NoAnswer
-----------------------------------------------------------------------------
(* decide(): what can be said at once.                                     *)

doHTTPRequest == IF enabled THEN "defer" ELSE "download"

doHTTPConnect(r) == IF ~r.port THEN "page" ELSE IF enabled THEN "defer" ELSE "connect"

doHTTPOptions(r) == IF r.forwards \in {"bad", "zero"} THEN "page" ELSE "download"

\* A request that cannot be parsed is answered with a page.  The configured extensions
\* are names and are compared with a request: they are methods that are not allowed.
doHTTP(r) ==
    CASE r.parsed # "whole"  -> "page"
      [] r.parsed = "whole" /\ r.method = "content" -> doHTTPRequest
      [] r.parsed = "whole" /\ r.method = "CONNECT" -> doHTTPConnect(r)
      [] r.parsed = "whole" /\ r.method = "OPTIONS" -> doHTTPOptions(r)
      [] r.parsed = "whole" /\ r.method = "webdav"  -> "download"
      [] r.parsed = "whole" /\ r.method = "other"   -> "page"

\* The path is asked of a request there may not be.
doMonitor(r) == IF r.parsed = "none" THEN "fail" ELSE "page"

doTLS(r) ==
    IF r.parsed = "none" THEN "close" ELSE IF enabled THEN "defer" ELSE "intercept"

decideURL(r) ==
    CASE r.source = "proxy" -> doHTTP(r)
      [] r.source = "web" -> doMonitor(r)
      [] r.source = "tls" -> doTLS(r)
      [] r.source \in {"icap", "passthrough"} -> "close"

\* The program is asked, enabled or not.
decideICAP(r) ==
    CASE r.source = "proxy" -> doHTTP(r)
      [] r.source = "web" -> doMonitor(r)
      [] r.source = "icap" -> IF r.parsed = "none" THEN "fail" ELSE "defer"
      [] r.source \in {"tls", "passthrough"} -> "defer"

\* checkChild() and decide().
Decided(r) ==
    IF enabled /\ child # "runs" THEN "fail"
    ELSE IF protocol = "url" THEN decideURL(r) ELSE decideICAP(r)
-----------------------------------------------------------------------------
(* progress(): what becomes of the program's answer.  The decision is about *)
(* a message: the request, or what the program made of it.                 *)

MessageOf(r) == [parsed |-> r.parsed, method |-> r.method]

URLAnswers == {"empty", "http", "file", "intercept", "redirect", "other"}

\* An answer that begins with http:// is compared with an attribute that a request does
\* not have.
classifyURL(line) ==
    CASE line = "empty" -> "permit"
      [] line = "http" -> "fail"
      [] line \in {"file", "other"} -> "file"
      [] line \in {"intercept", "redirect"} -> line

\* The default of both is to permit, with what is known of the message.
contentResponse(m, classification) ==
    CASE classification \in {"file", "redirect", "http"} -> "page"
      [] classification \in {"permit", "intercept", "unknown"} ->
           IF m.parsed = "whole" THEN "download" ELSE "fail"

connectResponse(m, classification) ==
    CASE classification \in {"file", "redirect", "http"} -> "page"
      [] classification = "intercept" -> "intercept"
      [] classification \in {"permit", "unknown"} -> "connect"

\* Only these two kinds of methods are asked about.
response(m, classification) ==
    CASE classification = "fail" \/ m.parsed = "none" -> "fail"
      [] classification # "fail" /\ m.parsed # "none" /\ m.method = "content" ->
           contentResponse(m, classification)
      [] classification # "fail" /\ m.parsed # "none" /\ m.method = "CONNECT" ->
           connectResponse(m, classification)
      [] m.method \notin {"content", "CONNECT"} -> "fail"

Outcome(message, command) == [message |-> message, command |-> command]

progressURL(r, line) ==
    Outcome(MessageOf(r),
            IF r.source = "tls" THEN "close" ELSE response(MessageOf(r), classifyURL(line)))

\* An answer permits, gives a page, has no meaning or cannot be read; or it gives a
\* message: the one to send, or the one that names the server to send it to.
ICAPAnswers ==
    [kind : {"permit", "content", "other", "unreadable"}, message : {[parsed |-> "none", method |-> "other"]}]
    \cup [kind : {"modify", "intercept"}, message : Messages]

Names(m) == m.parsed # "none"

\* A variant: the way to answer is that of the request.
decideHTTP_OfTheRequest(r, a) ==
    LET original == MessageOf(r)
    IN  CASE a.kind \in {"permit", "other"} -> Outcome(original, response(original, "permit"))
          [] a.kind = "content" -> Outcome(original, response(original, "http"))
          [] a.kind = "intercept" ->
               Outcome(original,
                       IF Names(a.message) THEN response(original, "intercept") ELSE "fail")
          [] a.kind = "modify" ->
               Outcome(a.message,
                       response([parsed |-> a.message.parsed, method |-> r.method],
                                IF a.message.parsed = "whole" THEN "permit" ELSE "unknown"))

\* The page for a modified message that is invalid is not given: its parts are taken for
\* a classification, which nothing knows.
decideHTTP(r, a) ==
    LET original == MessageOf(r)
    IN  CASE a.kind \in {"permit", "other"} -> Outcome(original, response(original, "permit"))
          [] a.kind = "content" -> Outcome(original, response(original, "http"))
          [] a.kind = "intercept" ->
               Outcome(original,
                       IF Names(a.message) THEN response(original, "intercept") ELSE "fail")
          [] a.kind = "modify" ->
               Outcome(a.message,
                       response(a.message,
                                IF a.message.parsed = "whole" THEN "permit" ELSE "unknown"))

decideTLS(r, a) ==
    CASE a.kind = "intercept" -> IF Names(a.message) THEN "intercept" ELSE "fail"
      [] a.kind = "permit" /\ r.parsed = "whole" -> "intercept"
      [] a.kind # "intercept" /\ ~(a.kind = "permit" /\ r.parsed = "whole") -> "close"

\* Without a server the answer is made of a name that is not defined.
decidePassthrough(a) ==
    IF a.kind = "intercept" /\ Names(a.message) THEN "intercept" ELSE "fail"

progressICAP(r, a) ==
    CASE a.kind = "unreadable" -> Outcome(MessageOf(r), "fail")
      [] a.kind # "unreadable" /\ r.source = "icap" -> Outcome(MessageOf(r), "icap")
      [] a.kind # "unreadable" /\ r.source = "proxy" -> decideHTTP(r, a)
      [] a.kind # "unreadable" /\ r.source = "tls" -> Outcome(MessageOf(r), decideTLS(r, a))
      [] a.kind # "unreadable" /\ r.source = "passthrough" ->
           Outcome(MessageOf(r), decidePassthrough(a))
-----------------------------------------------------------------------------
(* The worker, in the manager's hands.                                     *)

receive(r) ==
    /\ place = "idle" /\ place' = "decide"
    /\ request' = r /\ tainted' = FALSE /\ answer' = NoAnswer
    /\ UNCHANGED <<protocol, enabled, child, unread>>

answered(outcome) ==
    /\ place' = "idle"
    /\ answer' = [request |-> request, message |-> outcome.message, command |-> outcome.command]
    /\ request' = NoRequest /\ tainted' = FALSE

\* The worker is dropped, and its program with it; the request goes to another one, or
\* the client is told to close.
failed ==
    /\ child' \in IF enabled THEN {"runs", "gone", "absent"} ELSE {"absent"}
    /\ unread' = 0
    /\ IF tainted THEN answered(Outcome(MessageOf(request), "close"))
       ELSE place' = "decide" /\ tainted' = TRUE /\ UNCHANGED <<request, answer>>

settled(outcome) ==
    IF outcome.command = "fail" THEN failed ELSE answered(outcome) /\ UNCHANGED child

\* The write may fail, for the program may go at any moment.
decide ==
    /\ place = "decide"
    /\ \/ /\ Decided(request) = "defer" /\ child = "runs"
          /\ place' = "asked" /\ unread' = unread + 1
          /\ UNCHANGED <<child, request, tainted, answer>>
       \/ /\ Decided(request) \in {"defer", "fail"}
          /\ failed
       \/ /\ Decided(request) \notin {"defer", "fail"}
          /\ answered(Outcome(MessageOf(request), Decided(request)))
          /\ UNCHANGED <<child, unread>>
    /\ UNCHANGED <<protocol, enabled>>

childExits ==
    /\ child = "runs" /\ child' = "gone"
    /\ UNCHANGED <<protocol, enabled, unread, place, request, tainted, answer>>

\* The program's answer is read, whatever is made of it.
reads(outcome) ==
    /\ settled(outcome)
    /\ outcome.command # "fail" => unread' = unread - 1

\* The answer of a program that has gone is not read.
progress ==
    /\ place = "asked"
    /\ IF child = "runs"
       THEN \/ protocol = "url" /\ \E line \in URLAnswers : reads(progressURL(request, line))
            \/ protocol = "icap" /\ \E a \in ICAPAnswers : reads(progressICAP(request, a))
       ELSE IF protocol = "url" /\ request.source = "tls"
       THEN answered(Outcome(MessageOf(request), "close")) /\ UNCHANGED <<child, unread>>
       ELSE failed
    /\ UNCHANGED <<protocol, enabled>>
-----------------------------------------------------------------------------
Next ==
    \/ \E r \in HTTPRequests \cup OtherRequests : receive(r)
    \/ decide \/ childExits \/ progress

Spec == Init /\ [][Next]_vars
-----------------------------------------------------------------------------
\* A worker is free, and its program runs, only if every answer of the program was read:
\* what is read next is about the request that was asked next, whichever way the one
\* before ended (readChildResponse and its callers, worker.py:323-333, icap.py:248-271).
InStep == child = "runs" => unread = IF place = "asked" THEN 1 ELSE 0

\* The commands that the proxy has for the clients of a server.
CommandsOf(source) ==
    CASE source = "proxy" -> {"download", "connect", "intercept", "page", "close"}
      [] source = "web" -> {"page", "close"}
      [] source = "icap" -> {"icap", "close"}
      [] source \in {"tls", "passthrough"} -> {"intercept", "close"}

\* Whatever the programs answer, clients get commands that their protocols know; tunnels
\* are made for CONNECT and for nothing else; an HTTP client whose request is invalid, or
\* is a CONNECT to a port that is not allowed, gets no server
\* (reactor/redirector/worker.py:237-301, icap.py:151-199, response.py:84-124).
AnswersFit ==
    answer # NoAnswer =>
      LET r == answer.request
      IN  /\ answer.command \in CommandsOf(r.source)
          /\ r.source = "proxy" =>
               /\ answer.command = "download" => answer.message.method # "CONNECT"
               /\ answer.command \in {"connect", "intercept"} => answer.message.method = "CONNECT"
               /\ r.parsed # "whole" \/ (r.method = "CONNECT" /\ ~r.port) =>
                    answer.command \in {"page", "close"}
=============================================================================

------------------------------- MODULE Reactor -------------------------------
(***************************************************************************)
(* The main loop of the proxy process (reactor/reactor.py), composing the  *)
(* servers, the clients and the downloads.                                 *)
(*                                                                         *)
(* The loop polls, then hands each socket of the batch to the handler of   *)
(* its event; a handler runs to completion, so each is one action.  The    *)
(* sockets of a batch were ready when poll() returned: an earlier handler  *)
(* of the same batch may have closed or corked them since.  The code walks *)
(* a dictionary of lists; the model takes the batch in any order.          *)
(*                                                                         *)
(* The redirector process and the resolver are seen from here as counters  *)
(* of the questions they have not answered; which answer comes is chosen   *)
(* when it does.                                                           *)
(***************************************************************************)
EXTENDS ClientManager, ContentManager, Server, FiniteSets

CONSTANTS Commands,     \* the decisions considered
          Requests,     \* how each client uses its connection: see MaySend
          MaxServers,   \* bound: servers that have clients at a time
          MaxPending,   \* bound: unanswered questions per client
          MaxCopies,    \* bound: occurrences of a client in the list `buffered'
          MaxBatch      \* bound: sockets in one batch

\* A process has so many file descriptors.
ASSUME ReactorAssumption == IsFiniteSet(Clients) /\ IsFiniteSet(Listeners)

\* A client sends one request, or the next when the last is answered, or any
\* number without waiting.
ASSUME RequestsAssumption == Requests \in [Clients -> {"one", "answered", "pipelined"}]

VARIABLES cm,         \* ClientManager
          dm,         \* ContentManager
          srv,        \* the servers
          asked,      \* requests the redirector has not answered, per client
          resolving,  \* names the resolver has not resolved, per client
          batch,      \* events poll() returned that are not handled yet
          running     \* the process is there

vars == <<cm, dm, srv, asked, resolving, batch, running>>

\* The decisions a redirector takes for the clients of each server.  "page"
\* stands for those answered with a page and a close: redirect, http, rewrite
\* and monitor.
CommandsFor(source) ==
    Commands \cap
      CASE source = "proxy" -> {"download", "connect", "intercept", "page", "close"}
        [] source = "web"   -> {"page", "close"}
        [] source = "icap"  -> {"icap", "close"}
        [] OTHER            -> {"intercept", "close"}

\* What the resolver makes of a decision that names a server: an error page,
\* or the internal error page for an empty name.
LookupErrors == Commands \cap {"page", "file"}

Outstanding(c) == asked[c] + resolving[c]

Event(name, sock) == <<name, sock>>

\* The single pipe or socket behind the two events below.
Redirector == Event("read_redirector", "pipe")
Resolver   == Event("read_resolver", "pipe")

Events ==
    ({"accept"} \X Listeners)
    \cup ({"opening_client", "read_client", "write_client"} \X Clients)
    \cup ({"opening_download", "read_download", "write_download"} \X Downloads)
    \cup {Redirector, Resolver}

InBatch(sock) == \E e \in batch : e[2] = sock

\* A new socket object is none of those still referred to.
FreeClients ==
    {c \in Clients : /\ c \notin Live(cm)
                     /\ Outstanding(c) = 0 /\ cm.buffered[c] = 0
                     /\ ~InBatch(c)}

\* The servers with clients that are connected or still asked about.
Busy == {SourceOf[c] : c \in {x \in Clients : x \in Live(cm) \/ Outstanding(x) > 0}}

FreeDownloads == {d \in Downloads : d \notin Known(dm) /\ ~InBatch(d)}

Init ==
    /\ cm = NoClients
    /\ dm = NoDownloads
    /\ srv = NewServers
    /\ asked = [c \in Clients |-> 0]
    /\ resolving = [c \in Clients |-> 0]
    /\ batch = {}
    /\ running = TRUE
-----------------------------------------------------------------------------
(* Polling.                                                                *)

Ready ==
    {Event("accept", l) : l \in srv.watched}
    \cup {Event("opening_client", c) : c \in cm.opening_client}
    \cup {Event("read_client", c) : c \in Watched(cm.read_client)}
    \cup {Event("write_client", c) : c \in cm.write_client}
    \cup {Event("opening_download", d) : d \in dm.opening_download}
    \cup {Event("read_download", d) : d \in Watched(dm.read_download)}
    \cup {Event("write_download", d) : d \in dm.write_download}
    \cup (IF \E c \in Clients : asked[c] > 0 THEN {Redirector} ELSE {})
    \cup (IF \E c \in Clients : resolving[c] > 0 THEN {Resolver} ELSE {})

Poll ==
    /\ running /\ batch = {}
    /\ \E e, f \in Ready :
         /\ Cardinality({e, f}) <= MaxBatch
         /\ batch' = {e, f}
    /\ UNCHANGED <<cm, dm, srv, asked, resolving, running>>

Handle(event) ==
    /\ running /\ event \in batch
    /\ batch' = batch \ {event}
    /\ UNCHANGED running
-----------------------------------------------------------------------------
(* Accepting.                                                              *)

\* accept() fails, or gives a new connection.
acceptConnections(l) ==
    LET source == ListenerOf[l]
    IN  /\ Handle(Event("accept", l))
        /\ UNCHANGED <<dm, resolving>>
        /\ \/ /\ srv' = pause(srv, source)
              /\ UNCHANGED <<cm, asked>>
           \/ \E c \in FreeClients :
                /\ SourceOf[c] = source
                /\ Cardinality(Busy \cup {source}) <= MaxServers
                /\ srv' = accepted(srv, source)
                /\ IF source = "passthrough"
                   THEN /\ cm' = passthroughConnection(cm, c)
                        /\ asked' = [asked EXCEPT ![c] = @ + 1]
                   ELSE /\ cm' = httpConnection(cm, c)
                        /\ UNCHANGED asked
-----------------------------------------------------------------------------
(* Reading from clients.                                                   *)

closeClient(c) == notifyClose(srv, SourceOf[c], 1)

incomingRequest(c) ==
    /\ Handle(Event("opening_client", c))
    /\ UNCHANGED <<dm, resolving>>
    /\ \E rd \in ReadResults(c, cm.reader[c]) :
         LET known == c \in cm.norequest
         IN  /\ cm' = readRequest(cm, c, rd)
             /\ srv' = IF known /\ rd.got = "closed" THEN closeClient(c) ELSE srv
             /\ asked' = IF known /\ rd.got = "request"
                         THEN [asked EXCEPT ![c] = @ + 1] ELSE asked

\* What the reactor does with the answer of the download side: cork or uncork
\* the client.
backpressure(clients, c, s) ==
    IF ~s.change THEN clients
    ELSE IF s.status THEN corkUpload(clients, c) ELSE uncorkUpload(clients, c)

\* The client sends a further request: never, once nothing of the last answer
\* is left to send, or whenever its socket is watched.
MaySend(c) ==
    CASE Requests[c] = "one"       -> FALSE
      [] Requests[c] = "answered"  -> /\ Outstanding(c) = 0
                                      /\ c \notin cm.w_buffer /\ cm.writer[c] = "open"
      [] Requests[c] = "pipelined" -> Outstanding(c) < MaxPending

incomingClientData(c) ==
    /\ Handle(Event("read_client", c))
    /\ UNCHANGED resolving
    /\ \E rd \in PlainReads(cm, c), sent \in SendResults :
         LET r     == readData(cm, c, rd)
             known == c \in cm.bysock
             s     == sendClientData(dm, c, sent)
         IN  /\ rd.got = "request" => MaySend(c)
             /\ rd.got # "data" => sent = "all"
             /\ CASE ~known -> UNCHANGED <<cm, dm, srv, asked>>
                  [] known /\ rd.got = "closed" ->
                       /\ cm' = r
                       /\ dm' = endClientDownload(dm, c)
                       /\ srv' = closeClient(c)
                       /\ UNCHANGED asked
                  [] known /\ rd.got = "request" ->
                       /\ cm' = r
                       /\ asked' = [asked EXCEPT ![c] = @ + 1]
                       /\ UNCHANGED <<dm, srv>>
                  [] known /\ rd.got = "data" ->
                       /\ dm' = s.dm
                       /\ cm' = backpressure(r, c, s)
                       /\ UNCHANGED <<srv, asked>>
                  [] known /\ rd.got = "nothing" ->
                       /\ cm' = r
                       /\ UNCHANGED <<dm, srv, asked>>
-----------------------------------------------------------------------------
(* Writing to clients.                                                     *)

flushClientOutput(c) ==
    /\ Handle(Event("write_client", c))
    /\ UNCHANGED <<asked, resolving>>
    /\ \E sent \in SendResults :
         LET t == sendData(cm, c, "flush", sent)
         IN  /\ cm' = t.cm
             /\ srv' = IF t.status = "closed" THEN closeClient(c) ELSE srv
             /\ dm' = CASE t.status = "closed" -> endClientDownload(dm, c)
                        [] t.change /\ t.status = "clear" -> uncorkClientDownload(dm, c)
                        [] t.change /\ t.status = "buffering" -> corkClientDownload(dm, c)
                        [] OTHER -> dm

NotifiedByDownloads_OnlyProxy == {"proxy"}

\* Only these sources are told that a client went away while downloading.
NotifiedByDownloads == {"proxy", "tls", "passthrough"}

downloadLostClient(c) ==
    IF SourceOf[c] \in NotifiedByDownloads THEN closeClient(c) ELSE srv

completeWebConnection(d) ==
    /\ Handle(Event("opening_download", d))
    /\ UNCHANGED <<asked, resolving>>
    /\ \E sent, sent2 \in SendResults :
         LET s   == startDownload(dm, d, sent)
             c   == s.client
             cm1 == IF s.change THEN uncorkUpload(cm, c) ELSE cm
             t   == sendData(cm1, c, "data", sent2)
         IN  IF c \in cm.bysock /\ s.response
             THEN /\ cm' = t.cm
                  /\ srv' = IF t.status = "closed" THEN downloadLostClient(c) ELSE srv
                  /\ dm' = CASE t.status = "closed" -> endClientDownload(s.dm, c)
                             [] t.change /\ t.status = "buffering" -> corkClientDownload(s.dm, c)
                             [] t.change /\ t.status = "clear" -> uncorkClientDownload(s.dm, c)
                             [] OTHER -> s.dm
             ELSE /\ sent2 = "all"
                  /\ cm' = cm1
                  /\ dm' = s.dm
                  /\ UNCHANGED srv

incomingWebData(d) ==
    /\ Handle(Event("read_download", d))
    /\ UNCHANGED <<asked, resolving>>
    /\ \E page \in {"data", "flush", "end"}, sent \in SendResults :
         LET r == readDownload(dm, d, page)
             c == r.client
             t == sendData(cm, c, page, sent)
         IN  /\ cm' = t.cm
             /\ srv' = IF t.status = "closed" THEN downloadLostClient(c) ELSE srv
             /\ dm' = CASE c # NoClient /\ t.status \in {"closed", "unknown"} /\ page # "end" ->
                             endClientDownload(r.dm, c)
                        [] t.change /\ t.status = "buffering" -> corkClientDownload(r.dm, c)
                        [] OTHER -> r.dm

flushWebOutput(d) ==
    /\ Handle(Event("write_download", d))
    /\ UNCHANGED <<srv, asked, resolving>>
    /\ \E sent \in SendResults :
         LET s == sendSocketData(dm, d, sent)
         IN  /\ dm' = s.dm
             /\ cm' = backpressure(cm, dm.client[d], s)
-----------------------------------------------------------------------------
(* Enacting decisions.                                                     *)

\* The lengths of request body each content announces, as reader modes.
BodyModes(command, content) ==
    CASE content = "stream" /\ command = "download" -> {"request", "body", "stream"}
      [] content = "stream" -> {"stream"}
      [] content = "response" -> {"request", "body"}
      [] OTHER -> {"request"}

\* The content of a decision answered by the proxy itself, including those
\* that needed a connection which could not even be attempted.
LocalContents(command) ==
    CASE command \in {"download", "connect", "file"} -> {"file", "page"}
      [] command = "intercept" -> {"empty"}
      [] command = "page" -> {"page"}
      [] command = "close" -> {"end"}
      [] command = "icap" -> {"response"}

\* One iteration of enactDecisions() once getContent() has answered g.
enact(c, command, content, g) ==
    \E sent \in SendResults, wanted \in BodyModes(command, content) :
      \E rd \in RelatedReads(cm, c, wanted) :
        LET r == startData(backpressure(cm, c, g), c, content, sent, rd)
        IN  /\ r.cm.buffered[c] <= MaxCopies
            /\ IF r.got = "data"
               THEN \E sent2 \in SendResults :
                      LET s == sendClientData(g.dm, c, sent2)
                      IN  /\ dm' = s.dm
                          /\ cm' = backpressure(r.cm, c, s)
                          /\ UNCHANGED srv
               ELSE /\ cm' = r.cm
                    /\ dm' = IF r.got \in {"closed", "unknown"}
                             THEN endClientDownload(g.dm, c) ELSE g.dm
                    /\ srv' = IF r.got = "closed" THEN closeClient(c) ELSE srv

enactRemote(c, method) ==
    \E host \in Hosts, d \in FreeDownloads \cup {NoDownload}, sent \in SendResults :
      LET reused == inUse(dm, c, host) # NoDownload
      IN  /\ reused => method = "download"
          /\ (d = NoDownload) = reused
          /\ ~reused => sent = "all"
          /\ enact(c, method, "stream", getRemote(dm, c, method, host, d, sent))

enactLocal(c, command) ==
    \E content \in LocalContents(command) :
      enact(c, command, content, Unchanged(getLocal(dm, c)))

\* A connection that is refused closes the one to another host; one to the same
\* host would have been used.
enactRefused(c, method) ==
    /\ \E host \in Hosts : inUse(dm, c, host) = NoDownload
    /\ enactLocal(c, method)

enactDecision(c, command) ==
    \/ /\ command \in Methods
       /\ enactRemote(c, command) \/ enactRefused(c, command)
    \/ /\ command \notin Methods
       /\ enactLocal(c, command)

\* The decisions that name a server.
Remote(c) == CommandsFor(SourceOf[c]) \cap Methods

\* What a question may be answered with: only the servers whose clients are
\* relayed to another server meet the errors of a lookup.
Answers(c) ==
    CommandsFor(SourceOf[c])
    \cup IF SourceOf[c] \in {"web", "icap"} THEN {} ELSE LookupErrors

\* The redirector answers a request.  The answer is dropped when the client
\* went away.  The name of a server may have to be looked up first; an address,
\* a cached name or a bad one is dealt with at once.
readRedirector ==
    /\ Handle(Redirector)
    /\ \E c \in Clients :
         /\ asked[c] > 0
         /\ asked' = [asked EXCEPT ![c] = @ - 1]
         /\ \/ /\ c \notin Live(cm)
               /\ UNCHANGED <<cm, dm, srv, resolving>>
            \/ /\ c \in Live(cm)
               /\ \E command \in Answers(c) : enactDecision(c, command)
               /\ UNCHANGED resolving
            \/ /\ c \in Live(cm) /\ Remote(c) # {}
               /\ resolving' = [resolving EXCEPT ![c] = @ + 1]
               /\ UNCHANGED <<cm, dm, srv>>

\* The resolver ends a lookup, with an address or with an error page, and
\* without asking whether the client is still there.
resolved(c) ==
    /\ resolving[c] > 0
    /\ resolving' = [resolving EXCEPT ![c] = @ - 1]
    /\ UNCHANGED asked
    /\ \E command \in Remote(c) \cup (LookupErrors \cap {"page"}) :
         enactDecision(c, command)

readResolver ==
    /\ Handle(Resolver)
    /\ \/ \E c \in Clients : resolved(c)
       \/ UNCHANGED <<cm, dm, srv, asked, resolving>>

\* For a connection in use getContent() sends the variable `request', which it
\* assigned only if the command is a download.
unboundRequest ==
    /\ running
    /\ \E c \in Clients, host \in Hosts :
         /\ \/ Redirector \in batch /\ asked[c] > 0
            \/ Resolver \in batch /\ resolving[c] > 0
         /\ CommandsFor(SourceOf[c]) \cap {"connect", "intercept"} # {}
         /\ inUse(dm, c, host) # NoDownload
    /\ running' = FALSE
    /\ batch' = {}
    /\ UNCHANGED <<cm, dm, srv, asked, resolving>>
-----------------------------------------------------------------------------
(* What the supervisor does between two runs of the reactor.               *)

\* A lookup that takes too long is answered with an error page.
timeoutResolver ==
    /\ running /\ batch = {}
    /\ UNCHANGED <<batch, asked, running>>
    /\ \E c \in Clients :
         /\ resolving[c] > 0
         /\ "page" \in LookupErrors
         /\ resolving' = [resolving EXCEPT ![c] = @ - 1]
         /\ enactDecision(c, "page")

\* Clients that have sent no request for too long are closed.
expire(c) ==
    /\ running /\ batch = {}
    /\ c \in cm.norequest
    /\ cm' = cleanup(cm, c)
    /\ srv' = closeClient(c)
    /\ UNCHANGED <<dm, asked, resolving, batch, running>>

\* No handler expects an exception: the process ends.
gone == ~running /\ UNCHANGED vars

Next ==
    \/ Poll
    \/ \E l \in Listeners : acceptConnections(l)
    \/ \E c \in Clients :
         \/ incomingRequest(c)
         \/ incomingClientData(c)
         \/ flushClientOutput(c)
         \/ expire(c)
    \/ \E d \in Downloads :
         \/ completeWebConnection(d)
         \/ incomingWebData(d)
         \/ flushWebOutput(d)
    \/ readRedirector
    \/ readResolver
    \/ unboundRequest
    \/ timeoutResolver
    \/ gone

Spec == Init /\ [][Next]_vars
=============================================================================

--------------------------- MODULE ClientManager ---------------------------
(***************************************************************************)
(* The clients of the proxy: reactor/client/manager.py with the reading    *)
(* and writing coroutines of reactor/client/{http,icap,tls,passthrough}.py *)
(*                                                                         *)
(* The manager never runs by itself: each of its methods is called by a    *)
(* handler of the reactor.  So the table of clients is a value, and a      *)
(* method is an operator from a table to a table and a result; the         *)
(* arguments named `sent' and `rd' are what the socket answered.           *)
(*                                                                         *)
(* Buffers are abstracted to empty / not empty, and what a client sends    *)
(* to what the reading coroutine makes of it.                              *)
(*                                                                         *)
(* The operators whose name has an underscore in it (removeOnce_Unguarded) *)
(* are wrong variants of the one they precede; nothing uses them.  They    *)
(* show which mistake in the code each property would catch.               *)
(***************************************************************************)
EXTENDS Sockets, Poller

\* The writing coroutine of a client: not started; relaying; told that
\* nothing more will come; returned (its next value is None).
WriterStates == {"new", "open", "finished", "over"}

\* The reading coroutine: suspended just after it returned a request; looking
\* for a request; relaying a body of known length; relaying everything;
\* about to refuse whatever comes.
ReaderModes == {"asked", "request", "body", "stream", "refuse"}

\* What sock.send() does with the buffer: takes it all, leaves some of it
\* (or would block), or reports a broken connection.
SendResults == {"all", "some", "error"}

ClientTable ==
    [norequest : SUBSET Clients,      \* accepted, no request read yet
     bysock    : SUBSET Clients,      \* a request was read
     opening_client : SUBSET Clients, \* poller events
     read_client    : EventSet(Clients),
     write_client   : SUBSET Clients,
     buffered : [Clients -> Nat],     \* occurrences in the list `buffered'
     w_buffer : SUBSET Clients,       \* clients with bytes left to send
     writer   : [Clients -> WriterStates],
     reader   : [Clients -> ReaderModes]]

NoClients ==
    [norequest |-> {}, bysock |-> {},
     opening_client |-> {}, read_client |-> NoSockets, write_client |-> {},
     buffered |-> [c \in Clients |-> 0], w_buffer |-> {},
     writer |-> [c \in Clients |-> "new"],
     reader |-> [c \in Clients |-> "request"]]

Live(cm) == cm.norequest \cup cm.bysock
-----------------------------------------------------------------------------
(* Opening and closing.                                                    *)

httpConnection(cm, c) ==
    [cm EXCEPT !.norequest = @ \cup {c}, !.opening_client = @ \cup {c}]

\* A passthrough client has no request to read: it is active at once.
passthroughConnection(cm, c) ==
    [cm EXCEPT !.bysock = @ \cup {c},
               !.read_client = addSocket(@, c),
               !.reader[c] = "stream"]

removeOnce_Unguarded(buffered, c) == [buffered EXCEPT ![c] = @ - 1]

\* list.remove(), when the client is there: one occurrence leaves.
removeOnce(buffered, c) == [buffered EXCEPT ![c] = IF @ > 0 THEN @ - 1 ELSE @]

cleanup(cm, c) ==
    [norequest |-> cm.norequest \ {c}, bysock |-> cm.bysock \ {c},
     opening_client |-> cm.opening_client \ {c},
     read_client |-> removeSocket(cm.read_client, c),
     write_client |-> cm.write_client \ {c},
     buffered |-> removeOnce(cm.buffered, c),
     w_buffer |-> cm.w_buffer \ {c},
     writer |-> [cm.writer EXCEPT ![c] = "new"],
     reader |-> [cm.reader EXCEPT ![c] = "request"]]

corkUpload(cm, c) ==
    IF c \in cm.bysock THEN [cm EXCEPT !.read_client = corkSocket(@, c)] ELSE cm

uncorkUpload(cm, c) ==
    IF c \in cm.bysock THEN [cm EXCEPT !.read_client = uncorkSocket(@, c)] ELSE cm
-----------------------------------------------------------------------------
(* Reading.                                                                *)

NextMode_AsksAgain(c, mode, wanted) == IF mode # "asked" THEN mode ELSE wanted

\* The mode in which the coroutine resumes when it is asked for more.
NextMode(c, mode, wanted) ==
    IF mode # "asked" THEN mode
    ELSE IF wanted = "request" /\ SourceOf[c] \notin {"proxy", "web", "icap"}
         THEN "refuse" ELSE wanted

\* What resuming a reader in a mode may return, and the mode it is left in.
\* Every reader may find that the connection is closed or has nothing (yet).
NoReads(mode) == {[got |-> "closed", mode |-> mode], [got |-> "nothing", mode |-> mode]}

When(condition, reads) == IF condition THEN reads ELSE {}

\* A body may end with the data returned, or with no data at all.
httpReads(mode) ==
    NoReads(mode)
    \cup When(mode = "request", {[got |-> "request", mode |-> "asked"]})
    \cup When(mode = "stream", {[got |-> "data", mode |-> "stream"]})
    \cup When(mode = "body", [got : {"data"}, mode : {"body", "request"}]
                             \cup {[got |-> "nothing", mode |-> "request"]})

\* The bodies an ICAP client sends are dropped.
icapReads(mode) ==
    NoReads(mode)
    \cup When(mode = "request", {[got |-> "request", mode |-> "asked"]})
    \cup When(mode = "body", {[got |-> "nothing", mode |-> "request"]})

tlsReads(mode) ==
    NoReads(mode)
    \cup When(mode = "request", {[got |-> "request", mode |-> "asked"]})
    \cup When(mode = "stream", {[got |-> "data", mode |-> "stream"]})

passthroughReads(mode) ==
    NoReads(mode) \cup When(mode = "stream", {[got |-> "data", mode |-> "stream"]})

ReadResults(c, mode) ==
    CASE SourceOf[c] \in {"proxy", "web"} -> httpReads(mode)
      [] SourceOf[c] = "icap" -> icapReads(mode)
      [] SourceOf[c] = "tls" -> tlsReads(mode)
      [] OTHER -> passthroughReads(mode)

\* readData() asks for a new request, except of an ICAP client.
PlainReads(cm, c) ==
    ReadResults(c, NextMode(c, cm.reader[c],
                            IF SourceOf[c] = "icap" THEN "refuse" ELSE "request"))

readRequest(cm, c, rd) ==
    IF c \notin cm.norequest THEN cm
    ELSE CASE rd.got = "closed" -> cleanup(cm, c)
           [] rd.got = "request" ->
                [cm EXCEPT !.norequest = @ \ {c}, !.bysock = @ \cup {c},
                           !.read_client = corkSocket(addSocket(@, c), c),
                           !.opening_client = @ \ {c},
                           !.reader[c] = rd.mode]
           [] OTHER -> [cm EXCEPT !.reader[c] = rd.mode]

readData(cm, c, rd) ==
    IF c \notin cm.bysock THEN cm
    ELSE CASE rd.got = "closed" -> cleanup(cm, c)
           [] rd.got = "request" ->
                [cm EXCEPT !.read_client = corkSocket(@, c), !.reader[c] = rd.mode]
           [] OTHER -> [cm EXCEPT !.reader[c] = rd.mode]
-----------------------------------------------------------------------------
(* Writing.  `data' is "flush" for the empty string, "data" for some       *)
(* bytes, "end" for None.                                                  *)

\* One resumption of the writing coroutine: the table after it, whether it
\* asked for the connection to be closed (None), and otherwise the two flags
\* it returned.
writeData(cm, c, data, sent) ==
    LET had      == c \in cm.w_buffer
        full     == had \/ data = "data"
        finished == cm.writer[c] = "finished" \/ data = "end"
        tries    == ~had \/ data = "flush"
        closed   == \/ cm.writer[c] = "over"
                    \/ finished /\ ~full
                    \/ tries /\ sent = "error"
        left     == full /\ (tries => sent # "all")
    IN  [cm |-> [cm EXCEPT !.w_buffer = IF left THEN @ \cup {c} ELSE @ \ {c},
                           !.writer[c] = IF closed THEN "over"
                                         ELSE IF finished THEN "finished" ELSE @],
         closed |-> closed, buffered |-> left \/ finished, had |-> had]

watchOutput_NoInterest(cm, c) == [cm EXCEPT !.buffered[c] = @ + 1]

watchOutput_NotListed(cm, c) == [cm EXCEPT !.write_client = @ \cup {c}]

unwatchOutput_KeepsInterest(cm, c) == [cm EXCEPT !.buffered[c] = @ - 1]

\* The client starts, or stops, buffering: the list and the write interest.
watchOutput(cm, c) ==
    [cm EXCEPT !.buffered[c] = @ + 1, !.write_client = @ \cup {c}]

unwatchOutput(cm, c) ==
    [cm EXCEPT !.buffered[c] = @ - 1, !.write_client = @ \ {c}]

\* status: "unknown" client, "closed" by this call, "buffering" or "clear".
sendData(cm, c, data, sent) ==
    LET w == writeData(cm, c, data, sent)
    IN  IF c \notin cm.bysock
          THEN [cm |-> cm, status |-> "unknown", change |-> FALSE]
        ELSE IF w.closed
          THEN [cm |-> cleanup(w.cm, c), status |-> "closed", change |-> FALSE]
        ELSE IF w.buffered /\ cm.buffered[c] = 0
          THEN [cm |-> watchOutput(w.cm, c), status |-> "buffering", change |-> TRUE]
        ELSE IF ~w.buffered /\ w.had /\ cm.buffered[c] > 0
          THEN [cm |-> unwatchOutput(w.cm, c), status |-> "clear", change |-> TRUE]
        ELSE [cm |-> w.cm, change |-> FALSE,
              status |-> IF w.buffered THEN "buffering" ELSE "clear"]

\* The contents that answer a decision: relay what will come; relay, starting
\* with a response; send a page, an empty string or nothing and close; send a
\* local file and close.
Contents == {"stream", "response", "page", "empty", "end", "file"}

\* The result of sending a page and closing: HTTPClient returns that of sending
\* the page, the others that of closing.
ReturnsPage(c) == SourceOf[c] \in {"proxy", "web"}

\* client.startData(): a new writing coroutine, and its first values.
startWriter(cm, c, content, sent) ==
    LET fresh == [cm EXCEPT !.writer[c] = "open"]
        page  == writeData(fresh, c, CASE content = "page"  -> "data"
                                       [] content = "empty" -> "flush"
                                       [] OTHER -> "end", sent)
        last  == writeData(page.cm, c, "end", "all")
    IN  CASE content = "stream"   -> writeData(fresh, c, "flush", sent)
          [] content = "response" -> writeData(fresh, c, "data", sent)
          [] content = "file" ->
               [cm |-> [cm EXCEPT !.writer[c] = "finished", !.w_buffer = @ \cup {c}],
                closed |-> SourceOf[c] \in {"tls", "passthrough"},
                buffered |-> TRUE, had |-> FALSE]
          [] OTHER -> IF ReturnsPage(c) THEN [page EXCEPT !.cm = last.cm] ELSE last

resume_StillCorked(cm, c, mode) == [cm EXCEPT !.reader[c] = mode]

\* The client may be read again, for what its reader is to look for.
resume(cm, c, mode) ==
    [cm EXCEPT !.read_client = uncorkSocket(@, c), !.reader[c] = mode]

\* got: "unknown" client, "closed" by this call, or what was read.
startData(cm, c, content, sent, rd) ==
    LET w    == startWriter(cm, c, content, sent)
        next == resume(w.cm, c, rd.mode)
    IN  IF c \notin cm.bysock THEN [cm |-> cm, got |-> "unknown"]
        ELSE IF w.closed \/ rd.got \in {"closed", "request"}
          THEN [cm |-> cleanup(w.cm, c), got |-> "closed"]
        ELSE IF w.buffered /\ ~w.had
          THEN [cm |-> watchOutput(next, c), got |-> rd.got]
        ELSE IF ~w.buffered /\ w.had
          THEN [cm |-> unwatchOutput(next, c), got |-> rd.got]
        ELSE [cm |-> next, got |-> rd.got]

\* readRelated() reads the length promised by the request just answered.
RelatedReads(cm, c, wanted) == ReadResults(c, NextMode(c, cm.reader[c], wanted))
=============================================================================

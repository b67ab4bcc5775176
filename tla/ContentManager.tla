--------------------------- MODULE ContentManager ---------------------------
(***************************************************************************)
(* The connections to the remote servers: reactor/content/manager.py with  *)
(* the connection object of reactor/content/worker.py.                     *)
(*                                                                         *)
(* As in ClientManager, the table of downloads is a value and a method is  *)
(* an operator on it.  A method that may change whether a download is      *)
(* buffering returns [dm, status, change]: `status' is TRUE when it is     *)
(* buffering (the code's None and False are both FALSE: no caller tells    *)
(* them apart), `change' is the code's buffer_change.                      *)
(***************************************************************************)
EXTENDS Sockets, Poller

Methods == {"download", "connect", "intercept"}

DownloadTable ==
    [opening     : SUBSET Downloads,   \* connecting
     established : SUBSET Downloads,
     byclient    : [Clients -> Downloads \cup {NoDownload}],
     client      : [Downloads -> Clients \cup {NoClient}],
     host        : [Downloads -> Hosts],
     method      : [Downloads -> Methods],
     opening_download : SUBSET Downloads,      \* poller events
     read_download    : EventSet(Downloads),
     write_download   : SUBSET Downloads,
     buffered : SUBSET Downloads,      \* the list `buffered', never twice
     w_buffer : SUBSET Downloads]      \* downloads with bytes left to send

AnyHost == CHOOSE h \in Hosts : TRUE

NoDownloads ==
    [opening |-> {}, established |-> {},
     byclient |-> [c \in Clients |-> NoDownload],
     client |-> [d \in Downloads |-> NoClient],
     host |-> [d \in Downloads |-> AnyHost],
     method |-> [d \in Downloads |-> "download"],
     opening_download |-> {}, read_download |-> NoSockets, write_download |-> {},
     buffered |-> {}, w_buffer |-> {}]

Known(dm) == dm.opening \cup dm.established
-----------------------------------------------------------------------------
(* Closing.                                                                *)

\* Forgets the download and the entry of client c in byclient.  The object is
\* gone: its fields go back to arbitrary values.
_terminate(dm, d, c) ==
    IF d \notin Known(dm) THEN dm
    ELSE [opening |-> dm.opening \ {d}, established |-> dm.established \ {d},
          byclient |-> [dm.byclient EXCEPT ![c] = NoDownload],
          client   |-> [dm.client EXCEPT ![d] = NoClient],
          host     |-> [dm.host EXCEPT ![d] = AnyHost],
          method   |-> [dm.method EXCEPT ![d] = "download"],
          opening_download |-> IF d \in dm.established THEN dm.opening_download
                               ELSE dm.opening_download \ {d},
          read_download    |-> IF d \in dm.established
                               THEN removeSocket(dm.read_download, d)
                               ELSE dm.read_download,
          write_download   |-> IF d \in dm.buffered THEN dm.write_download \ {d}
                               ELSE dm.write_download,
          buffered |-> dm.buffered \ {d}, w_buffer |-> dm.w_buffer \ {d}]

endClientDownload_OnlyOpen(dm, c) ==
    IF dm.byclient[c] \notin dm.established THEN dm
    ELSE _terminate(dm, dm.byclient[c], c)

endClientDownload(dm, c) ==
    IF dm.byclient[c] = NoDownload THEN dm ELSE _terminate(dm, dm.byclient[c], c)
-----------------------------------------------------------------------------
(* Writing to a server.  `full': there is something to send, kept from     *)
(* before or new.                                                          *)

\* Content.writeData(): what remains is kept, also when the send failed; but
\* a failure (None) is not `buffered'.
writeServer(dm, d, full, sent) ==
    [dm |-> [dm EXCEPT !.w_buffer = IF full /\ sent # "all" THEN @ \cup {d} ELSE @ \ {d}],
     buffered |-> full /\ sent = "some"]

watchServer_NoInterest(dm, d) == [dm EXCEPT !.buffered = @ \cup {d}]

\* The download starts, or stops, buffering: the list and the write interest.
watchServer(dm, d) ==
    [dm EXCEPT !.buffered = @ \cup {d}, !.write_download = @ \cup {d}]

unwatchServer(dm, d) ==
    [dm EXCEPT !.buffered = @ \ {d}, !.write_download = @ \ {d}]

\* The bookkeeping that follows a write; `again' is what it answers when the
\* download was buffering already.
rebuffer(w, d, again) ==
    IF w.buffered /\ d \notin w.dm.buffered
      THEN [dm |-> watchServer(w.dm, d), status |-> TRUE, change |-> TRUE]
    ELSE IF ~w.buffered /\ d \in w.dm.buffered
      THEN [dm |-> unwatchServer(w.dm, d), status |-> FALSE, change |-> TRUE]
    ELSE [dm |-> w.dm, status |-> w.buffered, change |-> w.buffered /\ again]

Unchanged(dm) == [dm |-> dm, status |-> FALSE, change |-> FALSE]

\* Write interest fired: send what is left.
sendSocketData(dm, d, sent) ==
    IF d \notin dm.established THEN Unchanged(dm)
    ELSE rebuffer(writeServer(dm, d, d \in dm.w_buffer, sent), d, FALSE)

\* Data of client c for its download.  A connection that is still opening
\* keeps it, without write interest.
sendClientData(dm, c, sent) ==
    LET d == dm.byclient[c]
    IN  IF d = NoDownload THEN Unchanged(dm)
        ELSE IF d \in dm.established
          THEN rebuffer(writeServer(dm, d, TRUE, sent), d, TRUE)
        ELSE IF d \in dm.opening
          THEN [dm |-> [dm EXCEPT !.w_buffer = @ \cup {d}, !.buffered = @ \cup {d}],
                status |-> TRUE, change |-> d \notin dm.buffered]
        ELSE Unchanged(_terminate(dm, d, c))
-----------------------------------------------------------------------------
(* Answering a decision.                                                   *)

\* getDownloader() closes the connection of the client to another host.
dropOther(dm, c, host) ==
    LET d == dm.byclient[c]
    IN  IF d # NoDownload /\ dm.host[d] # host THEN endClientDownload(dm, c) ELSE dm

\* The downloader in use for the client and the host, after dropOther.
inUse(dm, c, host) == dropOther(dm, c, host).byclient[c]

\* The request goes with the decision, except that of a CONNECT; nothing was
\* read from a passthrough client.
CarriesRequest(c, method) == method # "connect" /\ SourceOf[c] # "passthrough"

\* getContent() for a command that needs a server, when the connection could be
\* attempted (d is the new one, used only if there was none): the request is
\* handed over at once to a connection in use, and kept by a new one.  Only a
\* download may use a connection again: see the reactor's unboundRequest.
getRemote(dm, c, method, host, d, sent) ==
    LET kept == dropOther(dm, c, host)
        old  == kept.byclient[c]
    IN  IF old # NoDownload
        THEN rebuffer(writeServer(kept, old, TRUE, sent), old, FALSE)
        ELSE Unchanged(
               [kept EXCEPT !.opening = @ \cup {d},
                            !.byclient[c] = d,
                            !.client[d] = c, !.host[d] = host, !.method[d] = method,
                            !.opening_download = @ \cup {d},
                            !.w_buffer = IF CarriesRequest(c, method)
                                         THEN @ \cup {d} ELSE @])

getLocal_LeavesOpen(dm, c) == dm

\* getContent() otherwise (a local answer, or no connection could be attempted):
\* whatever the client was downloading is closed.
getLocal(dm, c) == endClientDownload(dm, c)
-----------------------------------------------------------------------------
(* Talking to a server.                                                    *)

\* The connection is open or failed: start the conversation.  `buffered' keeps
\* what sendClientData put there, whatever this write left.
startDownload(dm, d, sent) ==
    LET w      == writeServer(dm, d, d \in dm.w_buffer, sent)
        waits  == d \in dm.buffered
        failed == sent = "error"
    IN  IF d \notin dm.opening
        THEN [dm |-> dm, client |-> NoClient, response |-> FALSE, change |-> FALSE]
        ELSE [dm |-> [w.dm EXCEPT
                        !.opening = @ \ {d}, !.established = @ \cup {d},
                        !.opening_download = @ \ {d},
                        !.read_download = addSocket(@, d),
                        !.write_download = IF waits THEN @ \cup {d} ELSE @ \ {d}],
              client |-> dm.client[d],
              response |-> IF failed THEN dm.method[d] # "intercept"
                           ELSE dm.method[d] = "connect",
              change |-> waits]

\* page: "data", "flush" when there was nothing, "end" at the end or on error.
readDownload(dm, d, page) ==
    IF d \notin dm.established THEN [dm |-> dm, client |-> NoClient]
    ELSE [dm |-> IF page = "end" THEN _terminate(dm, d, dm.client[d]) ELSE dm,
          client |-> dm.client[d]]

corkClientDownload_Missing(dm, c) == dm

corkClientDownload(dm, c) ==
    LET d == dm.byclient[c]
    IN  IF d = NoDownload THEN dm
        ELSE [dm EXCEPT !.read_download = corkSocket(@, d)]

uncorkClientDownload_Missing(dm, c) == dm

uncorkClientDownload(dm, c) ==
    LET d == dm.byclient[c]
    IN  IF d \in dm.established
        THEN [dm EXCEPT !.read_download = uncorkSocket(@, d)] ELSE dm
=============================================================================

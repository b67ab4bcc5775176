------------------------- MODULE ReactorProperties -------------------------
(***************************************************************************)
(* What the composition of servers, clients and downloads must guarantee.  *)
(* Each handler of the reactor updates several of these tables, one call   *)
(* after the other; the properties relate the tables to each other.        *)
(***************************************************************************)
EXTENDS Reactor

(* Every table holds values of its kind.  (The bookkeeping of             *)
(* reactor/client/manager.py, reactor/content/manager.py and              *)
(* network/server.py.)                                                     *)
TypeOK ==
    /\ cm \in ClientTable
    /\ dm \in DownloadTable
    /\ srv \in ServerTable
    /\ asked \in [Clients -> Nat]
    /\ resolving \in [Clients -> Nat]
    /\ batch \subseteq Events
    /\ running \in BOOLEAN

(* The poller watches a client for its first request exactly while it is   *)
(* in norequest, and for more data exactly while it is in bysock; nothing  *)
(* is watched for a client that cleanup() closed, and a client watched for *)
(* writing is in the list buffered.                                        *)
ClientTables ==
    /\ cm.norequest \cap cm.bysock = {}
    /\ cm.opening_client = cm.norequest
    /\ cm.read_client.socks = cm.bysock
    /\ cm.read_client.corked \subseteq cm.bysock
    /\ \A c \in cm.write_client : c \in cm.bysock /\ cm.buffered[c] > 0
    /\ cm.w_buffer \subseteq cm.bysock

(* The same for downloads, and byclient is the inverse of the field client *)
(* of the downloads that exist: _terminate(), called with a socket and a   *)
(* client by four different handlers, never forgets half of a pair.        *)
DownloadTables ==
    /\ dm.opening \cap dm.established = {}
    /\ dm.opening_download = dm.opening
    /\ dm.read_download.socks = dm.established
    /\ dm.read_download.corked \subseteq dm.established
    /\ dm.buffered \cap dm.established \subseteq dm.write_download
    /\ dm.write_download \subseteq dm.buffered
    /\ dm.buffered \subseteq Known(dm)
    /\ \A c \in Clients :
         dm.byclient[c] # NoDownload =>
             dm.byclient[c] \in Known(dm) /\ dm.client[dm.byclient[c]] = c
    /\ \A d \in Known(dm) : dm.client[d] \in Clients /\ dm.byclient[dm.client[d]] = d

(* Whatever handler closes a client, its download is closed with it: no    *)
(* connection to a server outlives the client it was opened for.           *)
NoOrphanDownload == \A d \in Known(dm) : dm.client[d] \in cm.bysock

(* A client that is written to (its write interest is registered or a      *)
(* download relays to it) has a writing coroutine: sendData() calls        *)
(* client.writeData(), which needs one.                                    *)
StartedWriter ==
    \A c \in Clients :
      c \in cm.write_client \/ dm.byclient[c] # NoDownload => cm.writer[c] # "new"

(* The servers whose clients are asked about only once.                    *)
OneShot == {"tls", "passthrough"}

(* A tls or passthrough client is asked about once, whatever it sends      *)
(* before and after the answer, and only clients of the servers that relay *)
(* are looked up names for.                                                *)
AskedOnce ==
    \A c \in Clients :
      /\ SourceOf[c] \in OneShot =>
           /\ Outstanding(c) <= 1
           /\ c \in cm.norequest => Outstanding(c) = 0
           /\ c \in cm.bysock => cm.reader[c] \notin {"request", "body"}
      /\ SourceOf[c] \in {"web", "icap"} => resolving[c] = 0

(* When startData() finds that the output of a client is flushed it takes  *)
(* the client out of the list buffered (client/manager.py:281), which      *)
(* raises an exception, and ends the proxy, if it is not there.  The       *)
(* output of a tls or passthrough client may be missing from the list, but *)
(* then no answer is to come for it.                                       *)
OutputIsListed ==
    \A c \in cm.bysock :
      c \in cm.w_buffer => \/ cm.buffered[c] > 0
                           \/ (SourceOf[c] \in OneShot /\ Outstanding(c) = 0)

(* Every handler that loses a client gives its slot back exactly once,     *)
(* and the listening sockets are watched exactly while slots are left:     *)
(* a slot lost for ever would end with a server that accepts nobody.       *)
SlotAccounting ==
    \A s \in Sources :
      /\ srv.client_count[s] = Cardinality({c \in Live(cm) : SourceOf[c] = s})
      /\ \A l \in ListenersOf(s) :
           l \in srv.watched <=> srv.client_count[s] < MaxClients[s]

(* No server has more clients than its configuration allows                *)
(* (network/server.py:36), but for the other listening sockets of the      *)
(* batch in which it becomes full: they are accepted from all the same.    *)
AtMostMaxClients ==
    \A s \in Sources :
      srv.client_count[s] <= MaxClients[s] + Cardinality(ListenersOf(s)) - 1

(* A client that was told that nothing more comes has no download left to  *)
(* send it something (http.py logs `Tried to send data to client after we  *)
(* told it to close').                                                     *)
NoDataAfterEnd ==
    \A c \in Clients :
      cm.writer[c] \in {"finished", "over"} => dm.byclient[c] = NoDownload

\* The clients that send no request before the last one is answered.
Waiting == {c \in Clients : SourceOf[c] \notin OneShot /\ Requests[c] # "pipelined"}

(* A client with output left, or that waits to be closed, is watched for   *)
(* writing; otherwise nothing would ever send the rest or close it.  This  *)
(* is so for clients that wait for their answers.                          *)
OutputIsWatched ==
    \A c \in cm.bysock \cap Waiting :
      c \in cm.w_buffer \/ cm.writer[c] = "finished" => c \in cm.write_client

(* The converse: a client watched for writing has something to send or to  *)
(* close, or else the loop spins on a socket that is always writable.      *)
NoIdleWatch ==
    \A c \in cm.write_client : c \in cm.w_buffer \/ cm.writer[c] = "finished"

(* A client we stopped reading from is waited for by somebody who will     *)
(* uncork or close it: the redirector or the resolver, a server that is    *)
(* slow to take what the client sent, or the end of its own output.        *)
NoStuckClient ==
    \A c \in cm.read_client.corked :
      \/ Outstanding(c) > 0
      \/ dm.byclient[c] \in dm.buffered
      \/ cm.writer[c] = "finished"

(* A server we stopped reading from is uncorked when its client's output   *)
(* is flushed, so its client must be watched for writing.                  *)
NoStuckDownload ==
    \A d \in dm.read_download.corked : dm.client[d] \in cm.write_client

\* The clients that get a second answer on their connection.
Reusing(c) == SourceOf[c] \notin OneShot /\ Requests[c] # "one"

(* The same for the first answer on a connection: startDownload(), the     *)
(* relay and the flush of the client cork and uncork in step.              *)
NoStuckFirstDownload ==
    \A d \in dm.read_download.corked :
      Reusing(dm.client[d]) \/ dm.client[d] \in cm.write_client

(* We do not read from the server while its client is buffering            *)
(* (reactor.py:226), or the buffer would grow without limit; this too is   *)
(* so for the first answer on a connection.                                *)
BackPressure ==
    \A d \in dm.established :
      dm.client[d] \in cm.write_client /\ ~Reusing(dm.client[d]) =>
        d \in dm.read_download.corked

(* What is left of a request is sent to a connected server once it has     *)
(* room (content/worker.py:39).                                            *)
ServerOutputIsWatched ==
    \A d \in dm.established : d \in dm.w_buffer => d \in dm.write_download

(* One request of a client at a time is with the redirector or the         *)
(* resolver (client/manager.py:151): answers carry the client's name       *)
(* only, and could not be told apart.                                      *)
OneRequestAtATime == \A c \in cm.bysock : Outstanding(c) <= 1

(* A CONNECT is answered like any other request (README.md:15), also on a  *)
(* connection that served requests before: it does not end the proxy.      *)
KeepsRunning == running
=============================================================================

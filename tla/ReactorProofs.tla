---------------------------- MODULE ReactorProofs ----------------------------
(***************************************************************************)
(* The tables of the reactor agree with each other after every handler,    *)
(* for every set of clients, servers and connections, every mix of         *)
(* sources, and batches of every size.  Then, with them, that the slots of *)
(* the servers are counted right, that nobody is written to before its     *)
(* writing coroutine is started, and that whoever is not read is waited    *)
(* for by somebody who will read it again.                                 *)
(***************************************************************************)
EXTENDS ReactorProperties, ClientManagerProofs, ContentManagerProofs, FiniteSetTheorems

\* Client c of a client table t, with n questions asked and r names looked up.
ClientOK(t, c, n, r) ==
    /\ c \in t.bysock /\ c \in t.w_buffer =>
         t.buffered[c] > 0 \/ (SourceOf[c] \in OneShot /\ n + r = 0)
    /\ SourceOf[c] \in OneShot =>
         /\ n + r <= 1
         /\ c \in t.norequest => n + r = 0
         /\ c \in t.bysock => t.reader[c] \notin {"request", "body"}
    /\ SourceOf[c] \in {"web", "icap"} => r = 0

\* The inductive invariant, as a predicate on the tables: the properties proved
\* below, none of which is preserved without the others.
Agree(t, u, s, n, r) ==
    /\ ClientsOK(t) /\ DownloadsOK(u) /\ s \in ServerTable
    /\ n \in [Clients -> Nat] /\ r \in [Clients -> Nat]
    /\ Owners(u) \subseteq t.bysock
    /\ \A c \in Clients : ClientOK(t, c, n[c], r[c])

IInv == Agree(cm, dm, srv, asked, resolving)

\* The type of what the loop itself keeps.
LoopOK == batch \subseteq Events /\ running \in BOOLEAN
-----------------------------------------------------------------------------
(* The invariant is the conjunction of properties of ReactorProperties.    *)
LEMMA IInvParts ==
    IInv /\ LoopOK <=>
          /\ TypeOK /\ ClientTables /\ DownloadTables
          /\ NoOrphanDownload /\ OutputIsListed /\ AskedOnce
  <1>1. ClientsOK(cm) <=> cm \in ClientTable /\ ClientTables
    BY DEF ClientsOK, ClientTables
  <1>2. DownloadsOK(dm) <=> dm \in DownloadTable /\ DownloadTables
    BY DEF DownloadsOK, DownloadTables
  <1>3. Owners(dm) \subseteq cm.bysock <=> NoOrphanDownload
    BY DEF Owners, NoOrphanDownload
  <1>4. ASSUME cm \in ClientTable
        PROVE  (\A c \in Clients : ClientOK(cm, c, asked[c], resolving[c]))
                 <=> OutputIsListed /\ AskedOnce
    BY <1>4, TypesOf DEF ClientOK, OutputIsListed, AskedOnce, Outstanding
  <1> QED
    BY <1>1, <1>2, <1>3, <1>4 DEF IInv, LoopOK, Agree, TypeOK, ClientsOK

(* A step that concerns one client leaves the others in order.             *)
LEMMA OneClient ==
    ASSUME NEW t, NEW u, NEW s, NEW n, NEW r, Agree(t, u, s, n, r), NEW c \in Clients,
           NEW t2, NEW u2, NEW s2, NEW n2, NEW r2,
           ClientsOK(t2), OnlyFor(c, t, t2), DownloadsOK(u2), s2 \in ServerTable,
           Owners(u2) \subseteq t2.bysock,
           n2 \in [Clients -> Nat], r2 \in [Clients -> Nat],
           \A k \in Clients \ {c} : n2[k] = n[k] /\ r2[k] = r[k],
           ClientOK(t2, c, n2[c], r2[c])
    PROVE  Agree(t2, u2, s2, n2, r2)
  <1>1. ASSUME NEW k \in Clients, k # c
        PROVE  ClientOK(t2, k, n2[k], r2[k])
    <2>1. ClientOK(t, k, n[k], r[k])
      BY DEF Agree
    <2>2. n2[k] = n[k] /\ r2[k] = r[k]
      BY <1>1
    <2>3. /\ k \in t2.bysock <=> k \in t.bysock
          /\ k \in t2.norequest <=> k \in t.norequest
          /\ k \in t2.w_buffer <=> k \in t.w_buffer
          /\ t2.buffered[k] = t.buffered[k] /\ t2.reader[k] = t.reader[k]
      BY <1>1 DEF OnlyFor
    <2> QED
      BY <2>1, <2>2, <2>3 DEF ClientOK
  <1> QED
    BY <1>1 DEF Agree

LEMMA ServersOK ==
    ASSUME NEW s \in ServerTable, NEW source \in Sources
    PROVE  /\ pause(s, source) \in ServerTable
           /\ accepted(s, source) \in ServerTable
           /\ notifyClose(s, source, 1) \in ServerTable
  <1>1. \A v \in ServerTable : pause(v, source) \in ServerTable
    BY DEF pause, ServerTable
  <1>2. [s EXCEPT !.client_count[source] = @ + 1] \in ServerTable
    BY DEF ServerTable
  <1>3. notifyClose(s, source, 1) \in ServerTable
    <2>1. [s EXCEPT !.client_count[source] = @ - 1] \in ServerTable
      BY DEF ServerTable
    <2>2. \A v \in ServerTable :
            [v EXCEPT !.watched = @ \cup (ListenersOf(source) \cap s.socks)] \in ServerTable
      BY DEF ServerTable, ListenersOf
    <2> QED
      BY <2>1, <2>2 DEF notifyClose
  <1> QED
    BY <1>1, <1>2, <1>3 DEF accepted

LEMMA SourcesOf == \A c \in Clients : SourceOf[c] \in Sources
  BY SocketsAssumption

LEMMA InitAgrees == Init => IInv
  <1> SUFFICES ASSUME Init PROVE IInv
    OBVIOUS
  <1>1. ClientsOK(cm) /\ cm.bysock = {} /\ cm.norequest = {}
    BY DEF Init, NoClients, ClientsOK, ClientTable, NoSockets, EventSet, WriterStates,
           ReaderModes
  <1>2. DownloadsOK(dm) /\ Known(dm) = {}
    <2>1. /\ [c \in Clients |-> NoDownload] \in [Clients -> Downloads \cup {NoDownload}]
          /\ [d \in Downloads |-> NoClient] \in [Downloads -> Clients \cup {NoClient}]
          /\ [d \in Downloads |-> AnyHost] \in [Downloads -> Hosts]
          /\ [d \in Downloads |-> "download"] \in [Downloads -> Methods]
          /\ NoSockets \in EventSet(Downloads)
      BY AnyHostOK DEF Methods, NoSockets, EventSet
    <2>2. dm \in DownloadTable
      BY <2>1 DEF Init, NoDownloads, DownloadTable
    <2>3. /\ dm.opening = {} /\ dm.established = {} /\ dm.opening_download = {}
          /\ dm.read_download.socks = {} /\ dm.read_download.corked = {}
          /\ dm.write_download = {} /\ dm.buffered = {}
          /\ \A c \in Clients : dm.byclient[c] = NoDownload
      BY DEF Init, NoDownloads, NoSockets
    <2> QED
      BY <2>2, <2>3 DEF DownloadsOK, Known
  <1>3. srv \in ServerTable
    <2>1. [client_count |-> [x \in Sources |-> 0], socks |-> {}, watched |-> {},
           serving |-> Sources] \in ServerTable
      BY DEF ServerTable
    <2>2. \A v \in ServerTable : listen(v, Listeners) \in ServerTable
      BY DEF listen, ServerTable
    <2> QED
      BY <2>1, <2>2 DEF Init, NewServers
  <1>4. /\ asked \in [Clients -> Nat] /\ resolving \in [Clients -> Nat]
        /\ \A c \in Clients : asked[c] = 0 /\ resolving[c] = 0
    BY DEF Init
  <1>5. ASSUME NEW c \in Clients
        PROVE  ClientOK(cm, c, asked[c], resolving[c])
    <2>1. asked[c] = 0 /\ resolving[c] = 0 /\ c \notin cm.bysock
      BY <1>1, <1>4
    <2> QED
      BY <2>1 DEF ClientOK
  <1> QED
    BY <1>1, <1>2, <1>3, <1>4, <1>5 DEF IInv, Agree, Owners
-----------------------------------------------------------------------------
(* One lemma per handler.                                                  *)

LEMMA AcceptOK ==
    ASSUME IInv, NEW l \in Listeners, acceptConnections(l)
    PROVE  IInv'
  <1> DEFINE source == ListenerOf[l]
  <1>1. source \in Sources
    BY SocketsAssumption
  <1>2. CASE srv' = pause(srv, source) /\ UNCHANGED <<cm, asked>>
    <2>1. srv' \in ServerTable
      BY <1>1, <1>2, ServersOK DEF IInv, Agree
    <2> QED
      BY <1>2, <2>1 DEF acceptConnections, IInv, Agree
  <1>3. ASSUME NEW c \in FreeClients, SourceOf[c] = source, srv' = accepted(srv, source),
               IF source = "passthrough"
               THEN /\ cm' = passthroughConnection(cm, c)
                    /\ asked' = [asked EXCEPT ![c] = @ + 1]
               ELSE cm' = httpConnection(cm, c) /\ UNCHANGED asked
        PROVE  IInv'
    <2>1. /\ c \in Clients /\ c \notin Live(cm) /\ asked[c] + resolving[c] = 0
          /\ asked \in [Clients -> Nat] /\ resolving \in [Clients -> Nat]
          /\ ClientsOK(cm) /\ DownloadsOK(dm) /\ srv \in ServerTable
          /\ Owners(dm) \subseteq cm.bysock
      BY DEF FreeClients, IInv, Agree, Outstanding
    <2>2. srv' \in ServerTable /\ dm' = dm /\ resolving' = resolving
      BY <1>1, <1>3, <2>1, ServersOK DEF acceptConnections
    <2>3. asked[c] = 0 /\ resolving[c] = 0 /\ c \notin cm.w_buffer
      BY <2>1 DEF ClientsOK, Live
    <2>4. CASE source = "passthrough"
      <3>1. /\ ClientsOK(cm') /\ OnlyFor(c, cm, cm')
            /\ cm'.norequest = cm.norequest /\ cm'.bysock = cm.bysock \cup {c}
            /\ cm'.w_buffer = cm.w_buffer /\ cm'.reader[c] = "stream"
        BY <1>3, <2>1, <2>4, PassthroughConnectionOK
      <3>2. asked' \in [Clients -> Nat] /\ asked'[c] = 1
            /\ \A k \in Clients \ {c} : asked'[k] = asked[k]
        BY <1>3, <2>1, <2>3, <2>4
      <3>3. ClientOK(cm', c, asked'[c], resolving'[c])
        BY <1>3, <2>1, <2>2, <2>3, <2>4, <3>1, <3>2 DEF ClientOK, Live
      <3>4. Owners(dm') \subseteq cm'.bysock
        BY <2>1, <2>2, <3>1
      <3> QED
        BY <2>1, <2>2, <3>1, <3>2, <3>3, <3>4, OneClient DEF IInv
    <2>5. CASE source # "passthrough"
      <3>1. /\ ClientsOK(cm') /\ OnlyFor(c, cm, cm')
            /\ cm'.norequest = cm.norequest \cup {c} /\ cm'.bysock = cm.bysock
            /\ cm'.w_buffer = cm.w_buffer
        BY <1>3, <2>1, <2>5, HttpConnectionOK
      <3>2. asked' = asked
        BY <1>3, <2>5
      <3>3. ClientOK(cm', c, asked'[c], resolving'[c])
        BY <2>1, <2>2, <2>3, <3>1, <3>2 DEF ClientOK, Live
      <3> QED
        BY <2>1, <2>2, <3>1, <3>2, <3>3, OneClient DEF IInv
    <2> QED
      BY <2>4, <2>5
  <1> QED
    BY <1>2, <1>3 DEF acceptConnections

LEMMA IncomingRequestOK ==
    ASSUME IInv, NEW c \in Clients, incomingRequest(c)
    PROVE  IInv'
  <1>1. /\ asked \in [Clients -> Nat] /\ resolving \in [Clients -> Nat]
        /\ ClientsOK(cm) /\ DownloadsOK(dm) /\ srv \in ServerTable
        /\ Owners(dm) \subseteq cm.bysock
        /\ ClientOK(cm, c, asked[c], resolving[c])
    BY DEF IInv, Agree
  <1>2. cm.reader[c] \in ReaderModes
    BY <1>1, TypesOf DEF ClientsOK
  <1>3. PICK rd \in ReadResults(c, cm.reader[c]) :
          /\ cm' = readRequest(cm, c, rd)
          /\ srv' = IF c \in cm.norequest /\ rd.got = "closed" THEN closeClient(c) ELSE srv
          /\ asked' = IF c \in cm.norequest /\ rd.got = "request"
                      THEN [asked EXCEPT ![c] = @ + 1] ELSE asked
    BY DEF incomingRequest
  <1>4. rd \in Reads /\ (rd.got = "request" => rd.mode = "asked")
    BY <1>2, ReadResultsOK
  <1>5. /\ ClientsOK(cm') /\ OnlyFor(c, cm, cm') /\ cm.bysock \subseteq cm'.bysock
        /\ c \in cm.bysock => cm' = cm
        /\ c \in cm'.bysock /\ c \notin cm.bysock =>
             c \notin cm'.w_buffer /\ rd.got = "request" /\ cm'.reader[c] = rd.mode
        /\ c \in cm'.norequest => c \in cm.norequest /\ rd.got # "request"
    BY <1>1, <1>3, <1>4, ReadRequestOK
  <1>6. dm' = dm /\ resolving' = resolving
    BY DEF incomingRequest
  <1>7. srv' \in ServerTable
    BY <1>1, <1>3, SourcesOf, ServersOK DEF closeClient
  <1>8. /\ asked' \in [Clients -> Nat]
        /\ \A k \in Clients \ {c} : asked'[k] = asked[k]
        /\ asked'[c] = IF c \in cm.norequest /\ rd.got = "request"
                       THEN asked[c] + 1 ELSE asked[c]
    BY <1>1, <1>3
  <1>9. ClientOK(cm', c, asked'[c], resolving'[c])
    <2>1. CASE c \in cm.norequest /\ rd.got = "request"
      <3>1. c \notin cm.bysock
        BY <1>1, <2>1 DEF ClientsOK
      <3>2. c \notin cm'.norequest /\ (c \in cm'.bysock => c \notin cm'.w_buffer)
            /\ (c \in cm'.bysock => cm'.reader[c] = "asked")
        BY <1>4, <1>5, <2>1, <3>1
      <3>3. asked'[c] = asked[c] + 1 /\ asked[c] \in Nat /\ resolving[c] \in Nat
        BY <1>1, <1>8, <2>1
      <3> QED
        BY <1>1, <1>6, <2>1, <3>2, <3>3 DEF ClientOK
    <2>2. CASE ~(c \in cm.norequest /\ rd.got = "request")
      <3>1. asked'[c] = asked[c]
        BY <1>8, <2>2
      <3>2. CASE c \in cm.bysock
        BY <1>1, <1>5, <1>6, <3>1, <3>2
      <3>3. CASE c \notin cm.bysock
        <4>1. c \notin cm'.bysock
          BY <1>3, <1>5, <2>2, <3>3 DEF readRequest
        <4>2. c \in cm'.norequest => c \in cm.norequest
          BY <1>5
        <4> QED
          BY <1>1, <1>6, <3>1, <4>1, <4>2 DEF ClientOK
      <3> QED
        BY <3>2, <3>3
    <2> QED
      BY <2>1, <2>2
  <1>10. Owners(dm') \subseteq cm'.bysock
    BY <1>1, <1>5, <1>6
  <1> QED
    BY <1>1, <1>5, <1>6, <1>7, <1>8, <1>9, <1>10, OneClient DEF IInv

(* Closing a client takes its download away.                               *)
LEMMA ClosingOK ==
    ASSUME NEW t, NEW u, DownloadsOK(u), Owners(u) \subseteq t.bysock, NEW c \in Clients,
           NEW t2, t2.bysock = t.bysock \ {c}, NEW u2, u2 = endClientDownload(u, c)
    PROVE  DownloadsOK(u2) /\ Owners(u2) \subseteq t2.bysock
  BY EndClientDownloadOK

LEMMA BackpressureOK ==
    ASSUME NEW t, ClientsOK(t), NEW c, NEW s, NEW u, u = backpressure(t, c, s)
    PROVE  ClientsOK(u) /\ SameClients(t, u)
  BY CorkOK DEF backpressure, SameClients

LEMMA SameClientsOnly ==
    ASSUME NEW t, NEW u, SameClients(t, u), NEW c
    PROVE  OnlyFor(c, t, u)
  BY DEF SameClients, OnlyFor

LEMMA ExpireOK ==
    ASSUME IInv, NEW c \in Clients, expire(c)
    PROVE  IInv'
  <1>1. /\ asked \in [Clients -> Nat] /\ resolving \in [Clients -> Nat]
        /\ ClientsOK(cm) /\ DownloadsOK(dm) /\ srv \in ServerTable
        /\ Owners(dm) \subseteq cm.bysock
        /\ ClientOK(cm, c, asked[c], resolving[c])
    BY DEF IInv, Agree
  <1>2. /\ c \in cm.norequest /\ cm' = cleanup(cm, c) /\ srv' = closeClient(c)
        /\ dm' = dm /\ asked' = asked /\ resolving' = resolving
    BY DEF expire
  <1>3. /\ ClientsOK(cm') /\ OnlyFor(c, cm, cm')
        /\ cm'.norequest = cm.norequest \ {c} /\ cm'.bysock = cm.bysock \ {c}
    BY <1>1, <1>2, CleanupOK
  <1>4. srv' \in ServerTable
    BY <1>1, <1>2, SourcesOf, ServersOK DEF closeClient
  <1>5. Owners(dm') \subseteq cm'.bysock
    BY <1>1, <1>2, <1>3 DEF ClientsOK
  <1>6. ClientOK(cm', c, asked'[c], resolving'[c])
    BY <1>1, <1>2, <1>3 DEF ClientOK
  <1> QED
    BY <1>1, <1>2, <1>3, <1>4, <1>5, <1>6, OneClient DEF IInv

LEMMA FlushWebOutputOK ==
    ASSUME IInv, NEW d \in Downloads, flushWebOutput(d)
    PROVE  IInv'
  <1>1. ClientsOK(cm) /\ DownloadsOK(dm) /\ Owners(dm) \subseteq cm.bysock
    BY DEF IInv, Agree
  <1>2. PICK sent \in SendResults :
          /\ dm' = sendSocketData(dm, d, sent).dm
          /\ cm' = backpressure(cm, dm.client[d], sendSocketData(dm, d, sent))
    BY DEF flushWebOutput
  <1>3. DownloadsOK(dm') /\ SameDownloads(dm, dm')
    BY <1>1, <1>2, SendSocketDataOK
  <1>4. ClientsOK(cm') /\ SameClients(cm, cm')
    BY <1>1, <1>2, BackpressureOK
  <1>5. Owners(dm') = Owners(dm)
    BY <1>3, SameOwners
  <1>6. srv' = srv /\ asked' = asked /\ resolving' = resolving
    BY DEF flushWebOutput
  <1>7. ASSUME NEW c \in Clients
        PROVE  ClientOK(cm', c, asked'[c], resolving'[c])
    BY <1>4, <1>6 DEF IInv, Agree, ClientOK, SameClients
  <1> QED
    BY <1>1, <1>3, <1>4, <1>5, <1>6, <1>7 DEF IInv, Agree, SameClients

(* A client written to stays in order, if the client and its download are  *)
(* closed together.                                                        *)
LEMMA WrittenOK ==
    ASSUME NEW t, NEW u, NEW s, NEW n, NEW r, Agree(t, u, s, n, r), NEW c \in Clients,
           NEW t2, NEW u2, NEW s2 \in ServerTable, ClientsOK(t2), OnlyFor(c, t, t2),
           t2.norequest = t.norequest, t2.bysock \subseteq t.bysock,
           c \in t2.bysock => Listed(t2, c) /\ t2.reader[c] = t.reader[c],
           DownloadsOK(u2), Owners(u2) \subseteq t2.bysock
    PROVE  Agree(t2, u2, s2, n, r)
  <1>1. ClientOK(t2, c, n[c], r[c])
    BY DEF Agree, ClientOK, Listed
  <1>2. n \in [Clients -> Nat] /\ r \in [Clients -> Nat]
    BY DEF Agree
  <1> QED
    BY <1>1, <1>2, OneClient

LEMMA FlushClientOutputOK ==
    ASSUME IInv, NEW c \in Clients, flushClientOutput(c)
    PROVE  IInv'
  <1>1. /\ ClientsOK(cm) /\ DownloadsOK(dm) /\ srv \in ServerTable
        /\ Owners(dm) \subseteq cm.bysock
    BY DEF IInv, Agree
  <1>2. PICK sent \in SendResults :
         LET t == sendData(cm, c, "flush", sent)
         IN  /\ cm' = t.cm
             /\ srv' = IF t.status = "closed" THEN closeClient(c) ELSE srv
             /\ dm' = CASE t.status = "closed" -> endClientDownload(dm, c)
                        [] t.change /\ t.status = "clear" -> uncorkClientDownload(dm, c)
                        [] t.change /\ t.status = "buffering" -> corkClientDownload(dm, c)
                        [] OTHER -> dm
    BY DEF flushClientOutput
  <1>3. asked' = asked /\ resolving' = resolving
    BY DEF flushClientOutput
  <1>4. srv' \in ServerTable
    BY <1>1, <1>2, SourcesOf, ServersOK DEF closeClient
  <1>5. PICK t : t = sendData(cm, c, "flush", sent)
    OBVIOUS
  <1>6. /\ ClientsOK(t.cm)
        /\ t.status = "unknown" <=> c \notin cm.bysock
        /\ t.status = "unknown" => t.cm = cm
        /\ t.status # "unknown" => OnlyFor(c, cm, t.cm)
        /\ t.cm.norequest = cm.norequest
        /\ t.status = "closed" => t.cm.bysock = cm.bysock \ {c}
        /\ t.status # "closed" => t.cm.bysock = cm.bysock
        /\ c \in t.cm.bysock => Listed(t.cm, c) /\ t.cm.reader[c] = cm.reader[c]
    BY <1>1, <1>5, SendDataOK
  <1>7. DownloadsOK(dm') /\ Owners(dm') \subseteq t.cm.bysock
    <2>1. CASE t.status = "closed"
      BY <1>1, <1>2, <1>5, <1>6, <2>1, ClosingOK
    <2>2. CASE t.status # "closed"
      <3>1. dm' \in {uncorkClientDownload(dm, c), corkClientDownload(dm, c), dm}
        BY <1>2, <1>5, <2>2
      <3>2. DownloadsOK(dm') /\ Owners(dm') = Owners(dm)
        BY <1>1, <3>1, DownloadCorkOK, SameOwners
      <3> QED
        BY <1>1, <1>6, <2>2, <3>2
    <2> QED
      BY <2>1, <2>2
  <1>8. CASE t.status = "unknown"
    <2>1. cm' = cm
      BY <1>2, <1>5, <1>6, <1>8
    <2> QED
      BY <1>3, <1>4, <1>6, <1>7, <1>8, <2>1 DEF IInv, Agree
  <1>9. CASE t.status # "unknown"
    <2>1. cm' = t.cm
      BY <1>2, <1>5
    <2>2. t.cm.bysock \subseteq cm.bysock
      BY <1>6
    <2> QED
      BY <1>3, <1>4, <1>6, <1>7, <1>9, <2>1, <2>2, WrittenOK DEF IInv
  <1> QED
    BY <1>8, <1>9

LEMMA IncomingWebDataOK ==
    ASSUME IInv, NEW d \in Downloads, incomingWebData(d)
    PROVE  IInv'
  <1>1. /\ ClientsOK(cm) /\ DownloadsOK(dm) /\ srv \in ServerTable
        /\ Owners(dm) \subseteq cm.bysock
    BY DEF IInv, Agree
  <1>2. PICK page \in {"data", "flush", "end"}, sent \in SendResults :
         LET r == readDownload(dm, d, page)
             c == r.client
             t == sendData(cm, c, page, sent)
         IN  /\ cm' = t.cm
             /\ srv' = IF t.status = "closed" THEN downloadLostClient(c) ELSE srv
             /\ dm' = CASE c # NoClient /\ t.status \in {"closed", "unknown"} /\ page # "end" ->
                             endClientDownload(r.dm, c)
                        [] t.change /\ t.status = "buffering" -> corkClientDownload(r.dm, c)
                        [] OTHER -> r.dm
    BY DEF incomingWebData
  <1>3. asked' = asked /\ resolving' = resolving
    BY DEF incomingWebData
  <1>4. PICK r, c, t : /\ r = readDownload(dm, d, page)
                       /\ c = r.client /\ t = sendData(cm, c, page, sent)
    OBVIOUS
  <1>5. /\ DownloadsOK(r.dm) /\ Owners(r.dm) \subseteq Owners(dm)
        /\ c # NoClient => /\ c \in Clients
                           /\ page = "end" => c \notin Owners(r.dm)
    BY <1>1, <1>4, ReadDownloadOK
  <1>6. /\ ClientsOK(t.cm)
        /\ t.status = "unknown" <=> c \notin cm.bysock
        /\ t.status = "unknown" => t.cm = cm
        /\ t.status # "unknown" => c \in Clients /\ OnlyFor(c, cm, t.cm)
        /\ t.cm.norequest = cm.norequest
        /\ t.status = "closed" => t.cm.bysock = cm.bysock \ {c}
        /\ t.status # "closed" => t.cm.bysock = cm.bysock
        /\ c \in t.cm.bysock => Listed(t.cm, c) /\ t.cm.reader[c] = cm.reader[c]
    BY <1>1, <1>4, SendDataOK
  <1>7. srv' \in ServerTable
    BY <1>1, <1>2, <1>4, <1>6, SourcesOf, ServersOK DEF downloadLostClient, closeClient
  <1>8. DownloadsOK(dm') /\ Owners(dm') \subseteq t.cm.bysock
    <2>1. CASE c # NoClient /\ t.status \in {"closed", "unknown"} /\ page # "end"
      <3>1. dm' = endClientDownload(r.dm, c)
        BY <1>2, <1>4, <2>1
      <3>2. DownloadsOK(dm') /\ Owners(dm') = Owners(r.dm) \ {c}
        BY <1>5, <2>1, <3>1, EndClientDownloadOK
      <3> QED
        BY <1>1, <1>5, <1>6, <3>2
    <2>2. CASE ~(c # NoClient /\ t.status \in {"closed", "unknown"} /\ page # "end")
      <3>1. \/ c \in Clients /\ t.status = "buffering" /\ dm' = corkClientDownload(r.dm, c)
            \/ dm' = r.dm
        BY <1>2, <1>4, <1>6, <2>2
      <3>2. DownloadsOK(dm') /\ Owners(dm') = Owners(r.dm)
        BY <1>5, <3>1, DownloadCorkOK, SameOwners
      <3>3. NoClient \notin Clients
        BY SocketsAssumption
      <3> QED
        BY <1>1, <1>5, <1>6, <2>2, <3>2, <3>3
    <2> QED
      BY <2>1, <2>2
  <1>9. CASE t.status = "unknown"
    <2>1. cm' = cm
      BY <1>2, <1>4, <1>6, <1>9
    <2> QED
      BY <1>3, <1>6, <1>7, <1>8, <1>9, <2>1 DEF IInv, Agree
  <1>10. CASE t.status # "unknown"
    <2>1. cm' = t.cm
      BY <1>2, <1>4
    <2>2. t.cm.bysock \subseteq cm.bysock
      BY <1>6
    <2> QED
      BY <1>3, <1>6, <1>7, <1>8, <1>10, <2>1, <2>2, WrittenOK DEF IInv
  <1> QED
    BY <1>9, <1>10

(* So does a client that was only corked or uncorked.                      *)
LEMMA CorkedOK ==
    ASSUME NEW t, NEW u, NEW s, NEW n, NEW r, Agree(t, u, s, n, r),
           NEW t2, NEW u2, NEW s2 \in ServerTable, ClientsOK(t2), SameClients(t, t2),
           DownloadsOK(u2), Owners(u2) \subseteq t.bysock
    PROVE  Agree(t2, u2, s2, n, r)
  <1>1. ASSUME NEW c \in Clients
        PROVE  ClientOK(t2, c, n[c], r[c])
    BY DEF Agree, ClientOK, SameClients
  <1> QED
    BY <1>1 DEF Agree, SameClients

LEMMA CompleteWebConnectionOK ==
    ASSUME IInv, NEW d \in Downloads, completeWebConnection(d)
    PROVE  IInv'
  <1>1. /\ ClientsOK(cm) /\ DownloadsOK(dm) /\ srv \in ServerTable
        /\ Owners(dm) \subseteq cm.bysock
    BY DEF IInv, Agree
  <1>2. PICK sent \in SendResults, sent2 \in SendResults :
         LET s   == startDownload(dm, d, sent)
             c   == s.client
             cm1 == IF s.change THEN uncorkUpload(cm, c) ELSE cm
             t   == sendData(cm1, c, "data", sent2)
         IN  IF c \in cm.bysock /\ s.response
             THEN /\ cm' = t.cm
                  /\ srv' = IF t.status = "closed" THEN downloadLostClient(c) ELSE srv
                  /\ dm' = CASE t.status = "closed" -> endClientDownload(s.dm, c)
                             [] t.change /\ t.status = "buffering" -> corkClientDownload(s.dm, c)
                             [] t.change /\ t.status = "clear" -> uncorkClientDownload(s.dm, c)
                             [] OTHER -> s.dm
             ELSE /\ sent2 = "all"
                  /\ cm' = cm1
                  /\ dm' = s.dm
                  /\ UNCHANGED srv
    BY DEF completeWebConnection
  <1>3. asked' = asked /\ resolving' = resolving
    BY DEF completeWebConnection
  <1>4. PICK s, c, cm1, t : /\ s = startDownload(dm, d, sent)
                            /\ c = s.client
                            /\ cm1 = IF s.change THEN uncorkUpload(cm, c) ELSE cm
                            /\ t = sendData(cm1, c, "data", sent2)
    OBVIOUS
  <1>5. DownloadsOK(s.dm) /\ Owners(s.dm) = Owners(dm)
    BY <1>1, <1>4, StartDownloadOK, SameOwners
  <1>6. ClientsOK(cm1) /\ SameClients(cm, cm1)
    BY <1>1, <1>4, CorkOK DEF SameClients
  <1>7. CASE ~(c \in cm.bysock /\ s.response)
    <2>1. cm' = cm1 /\ dm' = s.dm /\ srv' = srv
      BY <1>2, <1>4, <1>7
    <2> QED
      BY <1>1, <1>3, <1>5, <1>6, <2>1, CorkedOK DEF IInv
  <1>8. CASE c \in cm.bysock /\ s.response
    <2>1. /\ cm' = t.cm
          /\ srv' = IF t.status = "closed" THEN downloadLostClient(c) ELSE srv
          /\ dm' = CASE t.status = "closed" -> endClientDownload(s.dm, c)
                     [] t.change /\ t.status = "buffering" -> corkClientDownload(s.dm, c)
                     [] t.change /\ t.status = "clear" -> uncorkClientDownload(s.dm, c)
                     [] OTHER -> s.dm
      BY <1>2, <1>4, <1>8
    <2>2. c \in Clients /\ c \in cm1.bysock
      BY <1>1, <1>6, <1>8, TypesOf DEF ClientsOK, SameClients
    <2>3. /\ ClientsOK(t.cm)
          /\ t.status # "unknown" => OnlyFor(c, cm1, t.cm)
          /\ t.status = "unknown" <=> c \notin cm1.bysock
          /\ t.cm.norequest = cm1.norequest
          /\ t.status = "closed" => t.cm.bysock = cm1.bysock \ {c}
          /\ t.status # "closed" => t.cm.bysock = cm1.bysock
          /\ c \in t.cm.bysock => Listed(t.cm, c) /\ t.cm.reader[c] = cm1.reader[c]
      BY <1>4, <1>6, SendDataOK
    <2>4. OnlyFor(c, cm, t.cm)
      BY <1>6, <2>2, <2>3, SameClientsOnly, OnlyForTwice
    <2>5. srv' \in ServerTable
      BY <1>1, <2>1, <2>2, SourcesOf, ServersOK DEF downloadLostClient, closeClient
    <2>6. DownloadsOK(dm') /\ Owners(dm') \subseteq t.cm.bysock
      <3>0. Owners(s.dm) \subseteq cm1.bysock
        BY <1>1, <1>5, <1>6 DEF SameClients
      <3>1. CASE t.status = "closed"
        BY <1>5, <2>1, <2>2, <2>3, <3>0, <3>1, ClosingOK
      <3>2. CASE t.status # "closed"
        <4>1. dm' \in {uncorkClientDownload(s.dm, c), corkClientDownload(s.dm, c), s.dm}
          BY <2>1, <3>2
        <4>2. DownloadsOK(dm') /\ Owners(dm') = Owners(s.dm)
          BY <1>5, <2>2, <4>1, DownloadCorkOK, SameOwners
        <4> QED
          BY <2>3, <3>0, <3>2, <4>2
      <3> QED
        BY <3>1, <3>2
    <2>7. /\ t.cm.norequest = cm.norequest /\ t.cm.bysock \subseteq cm.bysock
          /\ c \in t.cm.bysock => Listed(t.cm, c) /\ t.cm.reader[c] = cm.reader[c]
      BY <1>6, <2>3 DEF SameClients
    <2> QED
      BY <1>3, <2>1, <2>2, <2>3, <2>4, <2>5, <2>6, <2>7, WrittenOK DEF IInv
  <1> QED
    BY <1>7, <1>8

LEMMA IncomingClientDataOK ==
    ASSUME IInv, NEW c \in Clients, incomingClientData(c)
    PROVE  IInv'
  <1>1. /\ asked \in [Clients -> Nat] /\ resolving \in [Clients -> Nat]
        /\ ClientsOK(cm) /\ DownloadsOK(dm) /\ srv \in ServerTable
        /\ Owners(dm) \subseteq cm.bysock
        /\ ClientOK(cm, c, asked[c], resolving[c])
    BY DEF IInv, Agree
  <1>2. PICK rd \in PlainReads(cm, c), sent \in SendResults :
         LET r     == readData(cm, c, rd)
             known == c \in cm.bysock
             s     == sendClientData(dm, c, sent)
         IN  CASE ~known -> UNCHANGED <<cm, dm, srv, asked>>
               [] known /\ rd.got = "closed" ->
                    /\ cm' = r
                    /\ dm' = endClientDownload(dm, c)
                    /\ srv' = closeClient(c)
                    /\ UNCHANGED asked
               [] known /\ rd.got = "request" ->
                    /\ cm' = r
                    /\ asked' = [asked EXCEPT ![c] = @ + 1]
                    /\ UNCHANGED <<dm, srv>>
               [] known /\ rd.got = "data" ->
                    /\ dm' = s.dm
                    /\ cm' = backpressure(r, c, s)
                    /\ UNCHANGED <<srv, asked>>
               [] known /\ rd.got = "nothing" ->
                    /\ cm' = r
                    /\ UNCHANGED <<dm, srv, asked>>
    BY DEF incomingClientData
  <1>3. resolving' = resolving
    BY DEF incomingClientData
  <1>4. PICK r, s : r = readData(cm, c, rd) /\ s = sendClientData(dm, c, sent)
    OBVIOUS
  <1>5. CASE c \notin cm.bysock
    <2>1. cm' = cm /\ dm' = dm /\ srv' = srv /\ asked' = asked
      BY <1>2, <1>5
    <2> QED
      BY <1>3, <2>1 DEF IInv
  <1>6. CASE c \in cm.bysock
    <2> DEFINE wanted == IF SourceOf[c] = "icap" THEN "refuse" ELSE "request"
               mode   == NextMode(c, cm.reader[c], wanted)
    <2>1. cm.reader[c] \in ReaderModes /\ wanted \in ReaderModes /\ wanted # "body"
      BY <1>1, TypesOf DEF ClientsOK, ReaderModes
    <2> HIDE DEF wanted
    <2>2. /\ mode \in ReaderModes
          /\ SourceOf[c] \in OneShot => mode \notin {"request", "body"}
      BY <1>1, <1>6, <2>1, NextModeOK DEF ClientOK, OneShot
    <2>3. rd \in ReadResults(c, mode)
      BY DEF PlainReads, wanted
    <2> HIDE DEF mode
    <2>4. /\ rd \in Reads
          /\ SourceOf[c] \in OneShot =>
               rd.got # "request" /\ rd.mode \notin {"request", "body"}
      BY <2>2, <2>3, ReadResultsOK
    <2>5. /\ ClientsOK(r) /\ OnlyFor(c, cm, r) /\ r.norequest = cm.norequest
          /\ rd.got = "closed" => r.bysock = cm.bysock \ {c}
          /\ rd.got # "closed" => r.bysock = cm.bysock
          /\ c \in r.w_buffer => r.w_buffer = cm.w_buffer /\ r.buffered = cm.buffered
          /\ c \in r.bysock => r.reader[c] = rd.mode
      BY <1>1, <1>4, <2>4, ReadDataOK
    <2>6. ASSUME NEW n \in Nat, SourceOf[c] \in OneShot => n = asked[c]
          PROVE  ClientOK(r, c, n, resolving[c])
      <3>1. c \in r.bysock => c \in cm.bysock
        BY <2>5
      <3> QED
        BY <1>1, <2>4, <2>5, <2>6, <3>1 DEF ClientOK
    <2>7. CASE rd.got = "closed"
      <3>1. cm' = r /\ dm' = endClientDownload(dm, c) /\ srv' = closeClient(c) /\ asked' = asked
        BY <1>2, <1>4, <1>6, <2>7
      <3>2. srv' \in ServerTable
        BY <1>1, <3>1, SourcesOf, ServersOK DEF closeClient
      <3>3. DownloadsOK(dm') /\ Owners(dm') \subseteq r.bysock
        BY <1>1, <2>5, <2>7, <3>1, ClosingOK
      <3>4. ClientOK(r, c, asked[c], resolving[c])
        BY <1>1, <2>6
      <3> QED
        BY <1>1, <1>3, <2>5, <3>1, <3>2, <3>3, <3>4, OneClient DEF IInv
    <2>8. CASE rd.got = "request"
      <3>1. /\ cm' = r /\ asked' = [asked EXCEPT ![c] = @ + 1] /\ dm' = dm /\ srv' = srv
        BY <1>2, <1>4, <1>6, <2>8
      <3>2. /\ asked' \in [Clients -> Nat]
            /\ \A k \in Clients \ {c} : asked'[k] = asked[k]
        BY <1>1, <3>1
      <3>3. ClientOK(r, c, asked'[c], resolving[c])
        BY <2>4, <2>6, <2>8, <3>2
      <3>4. Owners(dm) \subseteq r.bysock
        BY <1>1, <2>5, <2>8
      <3>5. Agree(r, dm, srv, asked', resolving)
        BY <1>1, <2>5, <3>2, <3>3, <3>4, OneClient DEF IInv
      <3> QED
        BY <1>3, <3>1, <3>5 DEF IInv
    <2>9. CASE rd.got \in {"data", "nothing"}
      <3>1. /\ Owners(dm) \subseteq r.bysock
            /\ ClientOK(r, c, asked[c], resolving[c])
        BY <1>1, <2>5, <2>6, <2>9
      <3>2. Agree(r, dm, srv, asked, resolving)
        BY <1>1, <2>5, <3>1, OneClient DEF IInv
      <3>3. CASE rd.got = "nothing"
        <4>1. cm' = r /\ dm' = dm /\ srv' = srv /\ asked' = asked
          BY <1>2, <1>4, <1>6, <3>3
        <4> QED
          BY <1>3, <3>2, <4>1 DEF IInv
      <3>4. CASE rd.got = "data"
        <4>1. cm' = backpressure(r, c, s) /\ dm' = s.dm /\ srv' = srv /\ asked' = asked
          BY <1>2, <1>4, <1>6, <3>4
        <4>2. DownloadsOK(dm') /\ Owners(dm') = Owners(dm)
          BY <1>1, <1>4, <4>1, SendClientDataOK, SameOwners
        <4>3. ClientsOK(cm') /\ SameClients(r, cm')
          BY <2>5, <4>1, BackpressureOK
        <4> QED
          BY <1>1, <1>3, <3>1, <3>2, <4>1, <4>2, <4>3, CorkedOK DEF IInv
      <3> QED
        BY <2>9, <3>3, <3>4
    <2> QED
      BY <2>4, <2>7, <2>8, <2>9 DEF Reads
  <1> QED
    BY <1>5, <1>6
-----------------------------------------------------------------------------
(* Decisions.  An ICAP client is only answered with a response or closed,  *)
(* and a client that is asked about once is never promised a body.         *)
Allowed(c, command) ==
    /\ SourceOf[c] = "icap" => command \in {"icap", "close"}
    /\ SourceOf[c] \in OneShot => command \notin {"download", "icap"}

\* What startData() leaves in the tables, u before it and r.cm after.
DataStarted(c, content, u, r, rd) ==
    /\ ClientsOK(r.cm) /\ OnlyFor(c, u, r.cm) /\ r.cm.norequest = u.norequest
    /\ r.got \in {"unknown", "closed", "nothing", "data"}
    /\ r.got = "unknown" <=> c \notin u.bysock
    /\ r.got = "closed" => r.cm.bysock = u.bysock \ {c}
    /\ r.got # "closed" => r.cm.bysock = u.bysock
    /\ c \in r.cm.bysock => /\ r.cm.reader[c] = rd.mode
                            /\ Simple(c, content) => Listed(r.cm, c)

\* What is done once startData() has answered r.
EnactStep(c, g, r) ==
    IF r.got = "data"
    THEN \E sent2 \in SendResults :
           LET s == sendClientData(g.dm, c, sent2)
           IN  dm' = s.dm /\ cm' = backpressure(r.cm, c, s) /\ srv' = srv
    ELSE /\ cm' = r.cm
         /\ dm' = IF r.got \in {"closed", "unknown"} THEN endClientDownload(g.dm, c) ELSE g.dm
         /\ srv' = IF r.got = "closed" THEN closeClient(c) ELSE srv

(* The client is corked or uncorked, then given its answer.                *)
LEMMA EnactParts ==
    ASSUME IInv, NEW c \in Clients, asked[c] + resolving[c] > 0,
           NEW command, Allowed(c, command), NEW content \in Contents,
           content = "stream" => command \in Methods,
           content = "response" => command = "icap",
           SourceOf[c] = "icap" => content \in {"response", "end"},
           NEW g, enact(c, command, content, g)
    PROVE  \E u, r, sent : \E rd \in Reads :
             /\ ClientsOK(u) /\ SameClients(cm, u) /\ u = backpressure(cm, c, g)
             /\ r = startData(u, c, content, sent, rd)
             /\ SourceOf[c] \in OneShot /\ c \in cm.bysock => rd.mode \notin {"request", "body"}
             /\ DataStarted(c, content, u, r, rd)
             /\ EnactStep(c, g, r)
  <1>1. ClientsOK(cm) /\ ClientOK(cm, c, asked[c], resolving[c])
        /\ asked[c] \in Nat /\ resolving[c] \in Nat
    BY DEF IInv, Agree
  <1>0. PICK sent \in SendResults, wanted \in BodyModes(command, content) :
          \E rd \in RelatedReads(cm, c, wanted) :
            EnactStep(c, g, startData(backpressure(cm, c, g), c, content, sent, rd))
    BY DEF enact, EnactStep
  <1>2. PICK rd \in RelatedReads(cm, c, wanted) :
          EnactStep(c, g, startData(backpressure(cm, c, g), c, content, sent, rd))
    BY <1>0
  <1>3. PICK u, r : /\ u = backpressure(cm, c, g)
                    /\ r = startData(u, c, content, sent, rd)
    OBVIOUS
  <1>4. ClientsOK(u) /\ SameClients(cm, u)
    BY <1>1, <1>3, BackpressureOK
  <1>5. /\ cm.reader[c] \in ReaderModes /\ wanted \in ReaderModes
        /\ SourceOf[c] \in OneShot => wanted # "body"
    BY <1>1, TypesOf DEF ClientsOK, ReaderModes, BodyModes, Allowed
  <1>6. /\ rd \in Reads
        /\ SourceOf[c] \in OneShot /\ c \in cm.bysock => rd.mode \notin {"request", "body"}
    <2> DEFINE mode == NextMode(c, cm.reader[c], wanted)
    <2>1. /\ mode \in ReaderModes
          /\ SourceOf[c] \in OneShot /\ c \in cm.bysock => mode \notin {"request", "body"}
      BY <1>1, <1>5, NextModeOK DEF ClientOK, OneShot
    <2>2. rd \in ReadResults(c, mode)
      BY DEF RelatedReads
    <2> HIDE DEF mode
    <2> QED
      BY <2>1, <2>2, ReadResultsOK
  <1>7. c \in u.bysock => Listed(u, c)
    BY <1>1, <1>4 DEF ClientOK, Listed, SameClients
  <1>8. /\ ClientsOK(r.cm) /\ OnlyFor(c, u, r.cm) /\ r.cm.norequest = u.norequest
        /\ r.got \in {"unknown", "closed", "nothing", "data"}
        /\ r.got = "unknown" <=> c \notin u.bysock
        /\ r.got = "closed" => r.cm.bysock = u.bysock \ {c}
        /\ r.got # "closed" => r.cm.bysock = u.bysock
        /\ c \in r.cm.bysock => /\ r.cm.reader[c] = rd.mode
                                /\ Simple(c, content) => Listed(r.cm, c)
    BY <1>3, <1>4, <1>6, <1>7, StartDataOK
  <1>9. EnactStep(c, g, r)
    BY <1>2, <1>3
  <1> QED
    BY <1>3, <1>4, <1>6, <1>8, <1>9 DEF DataStarted

LEMMA EnactOK ==
    ASSUME IInv, NEW c \in Clients, asked[c] + resolving[c] > 0,
           NEW command, Allowed(c, command), NEW content \in Contents,
           content = "stream" => command \in Methods,
           content = "response" => command = "icap",
           SourceOf[c] = "icap" => content \in {"response", "end"},
           NEW g, DownloadsOK(g.dm), Owners(g.dm) \subseteq Owners(dm) \cup {c},
           enact(c, command, content, g),
           asked' \in [Clients -> Nat], resolving' \in [Clients -> Nat],
           \A k \in Clients \ {c} : asked'[k] = asked[k] /\ resolving'[k] = resolving[k],
           asked'[c] + resolving'[c] = asked[c] + resolving[c] - 1,
           resolving'[c] <= resolving[c]
    PROVE  IInv'
  <1>1. /\ asked \in [Clients -> Nat] /\ resolving \in [Clients -> Nat]
        /\ ClientsOK(cm) /\ DownloadsOK(dm) /\ srv \in ServerTable
        /\ Owners(dm) \subseteq cm.bysock
        /\ ClientOK(cm, c, asked[c], resolving[c])
    BY DEF IInv, Agree
  <1>2. PICK u, r, sent : \E rd \in Reads :
          /\ ClientsOK(u) /\ SameClients(cm, u)
          /\ SourceOf[c] \in OneShot /\ c \in cm.bysock => rd.mode \notin {"request", "body"}
          /\ DataStarted(c, content, u, r, rd)
          /\ EnactStep(c, g, r)
    BY EnactParts
  <1>3. PICK rd \in Reads :
          /\ ClientsOK(u) /\ SameClients(cm, u)
          /\ SourceOf[c] \in OneShot /\ c \in cm.bysock => rd.mode \notin {"request", "body"}
          /\ DataStarted(c, content, u, r, rd)
          /\ EnactStep(c, g, r)
    BY <1>2
  <1>4. ClientsOK(u) /\ SameClients(cm, u)
    BY <1>3
  <1>6. SourceOf[c] \in OneShot /\ c \in cm.bysock => rd.mode \notin {"request", "body"}
    BY <1>3
  <1>8. /\ ClientsOK(r.cm) /\ OnlyFor(c, u, r.cm) /\ r.cm.norequest = u.norequest
        /\ r.got \in {"unknown", "closed", "nothing", "data"}
        /\ r.got = "unknown" <=> c \notin u.bysock
        /\ r.got = "closed" => r.cm.bysock = u.bysock \ {c}
        /\ r.got # "closed" => r.cm.bysock = u.bysock
        /\ c \in r.cm.bysock => /\ r.cm.reader[c] = rd.mode
                                /\ Simple(c, content) => Listed(r.cm, c)
    BY <1>3 DEF DataStarted
  <1>9. OnlyFor(c, cm, r.cm) /\ r.cm.norequest = cm.norequest
    BY <1>4, <1>8, SameClientsOnly, OnlyForTwice DEF SameClients
  <1>10. /\ r.got = "unknown" <=> c \notin cm.bysock
         /\ r.got = "closed" => r.cm.bysock = cm.bysock \ {c}
         /\ r.got # "closed" => r.cm.bysock = cm.bysock
    BY <1>4, <1>8 DEF SameClients
  <1>11. ClientOK(r.cm, c, asked'[c], resolving'[c])
    <2>1. SourceOf[c] \in OneShot => asked'[c] + resolving'[c] = 0
      BY <1>1 DEF ClientOK
    <2>2. SourceOf[c] \notin OneShot => Simple(c, content)
      BY SourcesOf DEF Sources, OneShot, Simple
    <2>3. SourceOf[c] \in {"web", "icap"} => resolving'[c] = 0
      BY <1>1 DEF ClientOK
    <2>4. SourceOf[c] \in OneShot => c \notin cm.norequest
      BY <1>1 DEF ClientOK
    <2>5. /\ SourceOf[c] \notin OneShot /\ c \in r.cm.bysock => Listed(r.cm, c)
          /\ SourceOf[c] \in OneShot /\ c \in r.cm.bysock =>
               r.cm.reader[c] \notin {"request", "body"}
      <3>1. c \in r.cm.bysock => c \in cm.bysock /\ r.cm.reader[c] = rd.mode
        BY <1>8, <1>10
      <3>2. c \in r.cm.bysock /\ Simple(c, content) => Listed(r.cm, c)
        BY <1>8
      <3> QED
        BY <1>6, <2>2, <3>1, <3>2
    <2> QED
      BY <1>9, <2>1, <2>3, <2>4, <2>5 DEF ClientOK, Listed
  <1>12. CASE r.got = "data"
    <2>0. PICK sent2 \in SendResults :
            LET s == sendClientData(g.dm, c, sent2)
            IN  dm' = s.dm /\ cm' = backpressure(r.cm, c, s) /\ srv' = srv
      BY <1>3, <1>12 DEF EnactStep
    <2>1. PICK s : /\ s = sendClientData(g.dm, c, sent2)
                   /\ dm' = s.dm /\ cm' = backpressure(r.cm, c, s) /\ srv' = srv
      BY <2>0
    <2>2. DownloadsOK(dm') /\ Owners(dm') = Owners(g.dm)
      BY <2>1, SendClientDataOK, SameOwners
    <2>3. Owners(dm') \subseteq r.cm.bysock
      BY <1>1, <1>10, <1>12, <2>2
    <2>4. Agree(r.cm, dm', srv, asked', resolving')
      BY <1>1, <1>8, <1>9, <1>11, <2>2, <2>3, OneClient DEF IInv
    <2>5. ClientsOK(cm') /\ SameClients(r.cm, cm')
      BY <1>8, <2>1, BackpressureOK
    <2> QED
      BY <1>1, <2>1, <2>2, <2>3, <2>4, <2>5, CorkedOK DEF IInv
  <1>13. CASE r.got # "data"
    <2>1. /\ cm' = r.cm
          /\ dm' = IF r.got \in {"closed", "unknown"} THEN endClientDownload(g.dm, c) ELSE g.dm
          /\ srv' = IF r.got = "closed" THEN closeClient(c) ELSE srv
      BY <1>3, <1>13 DEF EnactStep
    <2>2. srv' \in ServerTable
      BY <1>1, <2>1, SourcesOf, ServersOK DEF closeClient
    <2>3. CASE r.got \in {"closed", "unknown"}
      <3>1. DownloadsOK(dm') /\ Owners(dm') = Owners(g.dm) \ {c}
        BY <2>1, <2>3, EndClientDownloadOK
      <3>2. Owners(dm') \subseteq r.cm.bysock
        BY <1>1, <1>10, <2>3, <3>1
      <3> QED
        BY <1>8, <1>9, <1>11, <2>1, <2>2, <3>1, <3>2, OneClient DEF IInv
    <2>4. CASE r.got = "nothing"
      <3>1. DownloadsOK(dm') /\ Owners(dm') \subseteq r.cm.bysock
        BY <1>1, <1>10, <2>1, <2>4
      <3> QED
        BY <1>8, <1>9, <1>11, <2>1, <2>2, <3>1, OneClient DEF IInv
    <2> QED
      BY <1>8, <1>13, <2>3, <2>4
  <1> QED
    BY <1>12, <1>13

\* What a step that answers the decision of client c does to the questions.
Answered(c) ==
    /\ asked' \in [Clients -> Nat] /\ resolving' \in [Clients -> Nat]
    /\ \A k \in Clients \ {c} : asked'[k] = asked[k] /\ resolving'[k] = resolving[k]
    /\ asked'[c] + resolving'[c] = asked[c] + resolving[c] - 1
    /\ resolving'[c] <= resolving[c]

LEMMA AnswersAllowed ==
    ASSUME NEW c \in Clients, NEW command \in Answers(c)
    PROVE  /\ Allowed(c, command)
           /\ command \in {"download", "connect", "intercept", "page", "file", "close", "icap"}
           /\ SourceOf[c] = "icap" => command \notin Methods
  BY SourcesOf DEF Answers, CommandsFor, LookupErrors, Allowed, Methods, OneShot, Sources

LEMMA EnactLocalOK ==
    ASSUME IInv, NEW c \in Clients, asked[c] + resolving[c] > 0, Answered(c),
           NEW command \in Answers(c), enactLocal(c, command)
    PROVE  IInv'
  <1> DEFINE g == Unchanged(getLocal(dm, c))
  <1>1. PICK content \in LocalContents(command) : enact(c, command, content, g)
    BY DEF enactLocal
  <1>2. DownloadsOK(dm)
    BY DEF IInv, Agree
  <1>3. DownloadsOK(g.dm) /\ Owners(g.dm) \subseteq Owners(dm) \cup {c}
    BY <1>2, EndClientDownloadOK DEF getLocal, Unchanged
  <1>4. /\ content \in Contents /\ content # "stream"
        /\ content = "response" => command = "icap"
        /\ SourceOf[c] = "icap" => content \in {"response", "end"}
    BY AnswersAllowed DEF LocalContents, Contents, Allowed
  <1> HIDE DEF g
  <1> QED
    BY <1>1, <1>3, <1>4, AnswersAllowed, EnactOK DEF Answered

LEMMA EnactRemoteOK ==
    ASSUME IInv, NEW c \in Clients, asked[c] + resolving[c] > 0, Answered(c),
           NEW method \in Answers(c), method \in Methods, enactRemote(c, method)
    PROVE  IInv'
  <1>1. PICK host \in Hosts, d \in FreeDownloads \cup {NoDownload}, sent \in SendResults :
          /\ (d = NoDownload) = (inUse(dm, c, host) # NoDownload)
          /\ enact(c, method, "stream", getRemote(dm, c, method, host, d, sent))
    BY DEF enactRemote
  <1>2. DownloadsOK(dm)
    BY DEF IInv, Agree
  <1>3. inUse(dm, c, host) = NoDownload => d \in Downloads \ Known(dm)
    BY <1>1 DEF FreeDownloads
  <1>4. PICK g : g = getRemote(dm, c, method, host, d, sent)
    OBVIOUS
  <1>5. DownloadsOK(g.dm) /\ Owners(g.dm) \subseteq Owners(dm) \cup {c}
    BY <1>2, <1>3, <1>4, GetRemoteOK
  <1>6. "stream" \in Contents /\ SourceOf[c] # "icap" /\ Allowed(c, method)
    BY AnswersAllowed DEF Contents
  <1>7. enact(c, method, "stream", g)
    BY <1>1, <1>4
  <1> QED
    BY <1>5, <1>6, <1>7, EnactOK DEF Answered

LEMMA EnactDecisionOK ==
    ASSUME IInv, NEW c \in Clients, asked[c] + resolving[c] > 0, Answered(c),
           NEW command \in Answers(c), enactDecision(c, command)
    PROVE  IInv'
  <1>1. CASE command \in Methods /\ enactRemote(c, command)
    BY <1>1, EnactRemoteOK
  <1>2. CASE enactLocal(c, command)
    BY <1>2, EnactLocalOK
  <1> QED
    BY <1>1, <1>2 DEF enactDecision, enactRefused

(* A question is answered: one less, of those asked or of those looked up. *)
LEMMA AnsweredOK ==
    ASSUME IInv, NEW c \in Clients
    PROVE  /\ asked[c] > 0 /\ asked' = [asked EXCEPT ![c] = @ - 1] /\ resolving' = resolving
                => Answered(c) /\ asked[c] + resolving[c] > 0
           /\ resolving[c] > 0 /\ resolving' = [resolving EXCEPT ![c] = @ - 1] /\ asked' = asked
                => Answered(c) /\ asked[c] + resolving[c] > 0
  <1>1. /\ asked \in [Clients -> Nat] /\ resolving \in [Clients -> Nat]
        /\ asked[c] \in Nat /\ resolving[c] \in Nat
    BY DEF IInv, Agree
  <1>2. ASSUME asked[c] > 0, asked' = [asked EXCEPT ![c] = @ - 1], resolving' = resolving
        PROVE  Answered(c) /\ asked[c] + resolving[c] > 0
    <2>1. /\ asked' \in [Clients -> Nat] /\ asked'[c] = asked[c] - 1
          /\ \A k \in Clients \ {c} : asked'[k] = asked[k]
      BY <1>1, <1>2
    <2> QED
      BY <1>1, <1>2, <2>1 DEF Answered
  <1>3. ASSUME resolving[c] > 0, resolving' = [resolving EXCEPT ![c] = @ - 1], asked' = asked
        PROVE  Answered(c) /\ asked[c] + resolving[c] > 0
    <2>1. /\ resolving' \in [Clients -> Nat] /\ resolving'[c] = resolving[c] - 1
          /\ \A k \in Clients \ {c} : resolving'[k] = resolving[k]
      BY <1>1, <1>3
    <2> QED
      BY <1>1, <1>3, <2>1 DEF Answered
  <1> QED
    BY <1>2, <1>3

LEMMA ReadRedirectorOK ==
    ASSUME IInv, readRedirector
    PROVE  IInv'
  <1>1. PICK c \in Clients :
          /\ asked[c] > 0 /\ asked' = [asked EXCEPT ![c] = @ - 1]
          /\ \/ UNCHANGED <<cm, dm, srv, resolving>>
             \/ /\ \E command \in Answers(c) : enactDecision(c, command)
                /\ UNCHANGED resolving
             \/ /\ Remote(c) # {}
                /\ resolving' = [resolving EXCEPT ![c] = @ + 1]
                /\ UNCHANGED <<cm, dm, srv>>
    BY DEF readRedirector
  <1>2. /\ asked \in [Clients -> Nat] /\ resolving \in [Clients -> Nat]
        /\ ClientsOK(cm) /\ DownloadsOK(dm) /\ srv \in ServerTable
        /\ Owners(dm) \subseteq cm.bysock
        /\ ClientOK(cm, c, asked[c], resolving[c])
    BY DEF IInv, Agree
  <1>3. /\ asked' \in [Clients -> Nat] /\ asked'[c] = asked[c] - 1
        /\ \A k \in Clients \ {c} : asked'[k] = asked[k]
    BY <1>1, <1>2
  <1>4. SameClients(cm, cm) /\ OnlyFor(c, cm, cm)
    BY SameClientsOnly DEF SameClients
  <1>5. CASE UNCHANGED <<cm, dm, srv, resolving>>
    <2>1. ClientOK(cm, c, asked'[c], resolving[c])
      BY <1>1, <1>2, <1>3 DEF ClientOK
    <2>2. Agree(cm, dm, srv, asked', resolving)
      BY <1>2, <1>3, <1>4, <2>1, OneClient DEF IInv
    <2> QED
      BY <1>5, <2>2 DEF IInv
  <1>6. CASE /\ \E command \in Answers(c) : enactDecision(c, command)
             /\ UNCHANGED resolving
    <2>1. Answered(c) /\ asked[c] + resolving[c] > 0
      BY <1>1, <1>6, AnsweredOK
    <2> QED
      BY <1>6, <2>1, EnactDecisionOK
  <1>7. CASE /\ Remote(c) # {}
             /\ resolving' = [resolving EXCEPT ![c] = @ + 1]
             /\ UNCHANGED <<cm, dm, srv>>
    <2>1. /\ resolving' \in [Clients -> Nat] /\ resolving'[c] = resolving[c] + 1
          /\ \A k \in Clients \ {c} : resolving'[k] = resolving[k]
      BY <1>2, <1>7
    <2>2. SourceOf[c] \notin {"web", "icap"}
      BY <1>7 DEF Remote, CommandsFor, Methods
    <2>3. ClientOK(cm, c, asked'[c], resolving'[c])
      BY <1>1, <1>2, <1>3, <2>1, <2>2 DEF ClientOK
    <2>4. Agree(cm, dm, srv, asked', resolving')
      BY <1>2, <1>3, <1>4, <2>1, <2>3, OneClient DEF IInv
    <2> QED
      BY <1>7, <2>4 DEF IInv
  <1> QED
    BY <1>1, <1>5, <1>6, <1>7

LEMMA ReadResolverOK ==
    ASSUME IInv, readResolver
    PROVE  IInv'
  <1>1. CASE UNCHANGED <<cm, dm, srv, asked, resolving>>
    BY <1>1 DEF IInv
  <1>2. ASSUME NEW c \in Clients, resolved(c)
        PROVE  IInv'
    <2>1. SourceOf[c] \notin {"web", "icap"}
      BY <1>2 DEF resolved, IInv, Agree, ClientOK
    <2>2. Answered(c) /\ asked[c] + resolving[c] > 0
      BY <1>2, AnsweredOK DEF resolved
    <2>3. PICK answer \in Answers(c) : enactDecision(c, answer)
      BY <1>2, <2>1 DEF resolved, Remote, Answers
    <2> QED
      BY <2>2, <2>3, EnactDecisionOK
  <1> QED
    BY <1>1, <1>2 DEF readResolver

LEMMA TimeoutResolverOK ==
    ASSUME IInv, timeoutResolver
    PROVE  IInv'
  <1>1. PICK c \in Clients :
          /\ resolving[c] > 0 /\ "page" \in LookupErrors
          /\ resolving' = [resolving EXCEPT ![c] = @ - 1]
          /\ enactDecision(c, "page")
    BY DEF timeoutResolver
  <1>2. Answered(c) /\ asked[c] + resolving[c] > 0
    BY <1>1, AnsweredOK DEF timeoutResolver
  <1>3. SourceOf[c] \notin {"web", "icap"}
    BY <1>1 DEF IInv, Agree, ClientOK
  <1>4. "page" \in Answers(c)
    BY <1>1, <1>3 DEF Answers
  <1> QED
    BY <1>1, <1>2, <1>4, EnactDecisionOK
-----------------------------------------------------------------------------
(* Every handler preserves the invariant.                                  *)
LEMMA NextAgrees == IInv /\ [Next]_vars => IInv'
  <1> SUFFICES ASSUME IInv, [Next]_vars PROVE IInv'
    OBVIOUS
  <1>1. CASE UNCHANGED vars
    BY <1>1 DEF vars, IInv
  <1>2. CASE Poll
    BY <1>2 DEF Poll, IInv
  <1>3. ASSUME NEW l \in Listeners, acceptConnections(l) PROVE IInv'
    BY <1>3, AcceptOK
  <1>4. ASSUME NEW c \in Clients, incomingRequest(c) PROVE IInv'
    BY <1>4, IncomingRequestOK
  <1>5. ASSUME NEW c \in Clients, incomingClientData(c) PROVE IInv'
    BY <1>5, IncomingClientDataOK
  <1>6. ASSUME NEW c \in Clients, flushClientOutput(c) PROVE IInv'
    BY <1>6, FlushClientOutputOK
  <1>7. ASSUME NEW c \in Clients, expire(c) PROVE IInv'
    BY <1>7, ExpireOK
  <1>8. ASSUME NEW d \in Downloads, completeWebConnection(d) PROVE IInv'
    BY <1>8, CompleteWebConnectionOK
  <1>9. ASSUME NEW d \in Downloads, incomingWebData(d) PROVE IInv'
    BY <1>9, IncomingWebDataOK
  <1>10. ASSUME NEW d \in Downloads, flushWebOutput(d) PROVE IInv'
    BY <1>10, FlushWebOutputOK
  <1>11. CASE readRedirector
    BY <1>11, ReadRedirectorOK
  <1>12. CASE readResolver
    BY <1>12, ReadResolverOK
  <1>13. CASE timeoutResolver
    BY <1>13, TimeoutResolverOK
  <1>14. CASE unboundRequest
    BY <1>14 DEF unboundRequest, IInv
  <1>15. CASE gone
    BY <1>15 DEF gone, vars, IInv
  <1> QED
    BY <1>1, <1>2, <1>3, <1>4, <1>5, <1>6, <1>7, <1>8, <1>9, <1>10, <1>11, <1>12, <1>13,
       <1>14, <1>15 DEF Next

(* The loop hands the handlers sockets of the right kind.                  *)
LEMMA ReadyOK == IInv => Ready \subseteq Events
  <1> SUFFICES ASSUME IInv PROVE Ready \subseteq Events
    OBVIOUS
  <1>1. /\ cm.opening_client \subseteq Clients /\ cm.write_client \subseteq Clients
        /\ Watched(cm.read_client) \subseteq Clients
    BY TypesOf DEF IInv, Agree, ClientsOK, Watched
  <1>2. /\ dm.opening_download \subseteq Downloads /\ dm.write_download \subseteq Downloads
        /\ Watched(dm.read_download) \subseteq Downloads
    BY DownloadTypes DEF IInv, Agree, DownloadsOK, Watched, EventSet
  <1>3. srv.watched \subseteq Listeners
    BY DEF IInv, Agree, ServerTable
  <1> QED
    BY <1>1, <1>2, <1>3 DEF Ready, Events, Event

LEMMA NextLoopOK == IInv /\ LoopOK /\ [Next]_vars => LoopOK'
  <1> SUFFICES ASSUME IInv, LoopOK, [Next]_vars PROVE LoopOK'
    OBVIOUS
  <1>1. CASE UNCHANGED <<batch, running>>
    BY <1>1 DEF LoopOK
  <1>2. CASE Poll
    BY <1>2, ReadyOK DEF Poll, LoopOK
  <1>3. ASSUME NEW e, Handle(e) PROVE LoopOK'
    BY <1>3 DEF Handle, LoopOK
  <1>4. CASE unboundRequest
    BY <1>4 DEF unboundRequest, LoopOK
  <1>5. CASE timeoutResolver
    BY <1>1, <1>5 DEF timeoutResolver
  <1>6. ASSUME NEW c \in Clients, expire(c) PROVE LoopOK'
    BY <1>1, <1>6 DEF expire
  <1>7. CASE UNCHANGED vars
    BY <1>1, <1>7 DEF vars
  <1>8. ASSUME NEW l \in Listeners, acceptConnections(l) PROVE LoopOK'
    BY <1>3, <1>8 DEF acceptConnections
  <1>9. ASSUME NEW c \in Clients,
               incomingRequest(c) \/ incomingClientData(c) \/ flushClientOutput(c)
        PROVE  LoopOK'
    BY <1>3, <1>9 DEF incomingRequest, incomingClientData, flushClientOutput
  <1>10. ASSUME NEW d \in Downloads,
               completeWebConnection(d) \/ incomingWebData(d) \/ flushWebOutput(d)
        PROVE  LoopOK'
    BY <1>3, <1>10 DEF completeWebConnection, incomingWebData, flushWebOutput
  <1>11. CASE readRedirector \/ readResolver
    BY <1>3, <1>11 DEF readRedirector, readResolver
  <1> QED
    BY <1>2, <1>4, <1>5, <1>6, <1>7, <1>8, <1>9, <1>10, <1>11 DEF Next, gone

(* The tables agree in every state of every behaviour.                     *)
LEMMA AlwaysAgrees == Spec => [](IInv /\ LoopOK)
  <1>1. Init => LoopOK
    BY DEF Init, LoopOK
  <1> QED
    BY <1>1, InitAgrees, NextAgrees, NextLoopOK, PTL DEF Spec

(* The tables keep their types: in particular the count of a client in the *)
(* list `buffered' is never taken below zero by cleanup(), sendData() or   *)
(* startData().                                                            *)
THEOREM TypeCorrect == Spec => []TypeOK
  BY AlwaysAgrees, IInvParts, PTL

(* What the client manager believes of a client and what the poller        *)
(* watches agree after every handler.                                      *)
THEOREM ClientTablesAgree == Spec => []ClientTables
  BY AlwaysAgrees, IInvParts, PTL

(* The downloads, their clients and the poller agree after every handler.  *)
THEOREM DownloadTablesAgree == Spec => []DownloadTables
  BY AlwaysAgrees, IInvParts, PTL

(* No handler closes a client and leaves its connection to a server open.  *)
THEOREM NoDownloadIsOrphaned == Spec => []NoOrphanDownload
  BY AlwaysAgrees, IInvParts, PTL

(* buffered.remove() in startData() always finds the client.               *)
THEOREM OutputAlwaysListed == Spec => []OutputIsListed
  BY AlwaysAgrees, IInvParts, PTL

(* A tls or passthrough client is never asked about twice.                 *)
THEOREM NeverAskedTwice == Spec => []AskedOnce
  BY AlwaysAgrees, IInvParts, PTL
-----------------------------------------------------------------------------
(* Slots and writers.  What a handler does to the clients of the servers:  *)
(* none, or one of them that is closed and counted once.                   *)

Moved ==
    \/ Live(cm') = Live(cm) /\ srv' = srv
    \/ \E c \in Clients :
         /\ c \in Live(cm) /\ Live(cm') = Live(cm) \ {c}
         /\ srv' = notifyClose(srv, SourceOf[c], 1)

\* The clients that have a download are those of the servers that are told when a
\* client is closed while downloading.
Notified(u) == \A c \in Owners(u) : SourceOf[c] \in NotifiedByDownloads

\* StartedWriter of two tables.
Started(t, u) ==
    \A c \in Clients : c \in t.write_client \/ c \in Owners(u) => t.writer[c] # "new"

\* A client that poll() found writable has a writer, if it is still there, and no
\* other client has got its socket.
BatchStarted ==
    \A c \in Clients :
      Event("write_client", c) \in batch =>
        c \notin cm.norequest /\ (c \in cm.bysock => cm.writer[c] # "new")

\* No client is back to its first request, nor without the writer it had.
KeepsWriters ==
    /\ cm'.norequest \subseteq cm.norequest
    /\ \A c \in Clients : c \in cm'.bysock /\ cm.writer[c] # "new" => cm'.writer[c] # "new"

HandledOK == Moved /\ KeepsWriters /\ Notified(dm') /\ Started(cm', dm')

LEMMA ClosedOne ==
    ASSUME NEW t, ClientsOK(t), NEW c \in t.bysock, NEW u,
           u.norequest = t.norequest, u.bysock = t.bysock \ {c}
    PROVE  c \in Clients /\ c \in Live(t) /\ Live(u) = Live(t) \ {c}
  BY TypesOf DEF ClientsOK, Live

LEMMA StartedKept ==
    ASSUME NEW t, NEW u, Started(t, u), NEW t2, ClientsOK(t2), NEW u2,
           Owners(u2) \subseteq t2.bysock, NEW W, Writes(W, t, t2),
           Owners(u2) \subseteq Owners(u) \cup W,
           \A c \in W : c \in t2.bysock => t2.writer[c] # "new"
    PROVE  Started(t2, u2)
  <1>1. ASSUME NEW c \in Clients, c \in t2.write_client \/ c \in Owners(u2)
        PROVE  t2.writer[c] # "new"
    <2>1. c \in t2.bysock
      BY <1>1 DEF ClientsOK
    <2>2. c \in W \/ c \in t.write_client \/ c \in Owners(u)
      BY <1>1 DEF Writes
    <2> QED
      BY <2>1, <2>2 DEF Writes, Started
  <1> QED
    BY <1>1 DEF Started

LEMMA WritesAll ==
    ASSUME NEW W, Writes(W, cm, cm'), cm'.norequest \subseteq cm.norequest
    PROVE  KeepsWriters
  BY DEF Writes, KeepsWriters

LEMMA OwnersOf ==
    ASSUME NEW u, DownloadsOK(u), NEW d \in Known(u)
    PROVE  u.client[d] \in Owners(u) /\ u.client[d] \in Clients
  BY DEF Owners, DownloadsOK

\* A handler that reads a client: nothing is written, no download begins.
LEMMA IncomingRequestMoves ==
    ASSUME IInv, Notified(dm), Started(cm, dm), NEW c \in Clients, incomingRequest(c)
    PROVE  HandledOK
  <1>1. ClientsOK(cm) /\ cm \in ClientTable /\ cm.norequest \cap cm.bysock = {}
    BY DEF IInv, Agree, ClientsOK
  <1>2. IInv' /\ ClientsOK(cm') /\ Owners(dm') \subseteq cm'.bysock
    BY IncomingRequestOK DEF IInv, Agree
  <1>3. PICK rd \in ReadResults(c, cm.reader[c]) :
          /\ cm' = readRequest(cm, c, rd)
          /\ srv' = IF c \in cm.norequest /\ rd.got = "closed" THEN closeClient(c) ELSE srv
    BY DEF incomingRequest
  <1>4. dm' = dm
    BY DEF incomingRequest
  <1>5. Writes({}, cm, cm')
    BY <1>1, <1>3, ReadRequestWrites
  <1>6. Started(cm', dm')
    BY <1>2, <1>4, <1>5, StartedKept
  <1>7. Moved /\ cm'.norequest \subseteq cm.norequest
    <2>1. CASE c \notin cm.norequest
      BY <1>3, <2>1 DEF readRequest, Moved
    <2>2. CASE c \in cm.norequest /\ rd.got = "closed"
      <3>1. cm'.norequest = cm.norequest \ {c} /\ cm'.bysock = cm.bysock \ {c}
        BY <1>3, <2>2 DEF readRequest, cleanup
      <3> QED
        BY <1>3, <2>2, <3>1 DEF Moved, Live, closeClient
    <2>3. CASE c \in cm.norequest /\ rd.got = "request"
      <3>1. cm'.norequest = cm.norequest \ {c} /\ cm'.bysock = cm.bysock \cup {c}
        BY <1>1, <1>3, <2>3 DEF readRequest, ClientTable
      <3> QED
        BY <1>3, <2>3, <3>1 DEF Moved, Live
    <2>4. CASE c \in cm.norequest /\ rd.got \notin {"closed", "request"}
      <3>1. cm'.norequest = cm.norequest /\ cm'.bysock = cm.bysock
        BY <1>1, <1>3, <2>4 DEF readRequest, ClientTable
      <3> QED
        BY <1>3, <2>4, <3>1 DEF Moved, Live
    <2> QED
      BY <2>1, <2>2, <2>3, <2>4
  <1> QED
    BY <1>4, <1>5, <1>6, <1>7, WritesAll DEF HandledOK

LEMMA IncomingClientDataMoves ==
    ASSUME IInv, Notified(dm), Started(cm, dm), NEW c \in Clients, incomingClientData(c)
    PROVE  HandledOK
  <1>1. ClientsOK(cm) /\ DownloadsOK(dm) /\ cm \in ClientTable /\ cm.reader[c] \in ReaderModes
    BY TypesOf DEF IInv, Agree, ClientsOK
  <1>2. IInv' /\ ClientsOK(cm') /\ Owners(dm') \subseteq cm'.bysock
    BY IncomingClientDataOK DEF IInv, Agree
  <1>3. PICK rd \in PlainReads(cm, c), sent \in SendResults :
         LET r     == readData(cm, c, rd)
             known == c \in cm.bysock
             s     == sendClientData(dm, c, sent)
         IN  CASE ~known -> UNCHANGED <<cm, dm, srv, asked>>
               [] known /\ rd.got = "closed" ->
                    /\ cm' = r
                    /\ dm' = endClientDownload(dm, c)
                    /\ srv' = closeClient(c)
                    /\ UNCHANGED asked
               [] known /\ rd.got = "request" ->
                    /\ cm' = r
                    /\ asked' = [asked EXCEPT ![c] = @ + 1]
                    /\ UNCHANGED <<dm, srv>>
               [] known /\ rd.got = "data" ->
                    /\ dm' = s.dm
                    /\ cm' = backpressure(r, c, s)
                    /\ UNCHANGED <<srv, asked>>
               [] known /\ rd.got = "nothing" ->
                    /\ cm' = r
                    /\ UNCHANGED <<dm, srv, asked>>
    BY DEF incomingClientData
  <1>4. PICK r, s : r = readData(cm, c, rd) /\ s = sendClientData(dm, c, sent)
    OBVIOUS
  <1>5. rd \in Reads
    <2> DEFINE wanted == IF SourceOf[c] = "icap" THEN "refuse" ELSE "request"
               mode   == NextMode(c, cm.reader[c], wanted)
    <2>1. wanted \in ReaderModes
      BY DEF ReaderModes
    <2> HIDE DEF wanted
    <2>2. mode \in ReaderModes
      BY <1>1, <2>1, NextModeOK
    <2>3. rd \in ReadResults(c, mode)
      BY DEF PlainReads, wanted
    <2> HIDE DEF mode
    <2> QED
      BY <2>2, <2>3, ReadResultsOK
  <1>6. /\ ClientsOK(r) /\ r.norequest = cm.norequest
        /\ rd.got = "closed" => r.bysock = cm.bysock \ {c}
        /\ rd.got # "closed" => r.bysock = cm.bysock
        /\ Writes({}, cm, r)
    BY <1>1, <1>4, <1>5, ReadDataOK, ReadDataWrites
  <1>7. CASE c \notin cm.bysock
    <2>1. cm' = cm /\ dm' = dm /\ srv' = srv
      BY <1>3, <1>7
    <2> QED
      BY <2>1 DEF HandledOK, Moved, KeepsWriters
  <1>8. CASE c \in cm.bysock /\ rd.got = "closed"
    <2>1. cm' = r /\ dm' = endClientDownload(dm, c) /\ srv' = closeClient(c)
      BY <1>3, <1>4, <1>8
    <2>2. Owners(dm') \subseteq Owners(dm)
      BY <1>1, <2>1, EndClientDownloadOK
    <2>3. Moved
      BY <1>1, <1>6, <1>8, <2>1, ClosedOne DEF Moved, closeClient
    <2>4. Started(cm', dm')
      BY <1>2, <1>6, <2>1, <2>2, StartedKept
    <2> QED
      BY <1>6, <2>1, <2>2, <2>3, <2>4, WritesAll DEF HandledOK, Notified
  <1>9. CASE c \in cm.bysock /\ rd.got # "closed"
    <2>1. srv' = srv /\ Owners(dm') = Owners(dm)
      <3>1. srv' = srv /\ dm' \in {dm, s.dm}
        BY <1>3, <1>4, <1>5, <1>9 DEF Reads
      <3> QED
        BY <1>1, <1>4, <3>1, SendClientDataOK, SameOwners
    <2>2. /\ cm'.norequest = cm.norequest /\ cm'.bysock = cm.bysock
          /\ Writes({}, cm, cm')
      <3>1. cm' \in {r, corkUpload(r, c), uncorkUpload(r, c)}
        BY <1>3, <1>4, <1>5, <1>9 DEF Reads, backpressure
      <3>2. r \in ClientTable
        BY <1>6 DEF ClientsOK
      <3>3. SameClients(r, cm') /\ Writes({}, r, cm')
        BY <1>6, <3>1, <3>2, CorkOK, CorkWrites DEF SameClients, Writes
      <3> QED
        BY <1>6, <1>9, <3>3, WritesTwice DEF SameClients
    <2>3. Moved
      BY <2>1, <2>2 DEF Moved, Live
    <2>4. Started(cm', dm')
      BY <1>2, <2>1, <2>2, StartedKept
    <2> QED
      BY <2>1, <2>2, <2>3, <2>4, WritesAll DEF HandledOK, Notified
  <1> QED
    BY <1>7, <1>8, <1>9

LEMMA ExpireMoves ==
    ASSUME IInv, Notified(dm), Started(cm, dm), NEW c \in Clients, expire(c)
    PROVE  HandledOK
  <1>1. ClientsOK(cm) /\ cm \in ClientTable /\ cm.norequest \cap cm.bysock = {}
    BY DEF IInv, Agree, ClientsOK
  <1>2. IInv' /\ ClientsOK(cm') /\ Owners(dm') \subseteq cm'.bysock
    BY ExpireOK DEF IInv, Agree
  <1>3. c \in cm.norequest /\ cm' = cleanup(cm, c) /\ srv' = closeClient(c) /\ dm' = dm
    BY DEF expire
  <1>4. /\ cm'.norequest = cm.norequest \ {c} /\ cm'.bysock = cm.bysock \ {c}
        /\ Writes({}, cm, cm')
    BY <1>1, <1>3, CleanupWrites DEF cleanup
  <1>5. Moved
    BY <1>3, <1>4 DEF Moved, Live, closeClient
  <1>6. Started(cm', dm')
    BY <1>2, <1>3, <1>4, StartedKept
  <1> QED
    BY <1>3, <1>4, <1>5, <1>6, WritesAll DEF HandledOK

\* A handler that writes to a server.
LEMMA FlushWebOutputMoves ==
    ASSUME IInv, Notified(dm), Started(cm, dm), NEW d \in Downloads, flushWebOutput(d)
    PROVE  HandledOK
  <1>1. ClientsOK(cm) /\ DownloadsOK(dm) /\ cm \in ClientTable
    BY DEF IInv, Agree, ClientsOK
  <1>2. IInv' /\ ClientsOK(cm') /\ Owners(dm') \subseteq cm'.bysock
    BY FlushWebOutputOK DEF IInv, Agree
  <1>3. PICK sent \in SendResults :
          /\ dm' = sendSocketData(dm, d, sent).dm
          /\ cm' = backpressure(cm, dm.client[d], sendSocketData(dm, d, sent))
    BY DEF flushWebOutput
  <1>4. Owners(dm') = Owners(dm) /\ srv' = srv
    BY <1>1, <1>3, SendSocketDataOK, SameOwners DEF flushWebOutput
  <1>5. SameClients(cm, cm') /\ Writes({}, cm, cm')
    <2>1. \E c : cm' \in {cm, corkUpload(cm, c), uncorkUpload(cm, c)}
      BY <1>3 DEF backpressure
    <2> QED
      BY <1>1, <2>1, CorkOK, CorkWrites DEF SameClients, Writes
  <1>6. Moved
    BY <1>4, <1>5 DEF Moved, Live, SameClients
  <1>7. Started(cm', dm')
    BY <1>2, <1>4, <1>5, StartedKept
  <1> QED
    BY <1>4, <1>5, <1>6, <1>7, WritesAll DEF HandledOK, Notified, SameClients

(* A handler that writes to client c, which has a writer if it is there.   *)
LEMMA WrittenMoves ==
    ASSUME IInv, Notified(dm), Started(cm, dm), ClientsOK(cm'),
           Owners(dm') \subseteq cm'.bysock, Owners(dm') \subseteq Owners(dm),
           NEW c, c \in cm.bysock => cm.writer[c] # "new", NEW t, ClientsOK(t),
           SameClients(cm, t), Writes({}, cm, t), NEW data, NEW sent,
           cm' = sendData(t, c, data, sent).cm,
           srv' = IF sendData(t, c, data, sent).status = "closed" THEN closeClient(c) ELSE srv
    PROVE  HandledOK
  <1>1. PICK s : s = sendData(t, c, data, sent)
    OBVIOUS
  <1>2. /\ s.status = "unknown" <=> c \notin t.bysock
        /\ s.cm.norequest = t.norequest
        /\ s.status = "closed" => s.cm.bysock = t.bysock \ {c}
        /\ s.status # "closed" => s.cm.bysock = t.bysock
        /\ Writes({c}, t, s.cm)
    <2>1. PICK v : v = s.cm
      OBVIOUS
    <2>2. v = sendData(t, c, data, sent).cm
      BY <1>1, <2>1
    <2>3. Writes({c}, t, v)
      BY <2>2, SendDataWrites
    <2>4. /\ s.status = "unknown" <=> c \notin t.bysock
          /\ s.cm.norequest = t.norequest
          /\ s.status = "closed" => s.cm.bysock = t.bysock \ {c}
          /\ s.status # "closed" => s.cm.bysock = t.bysock
      BY <1>1, SendDataOK
    <2> QED
      BY <2>1, <2>3, <2>4
  <1>3. /\ cm'.norequest = cm.norequest /\ cm'.bysock \subseteq cm.bysock
        /\ Writes({c}, cm, cm')
    <2>1. cm'.bysock \subseteq t.bysock
      BY <1>1, <1>2
    <2>2. {} \cup {c} = {c}
      OBVIOUS
    <2> QED
      BY <1>1, <1>2, <2>1, <2>2, WritesTwice DEF SameClients
  <1>4. Moved
    <2>1. CASE s.status = "closed"
      <3>1. /\ c \in cm.bysock /\ cm'.norequest = cm.norequest
            /\ cm'.bysock = cm.bysock \ {c}
        BY <1>1, <1>2, <2>1 DEF SameClients
      <3> QED
        BY <1>1, <2>1, <3>1, ClosedOne DEF Moved, closeClient, IInv, Agree
    <2>2. CASE s.status # "closed"
      BY <1>1, <1>2, <2>2 DEF Moved, Live, SameClients
    <2> QED
      BY <2>1, <2>2
  <1>5. c \in cm'.bysock => c \in Clients /\ cm'.writer[c] # "new"
    <2>1. c \in cm'.bysock => c \in Clients
      BY TypesOf DEF ClientsOK
    <2> QED
      BY <1>3, <2>1 DEF Writes
  <1>6. Started(cm', dm')
    BY <1>3, <1>5, StartedKept
  <1> QED
    BY <1>3, <1>4, <1>6, WritesAll DEF HandledOK, Notified

LEMMA FlushClientOutputMoves ==
    ASSUME IInv, Notified(dm), Started(cm, dm), BatchStarted, NEW c \in Clients,
           flushClientOutput(c)
    PROVE  HandledOK
  <1>1. ClientsOK(cm) /\ DownloadsOK(dm) /\ Owners(dm) \subseteq cm.bysock
    BY DEF IInv, Agree
  <1>2. IInv' /\ ClientsOK(cm') /\ Owners(dm') \subseteq cm'.bysock
    BY FlushClientOutputOK DEF IInv, Agree
  <1>3. PICK sent \in SendResults :
         LET t == sendData(cm, c, "flush", sent)
         IN  /\ cm' = t.cm
             /\ srv' = IF t.status = "closed" THEN closeClient(c) ELSE srv
             /\ dm' = CASE t.status = "closed" -> endClientDownload(dm, c)
                        [] t.change /\ t.status = "clear" -> uncorkClientDownload(dm, c)
                        [] t.change /\ t.status = "buffering" -> corkClientDownload(dm, c)
                        [] OTHER -> dm
    BY DEF flushClientOutput
  <1>4. /\ cm' = sendData(cm, c, "flush", sent).cm
        /\ srv' = IF sendData(cm, c, "flush", sent).status = "closed"
                  THEN closeClient(c) ELSE srv
        /\ dm' \in {endClientDownload(dm, c), uncorkClientDownload(dm, c),
                    corkClientDownload(dm, c), dm}
    BY <1>3
  <1>5. Owners(dm') \subseteq Owners(dm)
    BY <1>1, <1>4, EndClientDownloadOK, DownloadCorkOK, SameOwners
  <1>6. c \in cm.bysock => cm.writer[c] # "new"
    BY DEF flushClientOutput, Handle, BatchStarted
  <1>7. SameClients(cm, cm) /\ Writes({}, cm, cm)
    BY DEF SameClients, Writes
  <1> QED
    BY <1>1, <1>2, <1>4, <1>5, <1>6, <1>7, WrittenMoves

\* A client that downloads is closed as the others.
LEMMA LostClient ==
    ASSUME Notified(dm), NEW c \in Owners(dm)
    PROVE  downloadLostClient(c) = closeClient(c)
  BY DEF Notified, downloadLostClient

LEMMA IncomingWebDataMoves ==
    ASSUME IInv, Notified(dm), Started(cm, dm), NEW d \in Downloads, incomingWebData(d)
    PROVE  HandledOK
  <1>1. ClientsOK(cm) /\ DownloadsOK(dm) /\ Owners(dm) \subseteq cm.bysock
    BY DEF IInv, Agree
  <1>2. IInv' /\ ClientsOK(cm') /\ Owners(dm') \subseteq cm'.bysock
    BY IncomingWebDataOK DEF IInv, Agree
  <1>3. PICK page \in {"data", "flush", "end"}, sent \in SendResults :
         LET r == readDownload(dm, d, page)
             c == r.client
             t == sendData(cm, c, page, sent)
         IN  /\ cm' = t.cm
             /\ srv' = IF t.status = "closed" THEN downloadLostClient(c) ELSE srv
             /\ dm' = CASE c # NoClient /\ t.status \in {"closed", "unknown"} /\ page # "end" ->
                             endClientDownload(r.dm, c)
                        [] t.change /\ t.status = "buffering" -> corkClientDownload(r.dm, c)
                        [] OTHER -> r.dm
    BY DEF incomingWebData
  <1>4. PICK r, c, t : /\ r = readDownload(dm, d, page)
                       /\ c = r.client /\ t = sendData(cm, c, page, sent)
    OBVIOUS
  <1>5. /\ DownloadsOK(r.dm) /\ Owners(r.dm) \subseteq Owners(dm)
        /\ c # NoClient => c \in Clients
    BY <1>1, <1>4, ReadDownloadOK
  <1>6. NoClient \notin cm.bysock
    BY <1>1, TypesOf, SocketsAssumption DEF ClientsOK
  <1>7. c # NoClient => c \in Owners(dm)
    BY <1>1, <1>4, OwnersOf DEF readDownload, Known
  <1>8. Owners(dm') \subseteq Owners(dm)
    <2>1. \/ dm' = r.dm
          \/ c # NoClient /\ dm' \in {endClientDownload(r.dm, c), corkClientDownload(r.dm, c)}
      <3>1. c = NoClient => t.status = "unknown"
        BY <1>1, <1>4, <1>6, SendDataOK
      <3> QED
        BY <1>3, <1>4, <3>1
    <2> QED
      BY <1>5, <2>1, EndClientDownloadOK, DownloadCorkOK, SameOwners
  <1>9. /\ cm' = t.cm
        /\ srv' = IF t.status = "closed" THEN closeClient(c) ELSE srv
    <2>1. t.status = "closed" => c # NoClient
      BY <1>1, <1>4, <1>6, SendDataOK
    <2> QED
      BY <1>3, <1>4, <1>7, <2>1, LostClient
  <1>10. c \in cm.bysock => cm.writer[c] # "new"
    BY <1>5, <1>6, <1>7 DEF Started
  <1>11. SameClients(cm, cm) /\ Writes({}, cm, cm)
    BY DEF SameClients, Writes
  <1> QED
    BY <1>1, <1>2, <1>4, <1>8, <1>9, <1>10, <1>11, WrittenMoves

LEMMA CompleteWebConnectionMoves ==
    ASSUME IInv, Notified(dm), Started(cm, dm), NEW d \in Downloads, completeWebConnection(d)
    PROVE  HandledOK
  <1>1. ClientsOK(cm) /\ DownloadsOK(dm) /\ cm \in ClientTable
    BY DEF IInv, Agree, ClientsOK
  <1>2. IInv' /\ ClientsOK(cm') /\ Owners(dm') \subseteq cm'.bysock
    BY CompleteWebConnectionOK DEF IInv, Agree
  <1>3. PICK sent \in SendResults, sent2 \in SendResults :
         LET s   == startDownload(dm, d, sent)
             c   == s.client
             cm1 == IF s.change THEN uncorkUpload(cm, c) ELSE cm
             t   == sendData(cm1, c, "data", sent2)
         IN  IF c \in cm.bysock /\ s.response
             THEN /\ cm' = t.cm
                  /\ srv' = IF t.status = "closed" THEN downloadLostClient(c) ELSE srv
                  /\ dm' = CASE t.status = "closed" -> endClientDownload(s.dm, c)
                             [] t.change /\ t.status = "buffering" -> corkClientDownload(s.dm, c)
                             [] t.change /\ t.status = "clear" -> uncorkClientDownload(s.dm, c)
                             [] OTHER -> s.dm
             ELSE /\ sent2 = "all"
                  /\ cm' = cm1
                  /\ dm' = s.dm
                  /\ UNCHANGED srv
    BY DEF completeWebConnection
  <1>4. PICK s, c, cm1, t : /\ s = startDownload(dm, d, sent)
                            /\ c = s.client
                            /\ cm1 = IF s.change THEN uncorkUpload(cm, c) ELSE cm
                            /\ t = sendData(cm1, c, "data", sent2)
    OBVIOUS
  <1>5. DownloadsOK(s.dm) /\ Owners(s.dm) = Owners(dm)
    BY <1>1, <1>4, StartDownloadOK, SameOwners
  <1>6. ClientsOK(cm1) /\ SameClients(cm, cm1) /\ Writes({}, cm, cm1)
    BY <1>1, <1>4, CorkOK, CorkWrites DEF SameClients, Writes
  <1>7. CASE ~(c \in cm.bysock /\ s.response)
    <2>1. cm' = cm1 /\ dm' = s.dm /\ srv' = srv
      BY <1>3, <1>4, <1>7
    <2>2. Moved /\ cm'.norequest = cm.norequest
      BY <1>6, <2>1 DEF Moved, Live, SameClients
    <2>3. Started(cm', dm')
      BY <1>2, <1>5, <1>6, <2>1, StartedKept
    <2> QED
      BY <1>5, <1>6, <2>1, <2>2, <2>3, WritesAll DEF HandledOK, Notified
  <1>8. CASE c \in cm.bysock /\ s.response
    <2>1. /\ cm' = t.cm
          /\ srv' = IF t.status = "closed" THEN downloadLostClient(c) ELSE srv
          /\ dm' \in {endClientDownload(s.dm, c), corkClientDownload(s.dm, c),
                      uncorkClientDownload(s.dm, c), s.dm}
      BY <1>3, <1>4, <1>8
    <2>2. c \in Clients
      BY <1>1, <1>8, TypesOf
    <2>3. c \in Owners(dm)
      BY <1>1, <1>4, <1>8, OwnersOf DEF startDownload, Known
    <2>4. Owners(dm') \subseteq Owners(dm)
      BY <1>5, <2>1, <2>2, EndClientDownloadOK, DownloadCorkOK, SameOwners
    <2>5. cm.writer[c] # "new"
      BY <2>2, <2>3 DEF Started
    <2> QED
      BY <1>1, <1>2, <1>4, <1>6, <2>1, <2>3, <2>4, <2>5, LostClient, WrittenMoves
  <1> QED
    BY <1>7, <1>8

LEMMA EnactMoves ==
    ASSUME IInv, Notified(dm), Started(cm, dm), NEW c \in Clients,
           asked[c] + resolving[c] > 0,
           NEW command, Allowed(c, command), NEW content \in Contents,
           content = "stream" => command \in Methods,
           content = "response" => command = "icap",
           SourceOf[c] = "icap" => content \in {"response", "end"},
           NEW g, DownloadsOK(g.dm), Owners(g.dm) \subseteq Owners(dm) \cup {c},
           Notified(g.dm), enact(c, command, content, g), IInv'
    PROVE  HandledOK
  <1>1. ClientsOK(cm) /\ ClientsOK(cm') /\ Owners(dm') \subseteq cm'.bysock
    BY DEF IInv, Agree
  <1>2. PICK u, r, sent : \E rd \in Reads :
          /\ ClientsOK(u) /\ SameClients(cm, u) /\ u = backpressure(cm, c, g)
          /\ r = startData(u, c, content, sent, rd)
          /\ DataStarted(c, content, u, r, rd)
          /\ EnactStep(c, g, r)
    BY EnactParts
  <1>3. PICK rd \in Reads :
          /\ ClientsOK(u) /\ SameClients(cm, u) /\ u = backpressure(cm, c, g)
          /\ r = startData(u, c, content, sent, rd)
          /\ DataStarted(c, content, u, r, rd)
          /\ EnactStep(c, g, r)
    BY <1>2
  <1>4. Writes({}, cm, u)
    <2>1. u \in {cm, corkUpload(cm, c), uncorkUpload(cm, c)}
      BY <1>3 DEF backpressure
    <2> QED
      BY <1>1, <2>1, CorkWrites DEF Writes, ClientsOK
  <1>5. PICK v : v = r.cm
    OBVIOUS
  <1>6. Writes({c}, u, v) /\ (c \in v.bysock => v.writer[c] # "new")
    <2>1. u \in ClientTable /\ v = startData(u, c, content, sent, rd).cm
      BY <1>3, <1>5 DEF ClientsOK
    <2>2. Writes({c}, u, v)
      BY <2>1, StartDataWrites
    <2>3. c \in v.bysock => v.writer[c] # "new"
      BY <2>1, StartDataWrites
    <2> QED
      BY <2>2, <2>3
  <1>7. /\ ClientsOK(v) /\ v.norequest = cm.norequest
        /\ r.got = "closed" => c \in cm.bysock /\ v.bysock = cm.bysock \ {c}
        /\ r.got # "closed" => v.bysock = cm.bysock
    BY <1>3, <1>5 DEF DataStarted, SameClients
  <1>8. Writes({c}, cm, v)
    <2>1. {} \cup {c} = {c} /\ v.bysock \subseteq u.bysock
      BY <1>3, <1>7 DEF SameClients
    <2> QED
      BY <1>4, <1>6, <2>1, WritesTwice
  <1>9. CASE r.got = "data"
    <2>1. PICK sent2 \in SendResults :
            LET s == sendClientData(g.dm, c, sent2)
            IN  dm' = s.dm /\ cm' = backpressure(r.cm, c, s) /\ srv' = srv
      BY <1>3, <1>9 DEF EnactStep
    <2>2. PICK s : /\ s = sendClientData(g.dm, c, sent2)
                   /\ dm' = s.dm /\ cm' = backpressure(v, c, s) /\ srv' = srv
      BY <1>5, <2>1
    <2>3. Owners(dm') = Owners(g.dm)
      BY <2>2, SendClientDataOK, SameOwners
    <2>4. SameClients(v, cm') /\ Writes({}, v, cm')
      <3>1. cm' \in {v, corkUpload(v, c), uncorkUpload(v, c)}
        BY <2>2 DEF backpressure
      <3>2. SameClients(v, cm')
        BY <1>7, <3>1, CorkOK DEF SameClients
      <3>3. Writes({}, v, cm')
        BY <1>7, <3>1, CorkWrites DEF Writes, ClientsOK
      <3> QED
        BY <3>2, <3>3
    <2>5. /\ cm'.norequest = cm.norequest /\ cm'.bysock = cm.bysock
          /\ Writes({c}, cm, cm') /\ (c \in cm'.bysock => cm'.writer[c] # "new")
      <3>1. cm'.norequest = cm.norequest /\ cm'.bysock = cm.bysock /\ v.bysock = cm.bysock
        BY <1>7, <1>9, <2>4 DEF SameClients
      <3>2. {c} \cup {} = {c} /\ cm'.bysock \subseteq v.bysock
        BY <3>1
      <3>3. Writes({c}, cm, cm')
        BY <1>8, <2>4, <3>2, WritesTwice
      <3>4. c \in cm'.bysock => cm'.writer[c] # "new"
        BY <1>6, <2>4, <3>1 DEF Writes
      <3> QED
        BY <3>1, <3>3, <3>4
    <2>6. Moved
      BY <2>2, <2>5 DEF Moved, Live
    <2>7. Started(cm', dm')
      BY <1>1, <2>3, <2>5, StartedKept
    <2>8. Notified(dm')
      BY <2>3 DEF Notified
    <2> QED
      BY <2>5, <2>6, <2>7, <2>8, WritesAll DEF HandledOK
  <1>10. CASE r.got # "data"
    <2>1. /\ cm' = v
          /\ dm' = IF r.got \in {"closed", "unknown"} THEN endClientDownload(g.dm, c) ELSE g.dm
          /\ srv' = IF r.got = "closed" THEN closeClient(c) ELSE srv
      BY <1>3, <1>5, <1>10 DEF EnactStep
    <2>2. Owners(dm') \subseteq Owners(g.dm)
      BY <2>1, EndClientDownloadOK
    <2>3. Moved
      <3>1. CASE r.got = "closed"
        BY <1>1, <1>7, <2>1, <3>1, ClosedOne DEF Moved, closeClient
      <3>2. CASE r.got # "closed"
        BY <1>7, <2>1, <3>2 DEF Moved, Live
      <3> QED
        BY <3>1, <3>2
    <2>4. Owners(dm') \subseteq Owners(dm) \cup {c}
      BY <2>2
    <2>5. Started(cm', dm')
      BY <1>1, <1>6, <1>8, <2>1, <2>4, StartedKept
    <2>6. Notified(dm')
      BY <2>2 DEF Notified
    <2> QED
      BY <1>7, <1>8, <2>1, <2>3, <2>5, <2>6, WritesAll DEF HandledOK
  <1> QED
    BY <1>9, <1>10

LEMMA EnactDecisionMoves ==
    ASSUME IInv, Notified(dm), Started(cm, dm), NEW c \in Clients,
           asked[c] + resolving[c] > 0, NEW command \in Answers(c),
           enactDecision(c, command), IInv'
    PROVE  HandledOK
  <1>0. DownloadsOK(dm)
    BY DEF IInv, Agree
  <1>1. CASE command \in Methods /\ enactRemote(c, command)
    <2>1. PICK host \in Hosts, d \in FreeDownloads \cup {NoDownload}, sent \in SendResults :
            /\ (d = NoDownload) = (inUse(dm, c, host) # NoDownload)
            /\ enact(c, command, "stream", getRemote(dm, c, command, host, d, sent))
      BY <1>1 DEF enactRemote
    <2>2. inUse(dm, c, host) = NoDownload => d \in Downloads \ Known(dm)
      BY <2>1 DEF FreeDownloads
    <2>3. PICK g : g = getRemote(dm, c, command, host, d, sent)
      OBVIOUS
    <2>4. DownloadsOK(g.dm) /\ Owners(g.dm) \subseteq Owners(dm) \cup {c}
      BY <1>0, <1>1, <2>2, <2>3, GetRemoteOK
    <2>5. SourceOf[c] \in NotifiedByDownloads
      BY <1>1, SourcesOf DEF Answers, CommandsFor, LookupErrors, Methods, Sources,
         NotifiedByDownloads
    <2>6. Notified(g.dm)
      BY <2>4, <2>5 DEF Notified
    <2>7. "stream" \in Contents /\ SourceOf[c] # "icap" /\ Allowed(c, command)
      BY <1>1, AnswersAllowed DEF Contents
    <2>8. enact(c, command, "stream", g)
      BY <2>1, <2>3
    <2> QED
      BY <1>1, <2>4, <2>6, <2>7, <2>8, EnactMoves
  <1>2. CASE enactLocal(c, command)
    <2> DEFINE g == Unchanged(getLocal(dm, c))
    <2>1. PICK content \in LocalContents(command) : enact(c, command, content, g)
      BY <1>2 DEF enactLocal
    <2>2. DownloadsOK(g.dm) /\ Owners(g.dm) \subseteq Owners(dm)
      BY <1>0, EndClientDownloadOK DEF getLocal, Unchanged
    <2>3. /\ content \in Contents /\ content # "stream"
          /\ content = "response" => command = "icap"
          /\ SourceOf[c] = "icap" => content \in {"response", "end"}
      BY <2>1, AnswersAllowed DEF LocalContents, Contents, Allowed
    <2> HIDE DEF g
    <2>4. Notified(g.dm)
      BY <2>2 DEF Notified
    <2> QED
      BY <2>1, <2>2, <2>3, <2>4, AnswersAllowed, EnactMoves
  <1> QED
    BY <1>1, <1>2 DEF enactDecision, enactRefused

LEMMA NothingMoves ==
    ASSUME IInv, Notified(dm), Started(cm, dm), UNCHANGED <<cm, dm, srv>>
    PROVE  HandledOK
  BY DEF HandledOK, Moved, KeepsWriters

LEMMA ReadRedirectorMoves ==
    ASSUME IInv, Notified(dm), Started(cm, dm), readRedirector
    PROVE  HandledOK
  <1>1. IInv'
    BY ReadRedirectorOK
  <1>2. PICK c \in Clients :
          /\ asked[c] > 0
          /\ \/ UNCHANGED <<cm, dm, srv>>
             \/ \E command \in Answers(c) : enactDecision(c, command)
    BY DEF readRedirector
  <1>3. asked[c] + resolving[c] > 0
    BY <1>2 DEF IInv, Agree
  <1> QED
    BY <1>1, <1>2, <1>3, NothingMoves, EnactDecisionMoves

LEMMA ReadResolverMoves ==
    ASSUME IInv, Notified(dm), Started(cm, dm), readResolver
    PROVE  HandledOK
  <1>1. IInv'
    BY ReadResolverOK
  <1>2. CASE UNCHANGED <<cm, dm, srv, asked, resolving>>
    BY <1>2, NothingMoves
  <1>3. ASSUME NEW c \in Clients, resolved(c)
        PROVE  HandledOK
    <2>1. SourceOf[c] \notin {"web", "icap"}
      BY <1>3 DEF resolved, IInv, Agree, ClientOK
    <2>2. asked[c] + resolving[c] > 0
      BY <1>3 DEF IInv, Agree, resolved
    <2>3. PICK answer \in Answers(c) : enactDecision(c, answer)
      BY <1>3, <2>1 DEF resolved, Remote, Answers
    <2> QED
      BY <1>1, <2>2, <2>3, EnactDecisionMoves
  <1> QED
    BY <1>2, <1>3 DEF readResolver

LEMMA TimeoutResolverMoves ==
    ASSUME IInv, Notified(dm), Started(cm, dm), timeoutResolver
    PROVE  HandledOK
  <1>1. PICK c \in Clients :
          resolving[c] > 0 /\ "page" \in LookupErrors /\ enactDecision(c, "page")
    BY DEF timeoutResolver
  <1>2. IInv'
    BY TimeoutResolverOK
  <1>3. asked[c] + resolving[c] > 0 /\ SourceOf[c] \notin {"web", "icap"}
    BY <1>1 DEF IInv, Agree, ClientOK
  <1>4. "page" \in Answers(c)
    BY <1>1, <1>3 DEF Answers
  <1> QED
    BY <1>1, <1>2, <1>3, <1>4, EnactDecisionMoves
-----------------------------------------------------------------------------
(* The slots of the servers.                                               *)

ClientsAt(t, x) == {c \in Live(t) : SourceOf[c] = x}

\* SlotAccounting, with what notifyClose() needs to watch the sockets again.
Slots(t, s) ==
    /\ s.socks = Listeners
    /\ \A x \in Sources : s.client_count[x] = Cardinality(ClientsAt(t, x))
    /\ \A l \in Listeners : l \in s.watched <=> Free(s, ListenerOf[l])

\* The listening sockets of a server that wait for accept() in a batch.
Pending(b, x) == {l \in ListenersOf(x) : Event("accept", l) \in b}

\* AtMostMaxClients, with the clients still to be accepted in this batch.
Within(s, b) ==
    \A x \in Sources :
      s.client_count[x] + Cardinality(Pending(b, x))
        <= MaxClients[x] + Cardinality(ListenersOf(x)) - 1

LEMMA ClientsAtFinite ==
    ASSUME NEW t \in ClientTable, NEW x
    PROVE  IsFiniteSet(ClientsAt(t, x)) /\ Cardinality(ClientsAt(t, x)) \in Nat
  <1>1. ClientsAt(t, x) \subseteq Clients
    BY DEF ClientsAt, Live, ClientTable
  <1>2. IsFiniteSet(ClientsAt(t, x))
    BY <1>1, ReactorAssumption, FS_Subset
  <1> QED
    BY <1>2, FS_CardinalityType

LEMMA PendingFinite ==
    ASSUME NEW b, NEW x
    PROVE  /\ IsFiniteSet(ListenersOf(x)) /\ Cardinality(ListenersOf(x)) \in Nat
           /\ IsFiniteSet(Pending(b, x)) /\ Cardinality(Pending(b, x)) \in Nat
           /\ Cardinality(Pending(b, x)) <= Cardinality(ListenersOf(x))
  <1>1. ListenersOf(x) \subseteq Listeners /\ Pending(b, x) \subseteq ListenersOf(x)
    BY DEF ListenersOf, Pending
  <1>2. IsFiniteSet(ListenersOf(x))
    BY <1>1, ReactorAssumption, FS_Subset
  <1>3. /\ IsFiniteSet(Pending(b, x))
        /\ Cardinality(Pending(b, x)) <= Cardinality(ListenersOf(x))
    BY <1>1, <1>2, FS_Subset
  <1> QED
    BY <1>2, <1>3, FS_CardinalityType

LEMMA FewerPending ==
    ASSUME NEW b, NEW b2 \in SUBSET b, NEW x
    PROVE  Cardinality(Pending(b2, x)) <= Cardinality(Pending(b, x))
  <1>1. Pending(b2, x) \subseteq Pending(b, x)
    BY DEF Pending
  <1> QED
    BY <1>1, PendingFinite, FS_Subset

LEMMA CountType ==
    ASSUME NEW s \in ServerTable, NEW x \in Sources
    PROVE  /\ s.client_count[x] \in Int /\ MaxClients[x] \in Nat \ {0}
           /\ Free(s, x) <=> s.client_count[x] < MaxClients[x]
  BY SocketsAssumption DEF ServerTable, Free

\* A client that is closed frees a slot of its server.
LEMMA SlotFreed ==
    ASSUME NEW t \in ClientTable, NEW s \in ServerTable, Slots(t, s),
           NEW c \in Clients, c \in Live(t), NEW t2, Live(t2) = Live(t) \ {c},
           NEW s2, s2 = notifyClose(s, SourceOf[c], 1)
    PROVE  /\ Slots(t2, s2)
           /\ \A x \in Sources : s2.client_count[x] <= s.client_count[x]
  <1>0. PICK source \in Sources : source = SourceOf[c]
    BY SourcesOf
  <1>1. PICK left : left = [s EXCEPT !.client_count[source] = @ - 1]
    OBVIOUS
  <1>2. /\ left \in ServerTable
        /\ left.client_count = [s.client_count EXCEPT ![source] = @ - 1]
        /\ left.socks = s.socks /\ left.watched = s.watched
    BY <1>1 DEF ServerTable
  <1>3. /\ s2.client_count = left.client_count /\ s2.socks = left.socks
        /\ s2.watched = IF Free(left, source) /\ ~Free(s, source)
                        THEN s.watched \cup (ListenersOf(source) \cap s.socks)
                        ELSE s.watched
    BY <1>0, <1>1, <1>2 DEF notifyClose, ServerTable
  <1>4. /\ s2.client_count[source] = s.client_count[source] - 1
        /\ \A x \in Sources \ {source} : s2.client_count[x] = s.client_count[x]
    BY <1>2, <1>3 DEF ServerTable
  <1>5. ASSUME NEW x \in Sources
        PROVE  s2.client_count[x] = Cardinality(ClientsAt(t2, x))
    <2>1. s.client_count[x] = Cardinality(ClientsAt(t, x)) /\ IsFiniteSet(ClientsAt(t, x))
      BY ClientsAtFinite DEF Slots
    <2>2. CASE x = source
      <3>1. ClientsAt(t2, x) = ClientsAt(t, x) \ {c} /\ c \in ClientsAt(t, x)
        BY <1>0, <2>2 DEF ClientsAt
      <3>2. Cardinality(ClientsAt(t, x) \ {c}) = Cardinality(ClientsAt(t, x)) - 1
        BY <2>1, <3>1, FS_RemoveElement
      <3> QED
        BY <1>4, <2>1, <2>2, <3>1, <3>2
    <2>3. CASE x # source
      <3>1. ClientsAt(t2, x) = ClientsAt(t, x)
        BY <1>0, <2>3 DEF ClientsAt
      <3> QED
        BY <1>4, <2>1, <2>3, <3>1
    <2> QED
      BY <2>2, <2>3
  <1>6. \A x \in Sources : s2.client_count[x] <= s.client_count[x]
    <2>1. \A x \in Sources : s.client_count[x] \in Int
      BY CountType
    <2> QED
      BY <1>4, <2>1
  <1>7. ASSUME NEW l \in Listeners
        PROVE  l \in s2.watched <=> Free(s2, ListenerOf[l])
    <2>1. /\ ListenerOf[l] \in Sources /\ l \in s.socks
          /\ l \in ListenersOf(source) <=> ListenerOf[l] = source
          /\ l \in s.watched <=> Free(s, ListenerOf[l])
      BY SocketsAssumption DEF ListenersOf, Slots
    <2>2. Free(s2, ListenerOf[l]) <=> IF ListenerOf[l] = source THEN Free(left, source)
                                      ELSE Free(s, ListenerOf[l])
      BY <1>2, <1>3, <1>4, <2>1 DEF Free
    <2>3. Free(s, source) => Free(left, source)
      BY <1>2, CountType DEF ServerTable
    <2> QED
      BY <1>2, <1>3, <2>1, <2>2, <2>3
  <1>8. s2.socks = Listeners
    BY <1>2, <1>3 DEF Slots
  <1> QED
    BY <1>5, <1>6, <1>7, <1>8 DEF Slots

\* A client that is accepted takes one.
LEMMA SlotTaken ==
    ASSUME NEW t \in ClientTable, NEW s \in ServerTable, Slots(t, s),
           NEW c \in Clients, c \notin Live(t), NEW t2, Live(t2) = Live(t) \cup {c},
           NEW s2, s2 = accepted(s, SourceOf[c])
    PROVE  /\ Slots(t2, s2)
           /\ s2.client_count[SourceOf[c]] = s.client_count[SourceOf[c]] + 1
           /\ \A x \in Sources \ {SourceOf[c]} : s2.client_count[x] = s.client_count[x]
  <1>0. PICK source \in Sources : source = SourceOf[c]
    BY SourcesOf
  <1>1. PICK more : more = [s EXCEPT !.client_count[source] = @ + 1]
    OBVIOUS
  <1>2. /\ more \in ServerTable
        /\ more.client_count = [s.client_count EXCEPT ![source] = @ + 1]
        /\ more.socks = s.socks /\ more.watched = s.watched
    BY <1>1 DEF ServerTable
  <1>9. s2 = pause(more, source)
    BY <1>0, <1>1 DEF accepted
  <1>3. /\ s2.client_count = more.client_count /\ s2.socks = more.socks
        /\ s2.watched = IF Free(more, source) THEN s.watched
                        ELSE s.watched \ (ListenersOf(source) \cap s.socks)
    BY <1>2, <1>9 DEF pause, ServerTable
  <1>4. /\ s2.client_count[source] = s.client_count[source] + 1
        /\ \A x \in Sources \ {source} : s2.client_count[x] = s.client_count[x]
    BY <1>2, <1>3 DEF ServerTable
  <1>5. ASSUME NEW x \in Sources
        PROVE  s2.client_count[x] = Cardinality(ClientsAt(t2, x))
    <2>1. s.client_count[x] = Cardinality(ClientsAt(t, x)) /\ IsFiniteSet(ClientsAt(t, x))
      BY ClientsAtFinite DEF Slots
    <2>2. CASE x = source
      <3>1. ClientsAt(t2, x) = ClientsAt(t, x) \cup {c} /\ c \notin ClientsAt(t, x)
        BY <1>0, <2>2 DEF ClientsAt
      <3>2. Cardinality(ClientsAt(t, x) \cup {c}) = Cardinality(ClientsAt(t, x)) + 1
        BY <2>1, <3>1, FS_AddElement
      <3> QED
        BY <1>4, <2>1, <2>2, <3>1, <3>2
    <2>3. CASE x # source
      <3>1. ClientsAt(t2, x) = ClientsAt(t, x)
        BY <1>0, <2>3 DEF ClientsAt
      <3> QED
        BY <1>4, <2>1, <2>3, <3>1
    <2> QED
      BY <2>2, <2>3
  <1>7. ASSUME NEW l \in Listeners
        PROVE  l \in s2.watched <=> Free(s2, ListenerOf[l])
    <2>1. /\ ListenerOf[l] \in Sources /\ l \in s.socks
          /\ l \in ListenersOf(source) <=> ListenerOf[l] = source
          /\ l \in s.watched <=> Free(s, ListenerOf[l])
      BY SocketsAssumption DEF ListenersOf, Slots
    <2>2. Free(s2, ListenerOf[l]) <=> IF ListenerOf[l] = source THEN Free(more, source)
                                      ELSE Free(s, ListenerOf[l])
      BY <1>2, <1>3, <1>4, <2>1 DEF Free
    <2>3. Free(more, source) => Free(s, source)
      BY <1>2, CountType DEF ServerTable
    <2> QED
      BY <1>2, <1>3, <2>1, <2>2, <2>3
  <1>8. s2.socks = Listeners
    BY <1>2, <1>3 DEF Slots
  <1> QED
    BY <1>0, <1>4, <1>5, <1>7, <1>8 DEF Slots

\* The `finally' clause of an accept() that failed: a server that is full is not
\* watched as it is.
LEMMA NoSlotTaken ==
    ASSUME NEW t, NEW s \in ServerTable, Slots(t, s), NEW source \in Sources,
           NEW s2, s2 = pause(s, source)
    PROVE  Slots(t, s2) /\ s2.client_count = s.client_count
  <1>1. CASE Free(s, source)
    BY <1>1 DEF pause
  <1>2. CASE ~Free(s, source)
    <2>1. /\ s2.client_count = s.client_count /\ s2.socks = s.socks
          /\ s2.watched = s.watched \ (ListenersOf(source) \cap s.socks)
      BY <1>2 DEF pause, ServerTable
    <2>2. \A l \in ListenersOf(source) : l \notin s.watched
      BY <1>2 DEF ListenersOf, Slots
    <2>3. s2.watched = s.watched
      BY <2>1, <2>2
    <2> QED
      BY <2>1, <2>3 DEF Slots, Free
  <1> QED
    BY <1>1, <1>2
-----------------------------------------------------------------------------
(* The inductive invariant of the slots and the writers.                   *)

SlotInv ==
    /\ Slots(cm, srv)
    /\ Within(srv, batch)
    /\ Notified(dm)
    /\ Started(cm, dm)
    /\ BatchStarted

LEMMA InitSlots == Init => SlotInv
  <1> SUFFICES ASSUME Init PROVE SlotInv
    OBVIOUS
  <1>1. PICK s : s = [client_count |-> [x \in Sources |-> 0], socks |-> {}, watched |-> {},
                      serving |-> Sources]
    OBVIOUS
  <1>2. s \in ServerTable /\ srv = listen(s, Listeners)
    BY <1>1 DEF Init, ServerTable, NewServers
  <1>3. /\ srv.client_count = s.client_count /\ srv.socks = Listeners
        /\ srv.watched = {l \in Listeners : Free(s, ListenerOf[l])}
    BY <1>1, <1>2 DEF listen, ServerTable
  <1>4. \A x \in Sources : srv.client_count[x] = 0 /\ (Free(srv, x) <=> Free(s, x))
    BY <1>1, <1>3 DEF Free
  <1>5. Live(cm) = {} /\ cm.write_client = {} /\ Owners(dm) = {} /\ batch = {}
    BY DEF Init, NoClients, NoDownloads, Live, Owners, Known
  <1>6. Slots(cm, srv)
    <2>1. \A x \in Sources : ClientsAt(cm, x) = {}
      BY <1>5 DEF ClientsAt
    <2>2. \A l \in Listeners : l \in srv.watched <=> Free(srv, ListenerOf[l])
      BY <1>3, <1>4, SocketsAssumption
    <2> QED
      BY <1>3, <1>4, <2>1, <2>2, FS_EmptySet DEF Slots
  <1>7. Within(srv, batch)
    <2>1. \A x \in Sources : Pending(batch, x) = {}
      BY <1>5 DEF Pending
    <2>2. ASSUME NEW x \in Sources
          PROVE  srv.client_count[x] + Cardinality(Pending(batch, x))
                   <= MaxClients[x] + Cardinality(ListenersOf(x)) - 1
      <3>1. MaxClients[x] \in Nat \ {0} /\ Cardinality(ListenersOf(x)) \in Nat
        BY PendingFinite, SocketsAssumption
      <3>2. srv.client_count[x] = 0 /\ Cardinality(Pending(batch, x)) = 0
        BY <1>4, <2>1, FS_EmptySet
      <3> QED
        BY <3>1, <3>2
    <2> QED
      BY <2>2 DEF Within
  <1> QED
    BY <1>5, <1>6, <1>7 DEF SlotInv, Notified, Started, BatchStarted

LEMMA FewerWithin ==
    ASSUME NEW s \in ServerTable, NEW b, Within(s, b), NEW s2 \in ServerTable,
           NEW b2 \in SUBSET b,
           \A x \in Sources : s2.client_count[x] <= s.client_count[x]
    PROVE  Within(s2, b2)
  <1>1. ASSUME NEW x \in Sources
        PROVE  s2.client_count[x] + Cardinality(Pending(b2, x))
                 <= MaxClients[x] + Cardinality(ListenersOf(x)) - 1
    <2>1. /\ s.client_count[x] \in Int /\ s2.client_count[x] \in Int
          /\ MaxClients[x] \in Nat
      BY CountType
    <2>2. /\ Cardinality(ListenersOf(x)) \in Nat
          /\ Cardinality(Pending(b, x)) \in Nat /\ Cardinality(Pending(b2, x)) \in Nat
      BY PendingFinite
    <2>3. Cardinality(Pending(b2, x)) <= Cardinality(Pending(b, x))
      BY FewerPending
    <2>4. s.client_count[x] + Cardinality(Pending(b, x))
            <= MaxClients[x] + Cardinality(ListenersOf(x)) - 1
      BY DEF Within
    <2>5. s2.client_count[x] <= s.client_count[x]
      OBVIOUS
    <2> QED
      BY <2>1, <2>2, <2>3, <2>4, <2>5
  <1> QED
    BY <1>1 DEF Within

(* A handler that takes its event out of the batch.                        *)
LEMMA HandledKeeps ==
    ASSUME IInv, IInv', SlotInv, HandledOK, batch' \subseteq batch
    PROVE  SlotInv'
  <1>1. /\ cm \in ClientTable /\ srv \in ServerTable /\ srv' \in ServerTable
        /\ Slots(cm, srv) /\ Within(srv, batch)
    BY DEF IInv, Agree, ClientsOK, SlotInv
  <1>2. /\ Live(cm') \subseteq Live(cm) /\ Slots(cm', srv')
        /\ \A x \in Sources : srv'.client_count[x] <= srv.client_count[x]
    <2>1. CASE Live(cm') = Live(cm) /\ srv' = srv
      <3>1. \A x \in Sources : srv.client_count[x] \in Int
        BY <1>1, CountType
      <3> QED
        BY <1>1, <2>1, <3>1 DEF Slots, ClientsAt
    <2>2. ASSUME NEW c \in Clients, c \in Live(cm), Live(cm') = Live(cm) \ {c},
                 srv' = notifyClose(srv, SourceOf[c], 1)
          PROVE  /\ Live(cm') \subseteq Live(cm) /\ Slots(cm', srv')
                 /\ \A x \in Sources : srv'.client_count[x] <= srv.client_count[x]
      BY <1>1, <2>2, SlotFreed
    <2> QED
      BY <2>1, <2>2 DEF HandledOK, Moved
  <1>3. Within(srv', batch')
    BY <1>1, <1>2, FewerWithin
  <1>4. ASSUME NEW c \in Clients, Event("write_client", c) \in batch'
        PROVE  c \notin cm'.norequest /\ (c \in cm'.bysock => cm'.writer[c] # "new")
    <2>1. c \notin cm.norequest /\ (c \in cm.bysock => cm.writer[c] # "new")
      BY <1>4 DEF SlotInv, BatchStarted
    <2>2. c \in cm'.bysock => c \in cm.bysock
      BY <1>2, <2>1 DEF Live
    <2> QED
      BY <2>1, <2>2 DEF HandledOK, KeepsWriters
  <1>5. BatchStarted'
    BY <1>4 DEF BatchStarted
  <1> QED
    BY <1>2, <1>3, <1>5 DEF SlotInv, HandledOK

LEMMA PollKeeps ==
    ASSUME IInv, SlotInv, Poll
    PROVE  SlotInv'
  <1>1. PICK e \in Ready, f \in Ready : batch' = {e, f} /\ UNCHANGED <<cm, dm, srv>>
    BY DEF Poll
  <1>2. Within(srv, batch')
    <2>1. ASSUME NEW x \in Sources
          PROVE  srv.client_count[x] + Cardinality(Pending(batch', x))
                   <= MaxClients[x] + Cardinality(ListenersOf(x)) - 1
      <3>1. srv.client_count[x] \in Int /\ MaxClients[x] \in Nat
        BY CountType DEF IInv, Agree
      <3>2. /\ Cardinality(ListenersOf(x)) \in Nat
            /\ Cardinality(Pending(batch', x)) \in Nat
            /\ Cardinality(Pending(batch', x)) <= Cardinality(ListenersOf(x))
            /\ Cardinality(Pending(batch, x)) \in Nat
        BY PendingFinite
      <3>3. CASE Free(srv, x)
        <4>1. srv.client_count[x] < MaxClients[x]
          BY <3>3, CountType DEF IInv, Agree
        <4> QED
          BY <3>1, <3>2, <4>1
      <3>4. CASE ~Free(srv, x)
        <4>1. ASSUME NEW l \in ListenersOf(x) PROVE Event("accept", l) \notin Ready
          <5>1. l \notin srv.watched
            BY <3>4 DEF ListenersOf, SlotInv, Slots
          <5> QED
            BY <5>1 DEF Ready, Event, Redirector, Resolver
        <4>2. Pending(batch', x) = {}
          BY <1>1, <4>1 DEF Pending
        <4>3. Cardinality(Pending(batch', x)) = 0
          BY <4>2, FS_EmptySet
        <4>4. srv.client_count[x] + Cardinality(Pending(batch, x))
                <= MaxClients[x] + Cardinality(ListenersOf(x)) - 1
          BY DEF SlotInv, Within
        <4> QED
          BY <3>1, <3>2, <4>3, <4>4
      <3> QED
        BY <3>3, <3>4
    <2> QED
      BY <2>1 DEF Within
  <1>3. ASSUME NEW c \in Clients, Event("write_client", c) \in batch'
        PROVE  c \notin cm.norequest /\ cm.writer[c] # "new"
    <2>1. c \in cm.write_client
      BY <1>1, <1>3 DEF Ready, Event, Redirector, Resolver
    <2> QED
      BY <2>1 DEF IInv, Agree, ClientsOK, SlotInv, Started
  <1> QED
    BY <1>1, <1>2, <1>3 DEF SlotInv, BatchStarted

LEMMA AcceptKeeps ==
    ASSUME IInv, SlotInv, NEW l \in Listeners, acceptConnections(l)
    PROVE  SlotInv'
  <1>1. /\ cm \in ClientTable /\ ClientsOK(cm) /\ srv \in ServerTable
        /\ Owners(dm) \subseteq cm.bysock
        /\ Slots(cm, srv) /\ Within(srv, batch)
        /\ ListenerOf[l] \in Sources
    BY SocketsAssumption DEF IInv, Agree, ClientsOK, SlotInv
  <1>2. IInv' /\ dm' = dm
    BY AcceptOK DEF acceptConnections
  <1>3. batch' = batch \ {Event("accept", l)} /\ Event("accept", l) \in batch
    BY DEF acceptConnections, Handle
  <1>4. CASE srv' = pause(srv, ListenerOf[l]) /\ cm' = cm
    <2>1. Slots(cm, srv') /\ srv'.client_count = srv.client_count
      BY <1>1, <1>4, NoSlotTaken
    <2>2. srv' \in ServerTable /\ \A x \in Sources : srv.client_count[x] \in Int
      BY <1>1, <1>2, CountType DEF IInv, Agree
    <2>3. Within(srv', batch')
      BY <1>1, <1>3, <2>1, <2>2, FewerWithin
    <2>4. \A c \in Clients : Event("write_client", c) \in batch' =>
            c \notin cm.norequest /\ (c \in cm.bysock => cm.writer[c] # "new")
      BY <1>3 DEF SlotInv, BatchStarted
    <2> QED
      BY <1>2, <1>4, <2>1, <2>3, <2>4 DEF SlotInv, BatchStarted
  <1>5. ASSUME NEW c \in FreeClients, SourceOf[c] = ListenerOf[l],
               srv' = accepted(srv, SourceOf[c]),
               cm' \in {passthroughConnection(cm, c), httpConnection(cm, c)}
        PROVE  SlotInv'
    <2>1. c \in Clients /\ c \notin Live(cm) /\ ~InBatch(c)
      BY DEF FreeClients
    <2>2. /\ Live(cm') = Live(cm) \cup {c} /\ Writes({}, cm, cm')
          /\ cm'.bysock \subseteq cm.bysock \cup {c}
          /\ cm'.norequest \subseteq cm.norequest \cup {c}
          /\ ClientsOK(cm') /\ cm.bysock \subseteq cm'.bysock
      <3>1. CASE cm' = passthroughConnection(cm, c)
        <4>1. /\ cm'.norequest = cm.norequest /\ cm'.bysock = cm.bysock \cup {c}
          BY <1>1, <2>1, <3>1, PassthroughConnectionOK
        <4>2. Writes({}, cm, cm') /\ ClientsOK(cm')
          BY <1>1, <1>2, <3>1, ConnectionWrites DEF IInv, Agree
        <4> QED
          BY <4>1, <4>2 DEF Live
      <3>2. CASE cm' = httpConnection(cm, c)
        <4>1. /\ cm'.norequest = cm.norequest \cup {c} /\ cm'.bysock = cm.bysock
          BY <1>1, <2>1, <3>2, HttpConnectionOK
        <4>2. Writes({}, cm, cm') /\ ClientsOK(cm')
          BY <1>1, <1>2, <3>2, ConnectionWrites DEF IInv, Agree
        <4> QED
          BY <4>1, <4>2 DEF Live
      <3> QED
        BY <1>5, <3>1, <3>2
    <2>3. /\ Slots(cm', srv')
          /\ srv'.client_count[SourceOf[c]] = srv.client_count[SourceOf[c]] + 1
          /\ \A x \in Sources \ {SourceOf[c]} : srv'.client_count[x] = srv.client_count[x]
      BY <1>1, <1>5, <2>1, <2>2, SlotTaken
    <2>4. Within(srv', batch')
      <3>1. ASSUME NEW x \in Sources
            PROVE  srv'.client_count[x] + Cardinality(Pending(batch', x))
                     <= MaxClients[x] + Cardinality(ListenersOf(x)) - 1
        <4>1. /\ srv.client_count[x] \in Int /\ MaxClients[x] \in Nat
              /\ srv.client_count[x] + Cardinality(Pending(batch, x))
                   <= MaxClients[x] + Cardinality(ListenersOf(x)) - 1
          BY <1>1, CountType DEF Within
        <4>2. /\ Cardinality(ListenersOf(x)) \in Nat
              /\ Cardinality(Pending(batch', x)) \in Nat
              /\ Cardinality(Pending(batch, x)) \in Nat /\ IsFiniteSet(Pending(batch, x))
          BY PendingFinite
        <4>3. CASE x = SourceOf[c]
          <5>1. /\ Pending(batch', x) = Pending(batch, x) \ {l}
                /\ l \in Pending(batch, x)
            BY <1>3, <1>5, <4>3 DEF Pending, ListenersOf, Event
          <5>2. Cardinality(Pending(batch', x)) = Cardinality(Pending(batch, x)) - 1
            BY <4>2, <5>1, FS_RemoveElement
          <5>3. srv'.client_count[x] = srv.client_count[x] + 1
            BY <2>3, <4>3
          <5> QED
            BY <4>1, <4>2, <5>2, <5>3
        <4>4. CASE x # SourceOf[c]
          <5>1. batch' \in SUBSET batch /\ srv'.client_count[x] = srv.client_count[x]
            BY <1>3, <2>3, <4>4
          <5>2. Cardinality(Pending(batch', x)) <= Cardinality(Pending(batch, x))
            BY <5>1, FewerPending
          <5> QED
            BY <4>1, <4>2, <5>1, <5>2
        <4> QED
          BY <4>3, <4>4
      <3> QED
        BY <3>1 DEF Within
    <2>5. Started(cm', dm')
      <3>1. Owners(dm') \subseteq cm'.bysock /\ Owners(dm') \subseteq Owners(dm) \cup {}
        BY <1>1, <1>2, <2>2
      <3> QED
        BY <2>2, <3>1, StartedKept DEF SlotInv
    <2>6. ASSUME NEW k \in Clients, Event("write_client", k) \in batch'
          PROVE  k \notin cm'.norequest /\ (k \in cm'.bysock => cm'.writer[k] # "new")
      <3>1. k # c
        BY <1>3, <2>1, <2>6 DEF InBatch, Event
      <3>2. k \notin cm.norequest /\ (k \in cm.bysock => cm.writer[k] # "new")
        BY <1>3, <2>6 DEF SlotInv, BatchStarted
      <3> QED
        BY <2>2, <3>1, <3>2 DEF Writes
    <2> QED
      BY <1>2, <2>3, <2>4, <2>5, <2>6 DEF SlotInv, BatchStarted
  <1> QED
    BY <1>4, <1>5 DEF acceptConnections

(* Every step of the loop preserves it.                                    *)
LEMMA NextSlots == IInv /\ SlotInv /\ [Next]_vars => SlotInv'
  <1> SUFFICES ASSUME IInv, SlotInv, [Next]_vars PROVE SlotInv'
    OBVIOUS
  <1>0. Notified(dm) /\ Started(cm, dm) /\ BatchStarted /\ IInv'
    BY NextAgrees DEF SlotInv
  <1>1. CASE UNCHANGED vars
    BY <1>1 DEF vars, SlotInv, BatchStarted
  <1>2. CASE Poll
    BY <1>2, PollKeeps
  <1>3. ASSUME NEW l \in Listeners, acceptConnections(l) PROVE SlotInv'
    BY <1>3, AcceptKeeps
  <1>4. ASSUME NEW c \in Clients, incomingRequest(c) PROVE SlotInv'
    BY <1>0, <1>4, IncomingRequestMoves, HandledKeeps DEF incomingRequest, Handle
  <1>5. ASSUME NEW c \in Clients, incomingClientData(c) PROVE SlotInv'
    BY <1>0, <1>5, IncomingClientDataMoves, HandledKeeps DEF incomingClientData, Handle
  <1>6. ASSUME NEW c \in Clients, flushClientOutput(c) PROVE SlotInv'
    BY <1>0, <1>6, FlushClientOutputMoves, HandledKeeps DEF flushClientOutput, Handle
  <1>7. ASSUME NEW c \in Clients, expire(c) PROVE SlotInv'
    BY <1>0, <1>7, ExpireMoves, HandledKeeps DEF expire
  <1>8. ASSUME NEW d \in Downloads, completeWebConnection(d) PROVE SlotInv'
    BY <1>0, <1>8, CompleteWebConnectionMoves, HandledKeeps DEF completeWebConnection, Handle
  <1>9. ASSUME NEW d \in Downloads, incomingWebData(d) PROVE SlotInv'
    BY <1>0, <1>9, IncomingWebDataMoves, HandledKeeps DEF incomingWebData, Handle
  <1>10. ASSUME NEW d \in Downloads, flushWebOutput(d) PROVE SlotInv'
    BY <1>0, <1>10, FlushWebOutputMoves, HandledKeeps DEF flushWebOutput, Handle
  <1>11. CASE readRedirector
    BY <1>0, <1>11, ReadRedirectorMoves, HandledKeeps DEF readRedirector, Handle
  <1>12. CASE readResolver
    BY <1>0, <1>12, ReadResolverMoves, HandledKeeps DEF readResolver, Handle
  <1>13. CASE timeoutResolver
    BY <1>0, <1>13, TimeoutResolverMoves, HandledKeeps DEF timeoutResolver
  <1>14. CASE unboundRequest
    BY <1>0, <1>14, NothingMoves, HandledKeeps DEF unboundRequest
  <1>15. CASE gone
    BY <1>1, <1>15 DEF gone
  <1> QED
    BY <1>1, <1>2, <1>3, <1>4, <1>5, <1>6, <1>7, <1>8, <1>9, <1>10, <1>11, <1>12, <1>13,
       <1>14, <1>15 DEF Next

LEMMA SlotInvParts ==
    IInv /\ SlotInv => SlotAccounting /\ AtMostMaxClients /\ StartedWriter
  <1> SUFFICES ASSUME IInv, SlotInv PROVE SlotAccounting /\ AtMostMaxClients /\ StartedWriter
    OBVIOUS
  <1>1. SlotAccounting
    <2>1. \A x \in Sources : srv.client_count[x]
                               = Cardinality({c \in Live(cm) : SourceOf[c] = x})
      BY DEF SlotInv, Slots, ClientsAt
    <2>2. \A x \in Sources : \A l \in ListenersOf(x) :
            l \in srv.watched <=> srv.client_count[x] < MaxClients[x]
      BY DEF SlotInv, Slots, ListenersOf, Free
    <2> QED
      BY <2>1, <2>2 DEF SlotAccounting
  <1>2. AtMostMaxClients
    <2>1. ASSUME NEW x \in Sources
          PROVE  srv.client_count[x] <= MaxClients[x] + Cardinality(ListenersOf(x)) - 1
      <3>1. srv.client_count[x] \in Int /\ MaxClients[x] \in Nat
        BY CountType DEF IInv, Agree
      <3>2. /\ Cardinality(ListenersOf(x)) \in Nat
            /\ Cardinality(Pending(batch, x)) \in Nat
        BY PendingFinite
      <3>3. srv.client_count[x] + Cardinality(Pending(batch, x))
              <= MaxClients[x] + Cardinality(ListenersOf(x)) - 1
        BY DEF SlotInv, Within
      <3> QED
        BY <3>1, <3>2, <3>3
    <2> QED
      BY <2>1 DEF AtMostMaxClients
  <1>3. StartedWriter
    <2>1. ASSUME NEW c \in Clients, dm.byclient[c] # NoDownload
          PROVE  c \in Owners(dm)
      BY <2>1 DEF IInv, Agree, DownloadsOK, Owners
    <2> QED
      BY <2>1 DEF StartedWriter, SlotInv, Started
  <1> QED
    BY <1>1, <1>2, <1>3

LEMMA AlwaysSlots == Spec => [](IInv /\ SlotInv)
  <1>1. Init => IInv /\ SlotInv
    BY InitAgrees, InitSlots
  <1>2. IInv /\ SlotInv /\ [Next]_vars => (IInv /\ SlotInv)'
    BY NextAgrees, NextSlots
  <1> QED
    BY <1>1, <1>2, PTL DEF Spec

(* Every client has one slot of its server, from accept() until a handler  *)
(* closes it, and the listening sockets are watched exactly while there    *)
(* are slots left.                                                         *)
THEOREM SlotsAccounted == Spec => []SlotAccounting
  BY AlwaysSlots, SlotInvParts, PTL

(* A server with one listening socket never has more clients than its      *)
(* configuration allows, and one with several exceeds it by the accepts of *)
(* one batch at most.                                                      *)
THEOREM MaxClientsKept == Spec => []AtMostMaxClients
  BY AlwaysSlots, SlotInvParts, PTL

(* The writing coroutine of a client is started before anything is sent to *)
(* it: by a download, by a decision, or because poll() found it writable.  *)
THEOREM WritersStarted == Spec => []StartedWriter
  BY AlwaysSlots, SlotInvParts, PTL
-----------------------------------------------------------------------------
\* Why a client is not read, who may write to it, and that a client that is gone has no
\* writer.
Waits(t, u, n, c) ==
    /\ c \in t.read_client.corked =>
         \/ n > 0
         \/ u.byclient[c] # NoDownload /\ u.byclient[c] \in u.buffered
         \/ t.writer[c] = "finished"
    /\ u.byclient[c] # NoDownload => t.writer[c] = "open"
    /\ c \notin t.bysock => t.writer[c] = "new"

\* Client c, before its first answer.
Untouched(t, u, c) ==
    /\ t.writer[c] = "new" /\ t.buffered[c] = 0
    /\ c \notin t.w_buffer /\ u.byclient[c] = NoDownload

\* The output of client c and the cork of its download d are in step.
InStep(t, u, c, d) ==
    /\ Stepped(t, c)
    /\ d \in u.opening => c \notin t.w_buffer
    /\ d \in u.established => (c \in t.w_buffer <=> d \in u.read_download.corked)

\* A client that gets one answer.
First(t, u, n, c) ==
    /\ n <= 1
    /\ c \in t.norequest => n = 0 /\ t.buffered[c] = 0
    /\ c \in t.bysock /\ n > 0 => Untouched(t, u, c)
    /\ u.byclient[c] # NoDownload => InStep(t, u, c, u.byclient[c])

\* A download that poll() found readable was not opening nor, for such a client, corked.
Unread(u, b, c) ==
    u.byclient[c] # NoDownload /\ Event("read_download", u.byclient[c]) \in b =>
      /\ u.byclient[c] \notin u.opening
      /\ ~Reusing(c) => u.byclient[c] \notin u.read_download.corked

\* A client that waits for its answer before it asks again.  What is left to send it while
\* its question is open came from a server that went on sending, and is held back.
Patient(t, u, n, b, c) ==
    /\ n <= 1
    /\ c \in t.norequest => n = 0 /\ t.buffered[c] = 0
    /\ c \in t.bysock => OutputKept(t, c)
    /\ c \in t.bysock /\ n > 0 =>
         /\ t.writer[c] \in {"new", "open"}
         /\ c \in t.w_buffer => /\ u.byclient[c] # NoDownload
                                /\ u.byclient[c] \in u.established
                                /\ u.byclient[c] \in u.read_download.corked
                                /\ Event("read_download", u.byclient[c]) \notin b

\* When the output of a client is watched.
Output(t, u, n, b, c) ==
    /\ SourceOf[c] \in OneShot => NotIdle(t, c)
    /\ c \in Waiting => Patient(t, u, n, b, c)

\* What is between a client and its server, with n questions that are not answered.
RelayOK(t, u, n, b, c) ==
    /\ Waits(t, u, n, c)
    /\ ~Reusing(c) => First(t, u, n, c)
    /\ Unread(u, b, c)
    /\ Output(t, u, n, b, c)

RelayInv == \A c \in Clients : RelayOK(cm, dm, Outstanding(c), batch, c)

\* The others keep what holds of them, and a batch only shrinks.
LEMMA OthersRelay ==
    ASSUME NEW c, NEW t, NEW t2, Spares(c, t, t2), NEW u, NEW u2, SparesDownloads(c, u, u2),
           NEW k \in Clients \ {c}, NEW n, NEW b, NEW b2, b2 \subseteq b,
           RelayOK(t, u, n, b, k)
    PROVE  RelayOK(t2, u2, n, b2, k)
  <1>1. /\ k \in t2.norequest <=> k \in t.norequest
        /\ k \in t2.bysock <=> k \in t.bysock
        /\ k \in t2.read_client.corked <=> k \in t.read_client.corked
        /\ k \in t2.write_client <=> k \in t.write_client
        /\ k \in t2.w_buffer <=> k \in t.w_buffer
        /\ t2.buffered[k] = t.buffered[k] /\ t2.writer[k] = t.writer[k]
    BY DEF Spares
  <1>2. /\ u2.byclient[k] = u.byclient[k]
        /\ u.byclient[k] # NoDownload =>
             /\ SameReading(u.byclient[k], u, u2)
             /\ u.byclient[k] \in u2.buffered <=> u.byclient[k] \in u.buffered
    BY DEF SparesDownloads
  <1>3. Waits(t2, u2, n, k)
    BY <1>1, <1>2 DEF RelayOK, Waits
  <1>4. First(t, u, n, k) => First(t2, u2, n, k)
    BY <1>1, <1>2 DEF First, Untouched, InStep, Stepped, SameReading
  <1>5. Unread(u2, b2, k)
    BY <1>2 DEF RelayOK, Unread, SameReading
  <1>6. Output(t2, u2, n, b2, k)
    BY <1>1, <1>2 DEF RelayOK, Output, NotIdle, Patient, OutputKept, SameReading
  <1> QED BY <1>3, <1>4, <1>5, <1>6 DEF RelayOK

\* A step that concerns client c and its download alone.
LEMMA RelayStep ==
    ASSUME RelayInv, NEW c \in Clients, Spares(c, cm, cm'), SparesDownloads(c, dm, dm'),
           \A k \in Clients \ {c} : Outstanding(k)' = Outstanding(k), batch' \subseteq batch,
           RelayOK(cm', dm', Outstanding(c)', batch', c)
    PROVE  RelayInv'
  <1>1. ASSUME NEW k \in Clients, k # c
        PROVE  RelayOK(cm', dm', Outstanding(k)', batch', k)
    <2>1. RelayOK(cm, dm, Outstanding(k), batch, k) /\ Outstanding(k)' = Outstanding(k)
      BY <1>1 DEF RelayInv
    <2> QED BY <1>1, <2>1, OthersRelay
  <1> QED BY <1>1 DEF RelayInv

\* A step that concerns nobody.
LEMMA NothingRelay ==
    ASSUME RelayInv, cm' = cm, dm' = dm, batch' \subseteq batch,
           \A k \in Clients : Outstanding(k)' = Outstanding(k)
    PROVE  RelayInv'
  <1>1. ASSUME NEW c \in Clients
        PROVE  RelayOK(cm', dm', Outstanding(c)', batch', c)
    BY DEF RelayInv, RelayOK, Unread, Output, Patient
  <1> QED BY <1>1 DEF RelayInv

\* A client that was closed with its download.
LEMMA GoneRelay ==
    ASSUME NEW t, NEW u, NEW n, NEW b, NEW c, Gone(t, c), u.byclient[c] = NoDownload,
           ~Reusing(c) \/ c \in Waiting => n <= 1
    PROVE  RelayOK(t, u, n, b, c)
  BY DEF Gone, RelayOK, Waits, First, Unread, Output, NotIdle, Patient

\* Such a client has one question open at most.
LEMMA OneAtMost ==
    ASSUME NEW t, NEW u, NEW n, NEW b, NEW c, RelayOK(t, u, n, b, c)
    PROVE  ~Reusing(c) \/ c \in Waiting => n <= 1
  BY DEF RelayOK, First, Output, Patient

\* A client that is not in bysock has no download.
LEMMA NotActive ==
    ASSUME NEW u, DownloadsOK(u), NEW t, Owners(u) \subseteq t.bysock,
           NEW c \in Clients, c \notin t.bysock
    PROVE  u.byclient[c] = NoDownload
  BY DEF DownloadsOK, Owners

\* Questions are counted.
LEMMA Counted ==
    ASSUME IInv, NEW c \in Clients
    PROVE  Outstanding(c) \in Nat
  BY DEF IInv, Agree, Outstanding

\* What does not touch the output of a client.
LEMMA SameOutputKeeps ==
    ASSUME NEW t, NEW u, NEW n, NEW b, NEW c, Output(t, u, n, b, c),
           NEW t2, SameOutput(c, t, t2), NEW u2, u2.byclient[c] = u.byclient[c],
           u.byclient[c] # NoDownload => SameReading(u.byclient[c], u, u2),
           NEW b2, b2 \subseteq b
    PROVE  Output(t2, u2, n, b2, c)
  BY DEF Output, NotIdle, Patient, OutputKept, SameOutput, SameReading

\* A write to the server of client c, which is corked or uncorked with it.
LEMMA ServerWritten ==
    ASSUME NEW t, ClientsOK(t), NEW u, NEW n, NEW b, NEW b2, b2 \subseteq b,
           NEW c, RelayOK(t, u, n, b, c), NEW s, Buffers(c, u, s),
           NEW t2, t2 = backpressure(t, c, s)
    PROVE  RelayOK(t2, s.dm, n, b2, c) /\ Spares(c, t, t2)
  <1>1. Spares(c, t, t2) /\ SameOutput(c, t, t2)
    <2>1. CASE t2 = t
      BY <2>1, SparesAll
    <2>2. CASE t2 \in {corkUpload(t, c), uncorkUpload(t, c)}
      BY <2>2, CorkSays
    <2> QED BY <2>1, <2>2 DEF backpressure
  <1>2. c \in t2.read_client.corked =>
          (s.change /\ s.status) \/ (~s.change /\ c \in t.read_client.corked)
    BY CorkSays DEF backpressure
  <1>4. Waits(t2, s.dm, n, c)
    BY <1>1, <1>2 DEF RelayOK, Waits, Buffers, SameOutput
  <1>5. First(t, u, n, c) => First(t2, s.dm, n, c)
    BY <1>1 DEF First, Untouched, InStep, Stepped, Buffers, SameReading, SameOutput
  <1>6. Unread(s.dm, b2, c)
    BY DEF RelayOK, Unread, Buffers, SameReading
  <1>7. Output(t2, s.dm, n, b2, c)
    BY <1>1, SameOutputKeeps DEF RelayOK, Buffers
  <1> QED BY <1>1, <1>4, <1>5, <1>6, <1>7 DEF RelayOK
-----------------------------------------------------------------------------
\* A handler takes its event out of the batch.
LEMMA HandledBatch ==
    ASSUME NEW e, Handle(e)
    PROVE  batch' \subseteq batch /\ e \in batch
  BY DEF Handle

\* One lemma per handler.  A client that is accepted has no writer and no download.
LEMMA AcceptRelay ==
    ASSUME IInv, RelayInv, NEW l \in Listeners, acceptConnections(l)
    PROVE  RelayInv'
  <1>1. /\ ClientsOK(cm) /\ DownloadsOK(dm) /\ Owners(dm) \subseteq cm.bysock
        /\ asked \in [Clients -> Nat] /\ resolving \in [Clients -> Nat]
    BY DEF IInv, Agree
  <1>2. batch' \subseteq batch /\ dm' = dm /\ resolving' = resolving
    BY HandledBatch DEF acceptConnections
  <1>3. CASE UNCHANGED <<cm, asked>>
    BY <1>2, <1>3, NothingRelay DEF Outstanding
  <1>4. ASSUME NEW c \in FreeClients,
               \/ /\ SourceOf[c] = "passthrough" /\ cm' = passthroughConnection(cm, c)
                  /\ asked' = [asked EXCEPT ![c] = @ + 1]
               \/ cm' = httpConnection(cm, c) /\ asked' = asked
        PROVE  RelayInv'
    <2>1. /\ c \in Clients /\ c \notin Live(cm) /\ asked[c] = 0 /\ resolving[c] = 0
          /\ c \notin cm.bysock /\ cm.buffered[c] = 0
      BY <1>1 DEF FreeClients, Outstanding, Live
    <2>2. dm.byclient[c] = NoDownload
      BY <1>1, <2>1, NotActive
    <2>3. cm.writer[c] = "new"
      BY <2>1 DEF RelayInv, RelayOK, Waits
    <2>4. /\ Spares(c, cm, cm')
          /\ c \notin cm'.read_client.corked /\ c \notin cm'.w_buffer
          /\ cm'.buffered[c] = 0 /\ cm'.writer[c] = "new"
          /\ cm' = passthroughConnection(cm, c) => c \notin cm'.norequest
          /\ cm' = httpConnection(cm, c) => c \notin cm'.bysock
      BY <1>1, <1>4, <2>1, <2>3, ConnectionSays
    <2>5. /\ \A k \in Clients \ {c} : asked'[k] = asked[k]
          /\ asked'[c] \in {0, 1}
          /\ asked'[c] = 1 => SourceOf[c] = "passthrough" /\ cm' = passthroughConnection(cm, c)
          /\ SourceOf[c] = "passthrough" \/ cm' = httpConnection(cm, c)
          /\ cm' = passthroughConnection(cm, c) \/ cm' = httpConnection(cm, c)
      BY <1>1, <1>4, <2>1
    <2>6. Outstanding(c)' \in {0, 1} /\ Outstanding(c)' = asked'[c]
      BY <1>2, <2>1, <2>5 DEF Outstanding
    <2>7. c \notin cm'.write_client
      BY <2>4, AcceptOK DEF IInv, Agree, ClientsOK
    <2>8. Output(cm', dm', Outstanding(c)', batch', c)
      BY <2>4, <2>5, <2>6, <2>7 DEF Output, NotIdle, Patient, Waiting, OneShot
    <2>9. RelayOK(cm', dm', Outstanding(c)', batch', c)
      BY <1>2, <2>2, <2>4, <2>5, <2>6, <2>8 DEF RelayOK, Waits, First, Untouched, Unread
    <2>10. SparesDownloads(c, dm, dm')
      BY <1>2, SparesDownloadsAll
    <2> QED
      BY <1>2, <2>1, <2>4, <2>5, <2>9, <2>10, RelayStep DEF Outstanding
  <1> QED
    BY <1>3, <1>4 DEF acceptConnections

\* A client is corked while its request awaits an answer.
LEMMA IncomingRequestRelay ==
    ASSUME IInv, RelayInv, NEW c \in Clients, incomingRequest(c)
    PROVE  RelayInv'
  <1>1. /\ ClientsOK(cm) /\ DownloadsOK(dm) /\ Owners(dm) \subseteq cm.bysock
        /\ asked \in [Clients -> Nat] /\ resolving \in [Clients -> Nat]
    BY DEF IInv, Agree
  <1>2. batch' \subseteq batch /\ dm' = dm /\ resolving' = resolving
    BY HandledBatch DEF incomingRequest
  <1>3. PICK rd :
          /\ cm' = readRequest(cm, c, rd)
          /\ asked' = IF c \in cm.norequest /\ rd.got = "request"
                      THEN [asked EXCEPT ![c] = @ + 1] ELSE asked
    BY DEF incomingRequest
  <1>4. /\ Spares(c, cm, cm')
        /\ c \notin cm.norequest => cm' = cm
        /\ c \in cm.norequest /\ rd.got = "closed" => Gone(cm', c)
        /\ c \in cm.norequest /\ rd.got # "closed" =>
             /\ c \in cm'.norequest <=> rd.got # "request"
             /\ c \in cm'.bysock <=> rd.got = "request"
             /\ c \in cm'.read_client.corked => rd.got = "request"
             /\ c \notin cm'.w_buffer
             /\ cm'.buffered[c] = cm.buffered[c] /\ cm'.writer[c] = cm.writer[c]
    BY <1>1, <1>3, ReadRequestSays
  <1>5. CASE c \notin cm.norequest
    BY <1>2, <1>3, <1>4, <1>5, NothingRelay DEF Outstanding
  <1>6. CASE c \in cm.norequest
    <2>1. c \notin cm.bysock /\ dm.byclient[c] = NoDownload
      BY <1>1, <1>6, NotActive DEF ClientsOK
    <2>2. cm.writer[c] = "new"
      BY <2>1 DEF RelayInv, RelayOK, Waits
    <2>3. ~Reusing(c) \/ c \in Waiting => Outstanding(c) = 0 /\ cm.buffered[c] = 0
      BY <1>6 DEF RelayInv, RelayOK, First, Output, Patient
    <2>4. /\ \A k \in Clients \ {c} : asked'[k] = asked[k]
          /\ asked'[c] = IF rd.got = "request" THEN asked[c] + 1 ELSE asked[c]
      BY <1>1, <1>3, <1>6
    <2>5. /\ Outstanding(c) \in Nat
          /\ Outstanding(c)' = IF rd.got = "request" THEN Outstanding(c) + 1 ELSE Outstanding(c)
      BY <1>1, <1>2, <2>4 DEF Outstanding
    <2>6. RelayOK(cm', dm', Outstanding(c)', batch', c)
      <3>1. CASE rd.got = "closed"
        BY <1>2, <1>4, <1>6, <2>1, <2>3, <2>5, <3>1, GoneRelay
      <3>2. CASE rd.got # "closed"
        <4>1. Waits(cm', dm', Outstanding(c)', c)
          BY <1>2, <1>4, <1>6, <2>1, <2>2, <2>5, <3>2 DEF Waits
        <4>2. ~Reusing(c) => First(cm', dm', Outstanding(c)', c)
          BY <1>2, <1>4, <1>6, <2>1, <2>2, <2>3, <2>5, <3>2 DEF First, Untouched
        <4>3. Unread(dm', batch', c)
          BY <1>2, <2>1 DEF Unread
        <4>4. ~Reusing(c) \/ c \in Waiting => c \notin cm'.write_client
          BY <1>4, <1>6, <2>3, <3>2, IncomingRequestOK DEF IInv, Agree, ClientsOK
        <4>5. SourceOf[c] \in OneShot => ~Reusing(c)
          BY DEF Reusing
        <4>6. Output(cm', dm', Outstanding(c)', batch', c)
          BY <1>4, <1>6, <2>2, <2>3, <2>5, <3>2, <4>4, <4>5
             DEF Output, NotIdle, Patient, OutputKept
        <4> QED BY <4>1, <4>2, <4>3, <4>6 DEF RelayOK
      <3> QED BY <3>1, <3>2
    <2>7. SparesDownloads(c, dm, dm')
      BY <1>2, SparesDownloadsAll
    <2> QED
      BY <1>2, <1>4, <2>4, <2>6, <2>7, RelayStep DEF Outstanding
  <1> QED
    BY <1>5, <1>6

\* A client that did not send its request in time is gone.
LEMMA ExpireRelay ==
    ASSUME IInv, RelayInv, NEW c \in Clients, expire(c)
    PROVE  RelayInv'
  <1>1. ClientsOK(cm) /\ DownloadsOK(dm) /\ Owners(dm) \subseteq cm.bysock
    BY DEF IInv, Agree
  <1>2. /\ c \in cm.norequest /\ cm' = cleanup(cm, c)
        /\ dm' = dm /\ asked' = asked /\ resolving' = resolving /\ batch' = batch
    BY DEF expire
  <1>3. Spares(c, cm, cm') /\ Gone(cm', c)
    BY <1>1, <1>2, CleanupSays
  <1>4. dm.byclient[c] = NoDownload
    BY <1>1, <1>2, NotActive DEF ClientsOK
  <1>5. /\ \A k : Outstanding(k)' = Outstanding(k)
        /\ ~Reusing(c) \/ c \in Waiting => Outstanding(c)' <= 1
    BY <1>2, OneAtMost DEF Outstanding, RelayInv
  <1>6. RelayOK(cm', dm', Outstanding(c)', batch', c)
    BY <1>2, <1>3, <1>4, <1>5, GoneRelay
  <1>7. SparesDownloads(c, dm, dm')
    BY <1>2, SparesDownloadsAll
  <1> QED
    BY <1>2, <1>3, <1>5, <1>6, <1>7, RelayStep

\* A server that has taken the rest lets its client be read again.
LEMMA FlushWebOutputRelay ==
    ASSUME IInv, RelayInv, NEW d \in Downloads, flushWebOutput(d)
    PROVE  RelayInv'
  <1>1. ClientsOK(cm) /\ DownloadsOK(dm)
    BY DEF IInv, Agree
  <1>2. PICK sent, s :
          /\ s = sendSocketData(dm, d, sent)
          /\ dm' = s.dm /\ cm' = backpressure(cm, dm.client[d], s)
    BY DEF flushWebOutput
  <1>3. batch' \subseteq batch /\ \A k : Outstanding(k)' = Outstanding(k)
    BY HandledBatch DEF flushWebOutput, Outstanding
  <1>4. CASE d \notin dm.established
    <2>1. cm' = cm /\ dm' = dm
      BY <1>2, <1>4 DEF sendSocketData, Unchanged, backpressure
    <2> QED BY <1>3, <2>1, NothingRelay
  <1>5. CASE d \in dm.established
    <2>1. PICK c : c = dm.client[d] /\ c \in Clients
      BY <1>1, <1>5 DEF DownloadsOK, Known
    <2>2. Buffers(c, dm, s)
      BY <1>1, <1>2, <1>5, <2>1, SendSocketDataSays
    <2>3. RelayOK(cm, dm, Outstanding(c), batch, c)
      BY <2>1 DEF RelayInv
    <2>4. RelayOK(cm', dm', Outstanding(c), batch', c) /\ Spares(c, cm, cm')
      BY <1>1, <1>2, <1>3, <2>1, <2>2, <2>3, ServerWritten
    <2> QED BY <1>2, <1>3, <2>1, <2>2, <2>4, RelayStep DEF Buffers
  <1> QED BY <1>4, <1>5

\* What a client sends goes to its server, or is a further request.
LEMMA IncomingClientDataRelay ==
    ASSUME IInv, RelayInv, NEW c \in Clients, incomingClientData(c)
    PROVE  RelayInv'
  <1>1. /\ asked \in [Clients -> Nat] /\ resolving \in [Clients -> Nat]
        /\ ClientsOK(cm) /\ DownloadsOK(dm) /\ Owners(dm) \subseteq cm.bysock
        /\ cm.reader[c] \in ReaderModes
        /\ ClientOK(cm, c, asked[c], resolving[c])
    BY TypesOf DEF IInv, Agree, ClientsOK
  <1>2. PICK rd \in PlainReads(cm, c), sent \in SendResults :
         /\ rd.got = "request" => MaySend(c)
         /\ LET r     == readData(cm, c, rd)
                known == c \in cm.bysock
                s     == sendClientData(dm, c, sent)
            IN  CASE ~known -> UNCHANGED <<cm, dm, srv, asked>>
                  [] known /\ rd.got = "closed" ->
                       /\ cm' = r
                       /\ dm' = endClientDownload(dm, c)
                       /\ srv' = closeClient(c)
                       /\ UNCHANGED asked
                  [] known /\ rd.got = "request" ->
                       /\ cm' = r
                       /\ asked' = [asked EXCEPT ![c] = @ + 1]
                       /\ UNCHANGED <<dm, srv>>
                  [] known /\ rd.got = "data" ->
                       /\ dm' = s.dm
                       /\ cm' = backpressure(r, c, s)
                       /\ UNCHANGED <<srv, asked>>
                  [] known /\ rd.got = "nothing" ->
                       /\ cm' = r
                       /\ UNCHANGED <<dm, srv, asked>>
    BY DEF incomingClientData
  <1>3. batch' \subseteq batch /\ resolving' = resolving
    BY HandledBatch DEF incomingClientData
  <1>4. PICK r, s : r = readData(cm, c, rd) /\ s = sendClientData(dm, c, sent)
    OBVIOUS
  <1>5. RelayOK(cm, dm, Outstanding(c), batch, c) /\ Outstanding(c) \in Nat
    BY Counted DEF RelayInv
  <1>6. CASE c \notin cm.bysock
    <2>1. cm' = cm /\ dm' = dm /\ asked' = asked
      BY <1>2, <1>6
    <2> QED BY <1>3, <2>1, NothingRelay DEF Outstanding
  <1>7. CASE c \in cm.bysock
    <2> DEFINE wanted == IF SourceOf[c] = "icap" THEN "refuse" ELSE "request"
               mode   == NextMode(c, cm.reader[c], wanted)
    <2>1. wanted \in ReaderModes /\ wanted # "body"
      BY DEF ReaderModes
    <2> HIDE DEF wanted
    <2>2. /\ mode \in ReaderModes
          /\ SourceOf[c] \in OneShot => mode \notin {"request", "body"}
      BY <1>1, <1>7, <2>1, NextModeOK DEF ClientOK, OneShot
    <2>3. rd \in ReadResults(c, mode)
      BY DEF PlainReads, wanted
    <2> HIDE DEF mode
    <2>4. rd \in Reads /\ (SourceOf[c] \in OneShot => rd.got # "request")
      BY <2>2, <2>3, ReadResultsOK
    <2>5. /\ Spares(c, cm, r)
          /\ rd.got = "closed" => Gone(r, c)
          /\ rd.got # "closed" => SameOutput(c, cm, r)
          /\ rd.got \in {"data", "nothing"} => SameCork(c, cm, r)
      BY <1>1, <1>4, <1>7, ReadDataSays
    <2>6. CASE rd.got = "closed"
      <3>1. cm' = r /\ dm' = endClientDownload(dm, c) /\ asked' = asked
        BY <1>2, <1>4, <1>7, <2>6
      <3>2. SparesDownloads(c, dm, dm') /\ dm'.byclient[c] = NoDownload
        BY <1>1, <3>1, EndClientDownloadSays
      <3>3. \A k : Outstanding(k)' = Outstanding(k)
        BY <1>3, <3>1 DEF Outstanding
      <3>4. RelayOK(cm', dm', Outstanding(c)', batch', c)
        BY <1>5, <2>5, <2>6, <3>1, <3>2, <3>3, GoneRelay, OneAtMost
      <3> QED BY <1>3, <2>5, <3>1, <3>2, <3>3, <3>4, RelayStep
    <2>7. CASE rd.got = "request"
      <3>1. cm' = r /\ dm' = dm /\ asked' = [asked EXCEPT ![c] = @ + 1]
        BY <1>2, <1>4, <1>7, <2>7
      <3>2. Reusing(c)
        BY <1>2, <2>4, <2>7 DEF MaySend, Reusing
      <3>3. /\ \A k \in Clients \ {c} : Outstanding(k)' = Outstanding(k)
            /\ Outstanding(c)' > 0
        BY <1>1, <1>3, <3>1 DEF Outstanding
      <3>4. Waits(cm', dm', Outstanding(c)', c)
        BY <1>5, <2>5, <2>7, <3>1, <3>3 DEF RelayOK, Waits, SameOutput
      <3>5. Unread(dm', batch', c)
        BY <1>3, <1>5, <3>1 DEF RelayOK, Unread
      <3>6. SparesDownloads(c, dm, dm')
        BY <3>1, SparesDownloadsAll
      <3>7. ASSUME c \in Waiting
            PROVE  Patient(cm', dm', Outstanding(c)', batch', c)
        <4>1. /\ Outstanding(c) = 0 /\ c \notin cm.w_buffer /\ cm.writer[c] = "open"
          BY <1>2, <2>7, <3>2, <3>7, RequestsAssumption DEF MaySend, Waiting, Reusing
        <4>2. Outstanding(c)' = 1
          BY <1>1, <1>3, <3>1, <4>1 DEF Outstanding
        <4>3. OutputKept(cm, c) /\ c \notin cm.norequest
          BY <1>1, <1>5, <1>7, <3>7 DEF RelayOK, Output, Patient, ClientsOK
        <4> QED BY <2>5, <2>7, <3>1, <4>1, <4>2, <4>3 DEF Patient, OutputKept, SameOutput
      <3>8. Output(cm', dm', Outstanding(c)', batch', c)
        BY <2>4, <2>7, <3>7 DEF Output
      <3> QED
        BY <1>3, <2>5, <3>1, <3>2, <3>3, <3>4, <3>5, <3>6, <3>8, RelayStep DEF RelayOK
    <2>8. CASE rd.got \in {"data", "nothing"}
      <3>1. asked' = asked /\ \A k : Outstanding(k)' = Outstanding(k)
        BY <1>2, <1>3, <1>7, <2>8 DEF Outstanding
      <3>2. RelayOK(r, dm, Outstanding(c), batch, c)
        <4>1. /\ Waits(r, dm, Outstanding(c), c)
              /\ ~Reusing(c) => First(r, dm, Outstanding(c), c)
          BY <1>5, <2>5, <2>8 DEF RelayOK, Waits, First, Untouched, InStep, Stepped,
             SameOutput, SameCork
        <4>2. Output(r, dm, Outstanding(c), batch, c)
          BY <1>5, <2>5, <2>8, SameOutputKeeps DEF RelayOK, SameReading
        <4> QED BY <1>5, <4>1, <4>2 DEF RelayOK
      <3>3. CASE rd.got = "nothing"
        <4>1. cm' = r /\ dm' = dm
          BY <1>2, <1>4, <1>7, <3>3
        <4>2. RelayOK(cm', dm', Outstanding(c)', batch', c)
          BY <1>3, <3>1, <3>2, <4>1 DEF RelayOK, Unread, Output, Patient
        <4> QED BY <1>3, <2>5, <3>1, <4>1, <4>2, SparesDownloadsAll, RelayStep
      <3>4. CASE rd.got = "data"
        <4>1. cm' = backpressure(r, c, s) /\ dm' = s.dm
          BY <1>2, <1>4, <1>7, <3>4
        <4>2. Buffers(c, dm, s)
          BY <1>1, <1>4, SendClientDataSays
        <4>3. ClientsOK(r)
          BY <1>1, <1>4, <2>4, ReadDataOK
        <4>4. RelayOK(cm', dm', Outstanding(c), batch', c) /\ Spares(c, r, cm')
          BY <1>3, <3>2, <4>1, <4>2, <4>3, ServerWritten
        <4>5. Spares(c, cm, cm')
          BY <2>5, <4>4, SparesTwice
        <4> QED BY <1>3, <3>1, <4>1, <4>2, <4>4, <4>5, RelayStep DEF Buffers
      <3> QED BY <2>8, <3>3, <3>4
    <2> QED BY <2>4, <2>6, <2>7, <2>8 DEF Reads
  <1> QED BY <1>6, <1>7
-----------------------------------------------------------------------------
\* A client whose output and whose download are in step, and that has one answer to get.
LEMMA InStepOf ==
    ASSUME NEW t, ClientsOK(t), NEW u, NEW n, NEW b, NEW c \in Clients,
           RelayOK(t, u, n, b, c), ~Reusing(c)
    PROVE  /\ (n > 0 \/ u.byclient[c] # NoDownload) /\ c \in t.bysock => Stepped(t, c)
           /\ n > 0 /\ c \in t.bysock => Untouched(t, u, c)
  <1>1. First(t, u, n, c)
    BY DEF RelayOK
  <1>2. c \in t.write_client => t.buffered[c] > 0
    BY DEF ClientsOK
  <1> QED BY <1>1, <1>2 DEF First, Untouched, InStep, Stepped

\* A client that has taken the rest lets its server be read again.
LEMMA FlushClientOutputRelay ==
    ASSUME IInv, RelayInv, NEW c \in Clients, flushClientOutput(c)
    PROVE  RelayInv'
  <1>1. /\ ClientsOK(cm) /\ DownloadsOK(dm) /\ Owners(dm) \subseteq cm.bysock
    BY DEF IInv, Agree
  <1>2. PICK sent \in SendResults :
         LET t == sendData(cm, c, "flush", sent)
         IN  /\ cm' = t.cm
             /\ srv' = IF t.status = "closed" THEN closeClient(c) ELSE srv
             /\ dm' = CASE t.status = "closed" -> endClientDownload(dm, c)
                        [] t.change /\ t.status = "clear" -> uncorkClientDownload(dm, c)
                        [] t.change /\ t.status = "buffering" -> corkClientDownload(dm, c)
                        [] OTHER -> dm
    BY DEF flushClientOutput
  <1>3. batch' \subseteq batch /\ \A k : Outstanding(k)' = Outstanding(k)
    BY HandledBatch DEF flushClientOutput, Outstanding
  <1>4. PICK s : s = sendData(cm, c, "flush", sent)
    OBVIOUS
  <1>5. /\ cm' = s.cm
        /\ dm' = CASE s.status = "closed" -> endClientDownload(dm, c)
                   [] s.change /\ s.status = "clear" -> uncorkClientDownload(dm, c)
                   [] s.change /\ s.status = "buffering" -> corkClientDownload(dm, c)
                   [] OTHER -> dm
    BY <1>2, <1>4
  <1>6. CASE c \notin cm.bysock
    <2>1. s.cm = cm /\ s.status = "unknown" /\ ~s.change
      BY <1>4, <1>6 DEF sendData
    <2> QED BY <1>3, <1>5, <2>1, NothingRelay
  <1>7. CASE c \in cm.bysock
    <2> DEFINE d == dm.byclient[c]
    <2>1. /\ Spares(c, cm, s.cm)
          /\ s.status \in {"closed", "buffering", "clear"}
          /\ s.status = "closed" => Gone(s.cm, c)
          /\ s.status # "closed" =>
               /\ SameCork(c, cm, s.cm) /\ c \in s.cm.bysock /\ c \notin s.cm.norequest
               /\ s.cm.writer[c] = IF cm.writer[c] = "finished"
                                   THEN "finished" ELSE cm.writer[c]
               /\ c \notin cm.w_buffer => c \notin s.cm.w_buffer
          /\ s.status # "closed" /\ Stepped(cm, c) /\ cm.writer[c] # "finished" =>
               /\ Stepped(s.cm, c)
               /\ s.change => (c \in s.cm.w_buffer <=> c \notin cm.w_buffer)
               /\ c \in s.cm.w_buffer /\ c \notin cm.w_buffer =>
                    s.change /\ s.status = "buffering"
               /\ c \notin s.cm.w_buffer /\ c \in cm.w_buffer =>
                    s.change /\ s.status = "clear"
      BY <1>1, <1>4, <1>7, SendDataSays
    <2>2. RelayOK(cm, dm, Outstanding(c), batch, c)
      BY DEF RelayInv
    <2>3. CASE s.status = "closed"
      <3>1. dm' = endClientDownload(dm, c)
        BY <1>5, <2>3
      <3>2. SparesDownloads(c, dm, dm') /\ dm'.byclient[c] = NoDownload
        BY <1>1, <3>1, EndClientDownloadSays
      <3>3. RelayOK(cm', dm', Outstanding(c)', batch', c)
        BY <1>3, <1>5, <2>1, <2>2, <2>3, <3>2, GoneRelay, OneAtMost
      <3> QED BY <1>3, <1>5, <2>1, <3>2, <3>3, RelayStep
    <2>4. CASE s.status # "closed"
      <3>1. \/ s.change /\ s.status = "clear" /\ dm' = uncorkClientDownload(dm, c)
            \/ s.change /\ s.status = "buffering" /\ dm' = corkClientDownload(dm, c)
            \/ ~s.change /\ dm' = dm
        BY <1>5, <2>1, <2>4
      <3>2. /\ SparesDownloads(c, dm, dm') /\ dm'.byclient[c] = d
            /\ dm'.opening = dm.opening /\ dm'.established = dm.established
            /\ dm'.buffered = dm.buffered
            /\ dm' = uncorkClientDownload(dm, c) => d \notin dm'.read_download.corked
        BY <1>1, <3>1, DownloadCorkSays, SparesDownloadsAll
      <3>3. Waits(cm', dm', Outstanding(c)', c)
        BY <1>3, <1>5, <2>1, <2>2, <2>4, <3>2 DEF RelayOK, Waits, SameCork
      <3>4. ASSUME ~Reusing(c)
            PROVE  /\ First(cm', dm', Outstanding(c)', c)
                   /\ d # NoDownload /\ s.change => s.status = "clear"
        <4>1. First(cm, dm, Outstanding(c), c)
          BY <2>2, <3>4 DEF RelayOK
        <4>2. CASE Outstanding(c) > 0
          <5>1. Untouched(cm, dm, c) /\ Stepped(cm, c)
            BY <1>1, <1>7, <2>2, <3>4, <4>2, InStepOf
          <5>2. Untouched(cm', dm', c) /\ ~s.change
            BY <1>5, <2>1, <2>4, <3>2, <5>1 DEF Untouched, Stepped
          <5> QED BY <1>3, <1>5, <2>1, <2>4, <3>2, <4>1, <5>2 DEF First, Untouched
        <4>3. CASE ~(Outstanding(c) > 0) /\ d # NoDownload
          <5>1. Stepped(cm, c) /\ cm.writer[c] = "open" /\ InStep(cm, dm, c, d)
            BY <2>2, <4>1, <4>3 DEF RelayOK, Waits, First, InStep
          <5>2. InStep(cm', dm', c, d)
            BY <1>5, <2>1, <2>4, <3>1, <3>2, <5>1 DEF InStep
          <5>3. s.change => s.status = "clear"
            BY <2>1, <2>4, <3>1, <5>1
          <5> QED BY <1>3, <1>5, <2>1, <2>4, <3>2, <4>1, <4>3, <5>2, <5>3 DEF First
        <4>4. CASE ~(Outstanding(c) > 0) /\ d = NoDownload
          BY <1>3, <1>5, <2>1, <2>4, <3>2, <4>1, <4>4 DEF First
        <4> QED BY <4>2, <4>3, <4>4
      <3>5. Unread(dm', batch', c)
        BY <1>3, <2>2, <3>1, <3>2, <3>4 DEF RelayOK, Unread
      <3>6. /\ NotIdle(cm, c) => NotIdle(cm', c)
            /\ OutputKept(cm, c) => OutputKept(cm', c)
        BY <1>1, <1>4, <1>5, <1>7, <2>4, SendDataKeeps
      <3>7. ASSUME c \in Waiting
            PROVE  Patient(cm', dm', Outstanding(c)', batch', c)
        <4>1. Patient(cm, dm, Outstanding(c), batch, c) /\ OutputKept(cm, c)
          BY <1>7, <2>2, <3>7 DEF RelayOK, Output, Patient
        <4>2. ASSUME Outstanding(c) > 0, c \in cm'.w_buffer
              PROVE  /\ d # NoDownload /\ d \in dm'.established
                     /\ d \in dm'.read_download.corked
                     /\ Event("read_download", d) \notin batch'
          <5>1. c \in cm.w_buffer /\ cm.writer[c] \in {"new", "open"}
            BY <1>5, <1>7, <2>1, <2>4, <4>1, <4>2 DEF Patient
          <5>2. Stepped(cm, c)
            <6>1. cm.buffered[c] \in Nat
              BY <1>1, TypesOf DEF ClientsOK
            <6> QED BY <4>1, <5>1, <6>1 DEF OutputKept, Stepped
          <5>3. ~s.change
            BY <1>5, <2>1, <2>4, <4>2, <5>1, <5>2
          <5>4. dm' = dm
            BY <3>1, <5>3
          <5> QED BY <1>3, <1>7, <4>1, <4>2, <5>1, <5>4 DEF Patient
        <4>3. /\ c \notin cm'.norequest /\ c \in cm'.bysock
              /\ cm'.writer[c] = cm.writer[c]
          BY <1>5, <2>1, <2>4
        <4> QED BY <1>3, <1>7, <3>2, <3>6, <4>1, <4>2, <4>3 DEF Patient
      <3>8. Output(cm', dm', Outstanding(c)', batch', c)
        BY <2>2, <3>6, <3>7 DEF RelayOK, Output
      <3>9. RelayOK(cm', dm', Outstanding(c)', batch', c)
        BY <3>3, <3>4, <3>5, <3>8 DEF RelayOK
      <3> QED BY <1>3, <1>5, <2>1, <3>2, <3>9, RelayStep
    <2> QED BY <2>3, <2>4
  <1> QED BY <1>6, <1>7
-----------------------------------------------------------------------------
\* What the server of a client sends is passed on to it.
LEMMA Relayed ==
    ASSUME NEW t, ClientsOK(t), NEW u, DownloadsOK(u), NEW c \in Clients, c \in t.bysock,
           NEW d \in u.established, u.byclient[c] = d, d # NoDownload,
           ~Reusing(c) => d \notin u.read_download.corked,
           NEW n, Waits(t, u, n, c), ~Reusing(c) => First(t, u, n, c),
           NEW b, Event("read_download", d) \notin b, Output(t, u, n, b, c),
           c \in Waiting /\ n > 0 => c \notin t.w_buffer,
           NEW data \in {"data", "flush"}, NEW sent, NEW s, s = sendData(t, c, data, sent),
           NEW u2,
           \/ s.status = "closed" /\ u2 = endClientDownload(u, c)
           \/ /\ s.status # "closed" /\ s.change /\ s.status = "buffering"
              /\ u2 = corkClientDownload(u, c)
           \/ /\ s.status # "closed" /\ ~(s.change /\ s.status = "buffering")
              /\ u2 \in {u, uncorkClientDownload(u, c)}
    PROVE  RelayOK(s.cm, u2, n, b, c) /\ Spares(c, t, s.cm) /\ SparesDownloads(c, u, u2)
  <1>1. /\ Spares(c, t, s.cm)
        /\ s.status \in {"closed", "buffering", "clear"}
        /\ s.status = "closed" => Gone(s.cm, c)
        /\ s.status # "closed" =>
             /\ SameCork(c, t, s.cm) /\ c \in s.cm.bysock /\ c \notin s.cm.norequest
             /\ s.cm.writer[c] = IF t.writer[c] = "finished" THEN "finished" ELSE t.writer[c]
        /\ s.status # "closed" /\ Stepped(t, c) /\ t.writer[c] # "finished" =>
             /\ Stepped(s.cm, c)
             /\ s.change => (c \in s.cm.w_buffer <=> c \notin t.w_buffer)
             /\ c \in s.cm.w_buffer /\ c \notin t.w_buffer => s.change /\ s.status = "buffering"
    BY SendDataSays
  <1>2. t.writer[c] = "open"
    BY DEF Waits
  <1>3. CASE s.status = "closed"
    <2>1. SparesDownloads(c, u, u2) /\ u2.byclient[c] = NoDownload
      BY <1>3, EndClientDownloadSays
    <2>2. ~Reusing(c) \/ c \in Waiting => n <= 1
      BY DEF First, Output, Patient
    <2> QED BY <1>1, <1>3, <2>1, <2>2, GoneRelay
  <1>4. CASE s.status # "closed"
    <2>1. /\ SparesDownloads(c, u, u2) /\ u2.byclient[c] = d
          /\ u2.opening = u.opening /\ u2.established = u.established
          /\ u2.buffered = u.buffered
          /\ u2 = corkClientDownload(u, c) => d \in u2.read_download.corked
          /\ u2 = uncorkClientDownload(u, c) => d \notin u2.read_download.corked
      BY <1>4, DownloadCorkSays, SparesDownloadsAll
    <2>2. Waits(s.cm, u2, n, c)
      BY <1>1, <1>2, <1>4, <2>1 DEF Waits, SameCork
    <2>3. ASSUME ~Reusing(c)
          PROVE  First(s.cm, u2, n, c)
      <3>1. First(t, u, n, c) /\ InStep(t, u, c, d) /\ ~(n > 0)
        BY <2>3 DEF First, Untouched
      <3>2. c \notin t.w_buffer /\ Stepped(t, c) /\ d \notin u.opening
        BY <2>3, <3>1 DEF InStep, DownloadsOK
      <3>3. c \in s.cm.w_buffer <=> s.change /\ s.status = "buffering"
        BY <1>1, <1>2, <1>4, <3>2
      <3>4. c \in s.cm.w_buffer <=> d \in u2.read_download.corked
        BY <1>4, <2>1, <2>3, <3>3
      <3>5. InStep(s.cm, u2, c, d)
        BY <1>1, <1>2, <1>4, <2>1, <3>2, <3>4 DEF InStep
      <3> QED BY <1>1, <1>4, <2>1, <3>1, <3>5 DEF First
    <2>4. Unread(u2, b, c)
      BY <2>1 DEF Unread
    <2>5. /\ NotIdle(t, c) => NotIdle(s.cm, c)
          /\ OutputKept(t, c) => OutputKept(s.cm, c)
      BY <1>4, SendDataKeeps
    <2>6. ASSUME c \in Waiting
          PROVE  Patient(s.cm, u2, n, b, c)
      <3>1. Patient(t, u, n, b, c) /\ OutputKept(t, c)
        BY <2>6 DEF Output, Patient
      <3>2. ASSUME n > 0, c \in s.cm.w_buffer
            PROVE  d \in u2.read_download.corked
        <4>1. Stepped(t, c)
          <5>1. t.buffered[c] \in Nat
            BY TypesOf DEF ClientsOK
          <5> QED BY <1>2, <3>1, <5>1 DEF OutputKept, Stepped
        <4>2. s.change /\ s.status = "buffering"
          BY <1>1, <1>2, <1>4, <2>6, <3>2, <4>1
        <4> QED BY <1>4, <2>1, <4>2
      <3>3. d \in u2.established /\ d # NoDownload
        BY <2>1
      <3> QED BY <1>1, <1>2, <1>4, <2>1, <2>5, <3>1, <3>2, <3>3 DEF Patient
    <2>7. Output(s.cm, u2, n, b, c)
      BY <2>5, <2>6 DEF Output
    <2> QED BY <1>1, <2>1, <2>2, <2>3, <2>4, <2>7 DEF RelayOK
  <1> QED BY <1>3, <1>4

\* A server that is connected takes the request, and may answer.
LEMMA CompleteWebConnectionRelay ==
    ASSUME IInv, RelayInv, NEW d \in Downloads, completeWebConnection(d)
    PROVE  RelayInv'
  <1>1. /\ ClientsOK(cm) /\ DownloadsOK(dm) /\ Owners(dm) \subseteq cm.bysock
    BY DEF IInv, Agree
  <1>2. PICK sent \in SendResults, sent2 \in SendResults :
         LET s   == startDownload(dm, d, sent)
             c   == s.client
             cm1 == IF s.change THEN uncorkUpload(cm, c) ELSE cm
             t   == sendData(cm1, c, "data", sent2)
         IN  IF c \in cm.bysock /\ s.response
             THEN /\ cm' = t.cm
                  /\ srv' = IF t.status = "closed" THEN downloadLostClient(c) ELSE srv
                  /\ dm' = CASE t.status = "closed" -> endClientDownload(s.dm, c)
                             [] t.change /\ t.status = "buffering" -> corkClientDownload(s.dm, c)
                             [] t.change /\ t.status = "clear" -> uncorkClientDownload(s.dm, c)
                             [] OTHER -> s.dm
             ELSE /\ sent2 = "all"
                  /\ cm' = cm1
                  /\ dm' = s.dm
                  /\ UNCHANGED srv
    BY DEF completeWebConnection
  <1>3. batch' \subseteq batch /\ \A k : Outstanding(k)' = Outstanding(k)
    BY HandledBatch DEF completeWebConnection, Outstanding
  <1>4. PICK s, c, cm1, t : /\ s = startDownload(dm, d, sent)
                            /\ c = s.client
                            /\ cm1 = IF s.change THEN uncorkUpload(cm, c) ELSE cm
                            /\ t = sendData(cm1, c, "data", sent2)
    OBVIOUS
  <1>5. CASE d \notin dm.opening
    <2>1. s.dm = dm /\ ~s.change /\ ~s.response
      BY <1>1, <1>4, <1>5, StartDownloadSays
    <2>2. cm' = cm /\ dm' = dm
      BY <1>2, <1>4, <2>1
    <2> QED BY <1>3, <2>2, NothingRelay
  <1>6. CASE d \in dm.opening
    <2>1. /\ c \in Clients /\ dm.byclient[c] = d
          /\ SparesDownloads(c, dm, s.dm) /\ s.dm.byclient[c] = d
          /\ d \notin s.dm.opening /\ d \in s.dm.established
          /\ d \notin s.dm.read_download.corked
          /\ s.dm.buffered = dm.buffered
      BY <1>1, <1>4, <1>6, StartDownloadSays
    <2>2. d # NoDownload /\ c \in cm.bysock
      BY <1>1, <1>6, <2>1, NotActive, SocketsAssumption
    <2>3. RelayOK(cm, dm, Outstanding(c), batch, c)
      BY <2>1 DEF RelayInv
    <2>4. ClientsOK(cm1) /\ SameClients(cm, cm1) /\ DownloadsOK(s.dm)
      BY <1>1, <1>4, CorkOK, StartDownloadOK DEF SameClients
    <2>5. /\ Spares(c, cm, cm1) /\ SameOutput(c, cm, cm1)
          /\ c \in cm1.read_client.corked => c \in cm.read_client.corked
      BY <1>1, <1>4, CorkSays, SparesAll
    <2>6. Waits(cm1, s.dm, Outstanding(c), c)
      BY <2>1, <2>2, <2>3, <2>5 DEF RelayOK, Waits, SameOutput
    <2>7. ~Reusing(c) => First(cm1, s.dm, Outstanding(c), c)
      <3> SUFFICES ASSUME ~Reusing(c)
                   PROVE  First(cm1, s.dm, Outstanding(c), c)
        OBVIOUS
      <3>1. First(cm, dm, Outstanding(c), c) /\ InStep(cm, dm, c, d)
        BY <2>1, <2>2, <2>3 DEF RelayOK, First
      <3>2. InStep(cm1, s.dm, c, d)
        BY <1>6, <2>1, <2>5, <3>1 DEF InStep, Stepped, SameOutput
      <3> QED BY <2>1, <2>2, <2>5, <3>1, <3>2 DEF First, SameOutput, Untouched
    <2>8. Event("read_download", d) \notin batch'
      BY <1>3, <1>6, <2>1, <2>2, <2>3 DEF RelayOK, Unread
    <2>9. c \in Waiting /\ Outstanding(c) > 0 => c \notin cm1.w_buffer
      BY <1>1, <1>6, <2>1, <2>2, <2>3, <2>5
         DEF RelayOK, Output, Patient, DownloadsOK, SameOutput
    <2>10. Output(cm1, s.dm, Outstanding(c), batch', c)
      <3>1. Output(cm, dm, Outstanding(c), batch, c)
        BY <2>3 DEF RelayOK
      <3>2. NotIdle(cm, c) => NotIdle(cm1, c)
        BY <2>5 DEF NotIdle, SameOutput
      <3>3. c \in Waiting /\ c \in cm.bysock => OutputKept(cm1, c)
        BY <2>5, <3>1 DEF Output, Patient, OutputKept, SameOutput
      <3>4. c \in Waiting => Patient(cm1, s.dm, Outstanding(c), batch', c)
        BY <2>2, <2>5, <2>9, <3>1, <3>3 DEF Output, Patient, SameOutput
      <3> QED BY <3>1, <3>2, <3>4 DEF Output
    <2>11. CASE ~s.response
      <3>1. cm' = cm1 /\ dm' = s.dm
        BY <1>2, <1>4, <2>11
      <3>2. RelayOK(cm', dm', Outstanding(c)', batch', c)
        BY <1>3, <2>1, <2>6, <2>7, <2>8, <2>10, <3>1 DEF RelayOK, Unread
      <3> QED BY <1>3, <2>1, <2>5, <3>1, <3>2, RelayStep
    <2>12. CASE s.response
      <3>1. /\ cm' = t.cm
            /\ dm' = CASE t.status = "closed" -> endClientDownload(s.dm, c)
                       [] t.change /\ t.status = "buffering" -> corkClientDownload(s.dm, c)
                       [] t.change /\ t.status = "clear" -> uncorkClientDownload(s.dm, c)
                       [] OTHER -> s.dm
        BY <1>2, <1>4, <2>2, <2>12
      <3>2. \/ t.status = "closed" /\ dm' = endClientDownload(s.dm, c)
            \/ /\ t.status # "closed" /\ t.change /\ t.status = "buffering"
               /\ dm' = corkClientDownload(s.dm, c)
            \/ /\ t.status # "closed" /\ ~(t.change /\ t.status = "buffering")
               /\ dm' \in {s.dm, uncorkClientDownload(s.dm, c)}
        BY <3>1
      <3>3. c \in cm1.bysock
        BY <2>2, <2>5 DEF SameOutput
      <3>4. PICK n, u, b, u2 : n = Outstanding(c) /\ u = s.dm /\ b = batch' /\ u2 = dm'
        OBVIOUS
      <3>5. PICK data \in {"data", "flush"} : t = sendData(cm1, c, data, sent2)
        BY <1>4
      <3>6. /\ DownloadsOK(u) /\ d \in u.established /\ u.byclient[c] = d
            /\ d \notin u.read_download.corked
            /\ Waits(cm1, u, n, c) /\ (~Reusing(c) => First(cm1, u, n, c))
            /\ Event("read_download", d) \notin b /\ Output(cm1, u, n, b, c)
            /\ c \in Waiting /\ n > 0 => c \notin cm1.w_buffer
            /\ \/ t.status = "closed" /\ u2 = endClientDownload(u, c)
               \/ /\ t.status # "closed" /\ t.change /\ t.status = "buffering"
                  /\ u2 = corkClientDownload(u, c)
               \/ /\ t.status # "closed" /\ ~(t.change /\ t.status = "buffering")
                  /\ u2 \in {u, uncorkClientDownload(u, c)}
        BY <2>1, <2>4, <2>6, <2>7, <2>8, <2>9, <2>10, <3>2, <3>4
      <3>7. RelayOK(t.cm, u2, n, b, c) /\ Spares(c, cm1, t.cm) /\ SparesDownloads(c, u, u2)
        BY <2>1, <2>2, <2>4, <3>3, <3>6, <3>5, Relayed
      <3>8. /\ RelayOK(cm', dm', n, batch', c)
            /\ Spares(c, cm1, cm') /\ SparesDownloads(c, s.dm, dm')
        BY <3>1, <3>4, <3>7
      <3>9. Spares(c, cm, cm') /\ SparesDownloads(c, dm, dm')
        BY <2>1, <2>5, <3>8, SparesTwice, SparesDownloadsTwice
      <3> QED BY <1>3, <2>1, <3>4, <3>8, <3>9, RelayStep
    <2> QED BY <2>11, <2>12
  <1> QED BY <1>5, <1>6

\* A download found readable is relayed, or ends.
LEMMA IncomingWebDataRelay ==
    ASSUME IInv, RelayInv, NEW d \in Downloads, incomingWebData(d)
    PROVE  RelayInv'
  <1>1. /\ ClientsOK(cm) /\ DownloadsOK(dm) /\ Owners(dm) \subseteq cm.bysock
    BY DEF IInv, Agree
  <1>2. PICK page \in {"data", "flush", "end"}, sent \in SendResults :
         LET r == readDownload(dm, d, page)
             c == r.client
             t == sendData(cm, c, page, sent)
         IN  /\ cm' = t.cm
             /\ srv' = IF t.status = "closed" THEN downloadLostClient(c) ELSE srv
             /\ dm' = CASE c # NoClient /\ t.status \in {"closed", "unknown"} /\ page # "end" ->
                             endClientDownload(r.dm, c)
                        [] t.change /\ t.status = "buffering" -> corkClientDownload(r.dm, c)
                        [] OTHER -> r.dm
    BY DEF incomingWebData
  <1>3. /\ batch' = batch \ {Event("read_download", d)} /\ Event("read_download", d) \in batch
        /\ \A k : Outstanding(k)' = Outstanding(k)
    BY DEF incomingWebData, Outstanding, Handle
  <1>4. PICK r, c, t : /\ r = readDownload(dm, d, page)
                       /\ c = r.client /\ t = sendData(cm, c, page, sent)
    OBVIOUS
  <1>5. /\ cm' = t.cm
        /\ dm' = CASE c # NoClient /\ t.status \in {"closed", "unknown"} /\ page # "end" ->
                        endClientDownload(r.dm, c)
                   [] t.change /\ t.status = "buffering" -> corkClientDownload(r.dm, c)
                   [] OTHER -> r.dm
    BY <1>2, <1>4
  <1>6. CASE d \notin dm.established
    <2>1. r.dm = dm /\ c = NoClient /\ c \notin cm.bysock
      BY <1>1, <1>4, <1>6, TypesOf, SocketsAssumption DEF readDownload, ClientsOK
    <2>2. t.cm = cm /\ ~t.change
      BY <1>4, <2>1 DEF sendData
    <2> QED BY <1>3, <1>5, <2>1, <2>2, NothingRelay
  <1>7. CASE d \in dm.established
    <2>1. /\ c = dm.client[d] /\ c \in Clients /\ c # NoClient /\ dm.byclient[c] = d
          /\ d \in Known(dm) /\ d # NoDownload
          /\ r.dm = IF page = "end" THEN _terminate(dm, d, c) ELSE dm
      BY <1>1, <1>4, <1>7, SocketsAssumption DEF readDownload, DownloadsOK, Known
    <2>2. c \in cm.bysock
      BY <1>1, <2>1, NotActive
    <2>3. RelayOK(cm, dm, Outstanding(c), batch, c)
      BY <2>1 DEF RelayInv
    <2>4. Output(cm, dm, Outstanding(c), batch', c)
      BY <1>3, <2>3 DEF RelayOK, Output, Patient
    <2>5. c \in Waiting /\ Outstanding(c) > 0 => c \notin cm.w_buffer
      BY <1>3, <2>1, <2>2, <2>3 DEF RelayOK, Output, Patient
    <2>6. CASE page # "end"
      <3>1. t.status \in {"closed", "buffering", "clear"}
        BY <1>1, <1>4, <2>1, <2>2, SendDataSays
      <3>2. \/ t.status = "closed" /\ dm' = endClientDownload(dm, c)
            \/ /\ t.status # "closed" /\ t.change /\ t.status = "buffering"
               /\ dm' = corkClientDownload(dm, c)
            \/ /\ t.status # "closed" /\ ~(t.change /\ t.status = "buffering")
               /\ dm' \in {dm, uncorkClientDownload(dm, c)}
        BY <1>5, <2>1, <2>6, <3>1
      <3>3. ~Reusing(c) => d \notin dm.read_download.corked
        BY <1>3, <2>1, <2>3 DEF RelayOK, Unread
      <3>4. PICK n : n = Outstanding(c)
        OBVIOUS
      <3>5. /\ Waits(cm, dm, n, c) /\ (~Reusing(c) => First(cm, dm, n, c))
            /\ page \in {"data", "flush"} /\ Event("read_download", d) \notin batch'
            /\ Output(cm, dm, n, batch', c)
            /\ c \in Waiting /\ n > 0 => c \notin cm.w_buffer
        BY <1>3, <2>3, <2>6, <2>4, <2>5, <3>4 DEF RelayOK
      <3>6. /\ RelayOK(cm', dm', n, batch', c)
            /\ Spares(c, cm, cm') /\ SparesDownloads(c, dm, dm')
        BY <1>1, <1>4, <1>5, <1>7, <2>1, <2>2, <3>2, <3>3, <3>5, Relayed
      <3> QED BY <1>3, <2>1, <3>4, <3>6, RelayStep
    <2>7. CASE page = "end"
      <3>1. SparesDownloads(c, dm, r.dm) /\ r.dm.byclient[c] = NoDownload
        BY <1>1, <2>1, <2>7, TerminateSays
      <3>2. DownloadsOK(r.dm)
        BY <1>1, <1>4, ReadDownloadOK
      <3>3. dm' = r.dm \/ dm' = corkClientDownload(r.dm, c)
        BY <1>5, <2>7
      <3>4. dm' = r.dm
        BY <3>1, <3>3 DEF corkClientDownload
      <3>5. /\ Spares(c, cm, cm')
            /\ t.status = "closed" => Gone(cm', c)
            /\ t.status # "closed" =>
                 c \in cm'.bysock /\ c \notin cm'.norequest /\ cm'.writer[c] = "finished"
        BY <1>1, <1>4, <1>5, <2>1, <2>2, <2>7, SendDataSays
      <3>6. ~Reusing(c) => Outstanding(c) <= 1 /\ ~(Outstanding(c) > 0)
        BY <2>1, <2>2, <2>3 DEF RelayOK, First, Untouched
      <3>7. RelayOK(cm', dm', Outstanding(c)', batch', c)
        <4>1. CASE t.status = "closed"
          BY <1>3, <2>3, <3>1, <3>4, <3>5, <4>1, GoneRelay, OneAtMost
        <4>2. CASE t.status # "closed"
          <5>1. c \in cm.w_buffer
            BY <1>1, <1>4, <2>1, <2>2, <2>7, <4>2, SendDataKeeps
          <5>2. /\ NotIdle(cm, c) => NotIdle(cm', c)
                /\ OutputKept(cm, c) => OutputKept(cm', c)
            BY <1>1, <1>4, <1>5, <2>1, <2>2, <4>2, SendDataKeeps
          <5>3. c \in Waiting => Patient(cm', dm', Outstanding(c)', batch', c)
            BY <1>3, <2>2, <2>3, <2>5, <3>5, <4>2, <5>1, <5>2, Counted
               DEF RelayOK, Output, Patient
          <5>4. Output(cm', dm', Outstanding(c)', batch', c)
            BY <2>3, <5>2, <5>3 DEF RelayOK, Output
          <5> QED BY <1>3, <3>1, <3>4, <3>5, <3>6, <4>2, <5>4
                  DEF RelayOK, Waits, First, Unread
        <4> QED BY <4>1, <4>2
      <3> QED BY <1>3, <2>1, <3>1, <3>4, <3>5, <3>7, RelayStep
    <2> QED BY <2>6, <2>7
  <1> QED BY <1>6, <1>7
-----------------------------------------------------------------------------
\* The connection u.byclient[c] of client c, if any: the one it had, or one that nothing
\* came from.
Connected(c, u) ==
    u.byclient[c] # NoDownload =>
      \/ u.byclient[c] = dm.byclient[c] /\ SameReading(u.byclient[c], dm, u)
      \/ /\ u.byclient[c] \notin u.established
         /\ u.byclient[c] \notin u.read_download.corked
         /\ Event("read_download", u.byclient[c]) \notin batch

\* One iteration of enactDecisions(): the cork of the request is lifted and the answer
\* begins.
LEMMA EnactRelay ==
    ASSUME IInv, RelayInv, NEW c \in Clients, asked[c] + resolving[c] > 0,
           NEW command, Allowed(c, command), NEW content \in Contents,
           content = "stream" => command \in Methods,
           content = "response" => command = "icap",
           SourceOf[c] = "icap" => content \in {"response", "end"},
           NEW g, DownloadsOK(g.dm), SparesDownloads(c, dm, g.dm), Connected(c, g.dm),
           content # "stream" => g.dm.byclient[c] = NoDownload,
           enact(c, command, content, g), Answered(c), batch' \subseteq batch
    PROVE  RelayInv'
  <1>1. ClientsOK(cm) /\ DownloadsOK(dm) /\ Owners(dm) \subseteq cm.bysock
    BY DEF IInv, Agree
  <1>2. PICK u, r, sent : \E rd \in Reads :
          /\ ClientsOK(u) /\ SameClients(cm, u) /\ u = backpressure(cm, c, g)
          /\ r = startData(u, c, content, sent, rd)
          /\ DataStarted(c, content, u, r, rd)
          /\ EnactStep(c, g, r)
    BY EnactParts
  <1>3. PICK rd \in Reads :
          /\ ClientsOK(u) /\ SameClients(cm, u) /\ u = backpressure(cm, c, g)
          /\ r = startData(u, c, content, sent, rd)
          /\ DataStarted(c, content, u, r, rd)
          /\ EnactStep(c, g, r)
    BY <1>2
  <1>4. PICK n : n = Outstanding(c) /\ n \in Nat /\ n > 0
    BY Counted DEF Outstanding
  <1>5. /\ \A k \in Clients \ {c} : Outstanding(k)' = Outstanding(k)
        /\ Outstanding(c)' = n - 1
    <2>1. \A k \in Clients \ {c} : asked'[k] = asked[k] /\ resolving'[k] = resolving[k]
      BY DEF Answered
    <2>2. asked[c] + resolving[c] = n
      BY <1>4 DEF Outstanding
    <2>3. asked'[c] + resolving'[c] = asked[c] + resolving[c] - 1
      BY DEF Answered
    <2>4. asked[c] \in Nat /\ resolving[c] \in Nat
      BY Counted DEF IInv, Agree
    <2>5. asked'[c] \in Nat /\ resolving'[c] \in Nat
      BY DEF Answered
    <2>6. asked'[c] + resolving'[c] = n - 1
      BY <2>2, <2>3, <2>4, <2>5
    <2> QED BY <2>1, <2>6 DEF Outstanding
  <1>6. RelayOK(cm, dm, n, batch, c)
    BY <1>4 DEF RelayInv
  <1>7. Spares(c, cm, u) /\ SameOutput(c, cm, u)
    BY <1>1, <1>3, CorkSays, SparesAll DEF backpressure
  <1>8. ~Reusing(c) \/ c \in Waiting => n - 1 <= 1 /\ n - 1 = 0
    BY <1>4, <1>6, OneAtMost
  <1>9. CASE c \notin cm.bysock
    <2>1. /\ c \notin u.bysock /\ r.cm = u /\ r.got = "unknown"
      BY <1>3, <1>7, <1>9 DEF startData, SameOutput
    <2>2. cm' = u /\ dm' = endClientDownload(g.dm, c)
      BY <1>3, <2>1 DEF EnactStep
    <2>3. SparesDownloads(c, g.dm, dm') /\ dm'.byclient[c] = NoDownload
      BY <2>2, EndClientDownloadSays
    <2>4. SparesDownloads(c, dm, dm')
      BY <2>3, SparesDownloadsTwice
    <2>5. Waits(cm', dm', n - 1, c)
      BY <1>3, <1>6, <1>7, <2>1, <2>2, <2>3 DEF RelayOK, Waits, SameOutput, ClientsOK
    <2>6. ~Reusing(c) => First(cm', dm', n - 1, c)
      BY <1>4, <1>6, <1>7, <1>8, <2>1, <2>2, <2>3 DEF RelayOK, First, SameOutput
    <2>7. Output(cm', dm', n - 1, batch', c)
      <3>1. SourceOf[c] \in OneShot => NotIdle(cm', c)
        BY <1>6, <1>7, <2>1, <2>2 DEF RelayOK, Output, NotIdle, SameOutput
      <3>2. c \in Waiting => c \notin cm'.norequest /\ c \notin cm'.bysock
        BY <1>4, <1>6, <1>7, <1>9, <2>1, <2>2 DEF RelayOK, Output, Patient, SameOutput
      <3> QED BY <1>8, <3>1, <3>2 DEF Output, Patient
    <2>8. RelayOK(cm', dm', Outstanding(c)', batch', c)
      BY <1>5, <2>3, <2>5, <2>6, <2>7 DEF RelayOK, Unread
    <2> QED BY <1>5, <1>7, <2>2, <2>4, <2>8, RelayStep
  <1>10. CASE c \in cm.bysock
    <2>1. c \in u.bysock
      BY <1>7, <1>10 DEF SameOutput
    <2>2. /\ Spares(c, u, r.cm)
          /\ r.got = "closed" => Gone(r.cm, c)
          /\ r.got # "closed" =>
               /\ c \notin r.cm.read_client.corked
               /\ c \in r.cm.bysock /\ c \notin r.cm.norequest
               /\ content \in {"stream", "response"} => r.cm.writer[c] = "open"
               /\ content = "stream" /\ Stepped(u, c) /\ c \notin u.w_buffer =>
                    Stepped(r.cm, c) /\ c \notin r.cm.w_buffer
      BY <1>3, <2>1, StartDataSays
    <2>3. Spares(c, cm, r.cm)
      BY <1>7, <2>2, SparesTwice
    <2>4. r.got \in {"closed", "nothing", "data"} /\ ClientsOK(r.cm)
      BY <1>3, <2>1 DEF DataStarted
    <2>5. CASE r.got = "closed"
      <3>1. cm' = r.cm /\ dm' = endClientDownload(g.dm, c)
        BY <1>3, <2>5 DEF EnactStep
      <3>2. SparesDownloads(c, g.dm, dm') /\ dm'.byclient[c] = NoDownload
        BY <3>1, EndClientDownloadSays
      <3>3. SparesDownloads(c, dm, dm')
        BY <3>2, SparesDownloadsTwice
      <3>4. RelayOK(cm', dm', Outstanding(c)', batch', c)
        BY <1>5, <1>8, <2>2, <2>5, <3>1, <3>2, GoneRelay
      <3> QED BY <1>5, <2>3, <3>1, <3>3, <3>4, RelayStep
    <2>6. CASE r.got # "closed"
      <3>1. Waits(r.cm, g.dm, n - 1, c)
        BY <2>2, <2>6 DEF Waits
      <3>2. ASSUME ~Reusing(c)
            PROVE  First(r.cm, g.dm, n - 1, c)
        <4>1. Untouched(cm, dm, c) /\ Stepped(cm, c)
          BY <1>1, <1>4, <1>6, <1>10, <3>2, InStepOf
        <4>2. Stepped(u, c) /\ c \notin u.w_buffer
          BY <1>7, <4>1 DEF Stepped, Untouched, SameOutput
        <4>3. ASSUME g.dm.byclient[c] # NoDownload
              PROVE  InStep(r.cm, g.dm, c, g.dm.byclient[c])
          <5>1. content = "stream" /\ g.dm.byclient[c] \notin g.dm.established
            BY <4>1, <4>3 DEF Connected, Untouched
          <5>2. Stepped(r.cm, c) /\ c \notin r.cm.w_buffer
            BY <2>2, <2>6, <4>2, <5>1
          <5> QED BY <5>1, <5>2 DEF InStep
        <4> QED BY <1>8, <2>2, <2>6, <3>2, <4>3 DEF First
      <3>3. Unread(g.dm, batch, c)
        <4> SUFFICES ASSUME g.dm.byclient[c] # NoDownload,
                            Event("read_download", g.dm.byclient[c]) \in batch
                     PROVE  /\ g.dm.byclient[c] \notin g.dm.opening
                            /\ ~Reusing(c) =>
                                 g.dm.byclient[c] \notin g.dm.read_download.corked
          BY DEF Unread
        <4>1. g.dm.byclient[c] = dm.byclient[c] /\ SameReading(g.dm.byclient[c], dm, g.dm)
          BY DEF Connected
        <4> QED BY <1>6, <4>1 DEF RelayOK, Unread, SameReading
      <3>4. ASSUME c \in Waiting
            PROVE  Patient(r.cm, g.dm, n - 1, batch, c)
        <4>1. Patient(cm, dm, n, batch, c) /\ OutputKept(cm, c) /\ cm.writer[c] # "finished"
          BY <1>4, <1>6, <1>10, <3>4 DEF RelayOK, Output, Patient
        <4>2. OutputKept(u, c) /\ u.writer[c] # "finished"
          BY <1>7, <4>1 DEF OutputKept, SameOutput
        <4>3. content \in {"stream", "response", "end"} \/ ReturnsPage(c)
          BY <3>4, SocketsAssumption DEF Waiting, OneShot, ReturnsPage, Sources
        <4>4. OutputKept(r.cm, c)
          BY <1>3, <2>1, <2>6, <4>2, <4>3, StartDataKeeps
        <4> QED BY <1>8, <2>2, <2>6, <3>4, <4>4 DEF Patient
      <3>5. ASSUME SourceOf[c] \in OneShot
            PROVE  NotIdle(r.cm, c)
        <4>1. ~Reusing(c)
          BY <3>5 DEF Reusing
        <4>2. Untouched(cm, dm, c) /\ Stepped(cm, c)
          BY <1>1, <1>4, <1>6, <1>10, <4>1, InStepOf
        <4>3. c \notin u.write_client \cup u.w_buffer
          BY <1>7, <4>2 DEF Stepped, Untouched, SameOutput
        <4>4. content # "response"
          BY <3>5 DEF Allowed, OneShot
        <4>5. c \notin r.cm.write_client
          BY <1>3, <2>1, <2>6, <3>5, <4>3, <4>4, StartDataKeeps DEF OneShot
        <4> QED BY <4>5 DEF NotIdle
      <3>6. RelayOK(r.cm, g.dm, n - 1, batch, c)
        BY <3>1, <3>2, <3>3, <3>4, <3>5 DEF RelayOK, Output
      <3>7. CASE r.got = "nothing"
        <4>1. cm' = r.cm /\ dm' = g.dm
          BY <1>3, <3>7 DEF EnactStep
        <4>2. RelayOK(cm', dm', Outstanding(c)', batch', c)
          BY <1>5, <3>6, <4>1 DEF RelayOK, Unread, Output, Patient
        <4> QED BY <1>5, <2>3, <4>1, <4>2, RelayStep
      <3>8. CASE r.got = "data"
        <4>1. PICK sent2 \in SendResults :
                LET s == sendClientData(g.dm, c, sent2)
                IN  dm' = s.dm /\ cm' = backpressure(r.cm, c, s)
          BY <1>3, <3>8 DEF EnactStep
        <4>2. PICK s : /\ s = sendClientData(g.dm, c, sent2)
                       /\ dm' = s.dm /\ cm' = backpressure(r.cm, c, s)
          BY <4>1
        <4>3. Buffers(c, g.dm, s)
          BY <4>2, SendClientDataSays
        <4>4. RelayOK(cm', dm', n - 1, batch', c) /\ Spares(c, r.cm, cm')
          BY <2>4, <3>6, <4>2, <4>3, ServerWritten
        <4>5. Spares(c, cm, cm')
          BY <2>3, <4>4, SparesTwice
        <4>6. SparesDownloads(c, dm, dm')
          BY <4>2, <4>3, SparesDownloadsTwice DEF Buffers
        <4> QED BY <1>5, <4>4, <4>5, <4>6, RelayStep
      <3> QED BY <2>4, <2>6, <3>7, <3>8
    <2> QED BY <2>5, <2>6
  <1> QED BY <1>9, <1>10

\* The four ways an answer arrives.
LEMMA EnactDecisionRelay ==
    ASSUME IInv, RelayInv, NEW c \in Clients, asked[c] + resolving[c] > 0, Answered(c),
           NEW command \in Answers(c), enactDecision(c, command), batch' \subseteq batch
    PROVE  RelayInv'
  <1>0. DownloadsOK(dm)
    BY DEF IInv, Agree
  <1>1. CASE command \in Methods /\ enactRemote(c, command)
    <2>1. PICK host \in Hosts, d \in FreeDownloads \cup {NoDownload}, sent \in SendResults :
            /\ (d = NoDownload) = (inUse(dm, c, host) # NoDownload)
            /\ enact(c, command, "stream", getRemote(dm, c, command, host, d, sent))
      BY <1>1 DEF enactRemote
    <2>2. /\ inUse(dm, c, host) = NoDownload => d \in Downloads \ Known(dm)
          /\ inUse(dm, c, host) = NoDownload => Event("read_download", d) \notin batch
      BY <2>1 DEF FreeDownloads, InBatch, Event
    <2>3. PICK g : g = getRemote(dm, c, command, host, d, sent)
      OBVIOUS
    <2>4. DownloadsOK(g.dm)
      BY <1>0, <1>1, <2>2, <2>3, GetRemoteOK
    <2>5. /\ SparesDownloads(c, dm, g.dm)
          /\ \/ /\ g.dm.byclient[c] = dm.byclient[c] /\ dm.byclient[c] # NoDownload
                /\ SameReading(dm.byclient[c], dm, g.dm)
             \/ /\ inUse(dm, c, host) = NoDownload /\ g.dm.byclient[c] = d
                /\ d \in g.dm.opening /\ d \notin g.dm.established
                /\ d \notin g.dm.read_download.corked
      BY <1>0, <2>2, <2>3, GetRemoteSays
    <2>6. Connected(c, g.dm)
      BY <2>2, <2>5 DEF Connected
    <2>7. "stream" \in Contents /\ SourceOf[c] # "icap" /\ Allowed(c, command)
      BY <1>1, AnswersAllowed DEF Contents
    <2>8. enact(c, command, "stream", g)
      BY <2>1, <2>3
    <2> QED
      BY <1>1, <2>4, <2>5, <2>6, <2>7, <2>8, EnactRelay
  <1>2. CASE enactLocal(c, command)
    <2> DEFINE g == Unchanged(getLocal(dm, c))
    <2>1. PICK content \in LocalContents(command) : enact(c, command, content, g)
      BY <1>2 DEF enactLocal
    <2>2. /\ DownloadsOK(g.dm) /\ SparesDownloads(c, dm, g.dm)
          /\ g.dm.byclient[c] = NoDownload
      BY <1>0, EndClientDownloadOK, EndClientDownloadSays DEF getLocal, Unchanged
    <2>3. /\ content \in Contents /\ content # "stream"
          /\ content = "response" => command = "icap"
          /\ SourceOf[c] = "icap" => content \in {"response", "end"}
      BY <2>1, AnswersAllowed DEF LocalContents, Contents, Allowed
    <2> HIDE DEF g
    <2>4. Connected(c, g.dm)
      BY <2>2 DEF Connected
    <2> QED
      BY <2>1, <2>2, <2>3, <2>4, AnswersAllowed, EnactRelay
  <1> QED
    BY <1>1, <1>2 DEF enactDecision, enactRefused

\* An answer of the redirector.
LEMMA ReadRedirectorRelay ==
    ASSUME IInv, RelayInv, readRedirector
    PROVE  RelayInv'
  <1>1. PICK c \in Clients :
          /\ asked[c] > 0 /\ asked' = [asked EXCEPT ![c] = @ - 1]
          /\ \/ /\ c \notin Live(cm)
                /\ UNCHANGED <<cm, dm, srv, resolving>>
             \/ /\ \E command \in Answers(c) : enactDecision(c, command)
                /\ UNCHANGED resolving
             \/ /\ resolving' = [resolving EXCEPT ![c] = @ + 1]
                /\ UNCHANGED <<cm, dm, srv>>
    BY DEF readRedirector
  <1>2. batch' \subseteq batch
    BY HandledBatch DEF readRedirector
  <1>3. /\ asked \in [Clients -> Nat] /\ resolving \in [Clients -> Nat]
        /\ ClientsOK(cm) /\ DownloadsOK(dm) /\ Owners(dm) \subseteq cm.bysock
        /\ \A k \in Clients : Outstanding(k) \in Nat
    BY Counted DEF IInv, Agree
  <1>4. /\ \A k \in Clients \ {c} : asked'[k] = asked[k]
        /\ asked'[c] = asked[c] - 1
    BY <1>1, <1>3
  <1>5. CASE c \notin Live(cm) /\ UNCHANGED <<cm, dm, srv, resolving>>
    <2>1. c \notin cm.bysock /\ c \notin cm.norequest /\ c \notin cm.read_client.corked
      BY <1>3, <1>5 DEF Live, ClientsOK
    <2>2. dm.byclient[c] = NoDownload
      BY <1>3, <2>1, NotActive
    <2>3. /\ \A k \in Clients \ {c} : Outstanding(k)' = Outstanding(k)
          /\ Outstanding(c)' = Outstanding(c) - 1
      BY <1>3, <1>4, <1>5 DEF Outstanding
    <2>4. RelayOK(cm, dm, Outstanding(c), batch, c)
      BY DEF RelayInv
    <2>5. Output(cm', dm', Outstanding(c)', batch', c)
      BY <1>3, <1>5, <2>1, <2>3, <2>4 DEF RelayOK, Output, NotIdle, Patient
    <2>6. RelayOK(cm', dm', Outstanding(c)', batch', c)
      BY <1>3, <1>5, <2>1, <2>2, <2>3, <2>4, <2>5 DEF RelayOK, Waits, First, Unread
    <2>7. Spares(c, cm, cm') /\ SparesDownloads(c, dm, dm')
      BY <1>5, SparesAll, SparesDownloadsAll
    <2> QED BY <1>2, <2>3, <2>6, <2>7, RelayStep
  <1>6. CASE /\ \E command \in Answers(c) : enactDecision(c, command)
             /\ UNCHANGED resolving
    <2>1. Answered(c) /\ asked[c] + resolving[c] > 0
      BY <1>1, <1>6, AnsweredOK
    <2> QED BY <1>2, <1>6, <2>1, EnactDecisionRelay
  <1>7. CASE /\ resolving' = [resolving EXCEPT ![c] = @ + 1]
             /\ UNCHANGED <<cm, dm, srv>>
    <2>1. \A k \in Clients : asked'[k] + resolving'[k] = asked[k] + resolving[k]
      BY <1>3, <1>4, <1>7
    <2> QED BY <1>2, <1>7, <2>1, NothingRelay DEF Outstanding
  <1> QED
    BY <1>1, <1>5, <1>6, <1>7

\* An answer of the resolver.
LEMMA ReadResolverRelay ==
    ASSUME IInv, RelayInv, readResolver
    PROVE  RelayInv'
  <1>1. batch' \subseteq batch
    BY HandledBatch DEF readResolver
  <1>2. CASE UNCHANGED <<cm, dm, srv, asked, resolving>>
    BY <1>1, <1>2, NothingRelay DEF Outstanding
  <1>3. ASSUME NEW c \in Clients, resolved(c)
        PROVE  RelayInv'
    <2>1. SourceOf[c] \notin {"web", "icap"}
      BY <1>3 DEF resolved, IInv, Agree, ClientOK
    <2>2. Answered(c) /\ asked[c] + resolving[c] > 0
      BY <1>3, AnsweredOK DEF resolved
    <2>3. PICK answer \in Answers(c) : enactDecision(c, answer)
      BY <1>3, <2>1 DEF resolved, Remote, Answers
    <2> QED
      BY <1>1, <2>2, <2>3, EnactDecisionRelay
  <1> QED
    BY <1>2, <1>3 DEF readResolver

\* A lookup that is given up.
LEMMA TimeoutResolverRelay ==
    ASSUME IInv, RelayInv, timeoutResolver
    PROVE  RelayInv'
  <1>1. PICK c \in Clients :
          /\ resolving[c] > 0 /\ "page" \in LookupErrors
          /\ resolving' = [resolving EXCEPT ![c] = @ - 1]
          /\ enactDecision(c, "page")
    BY DEF timeoutResolver
  <1>2. Answered(c) /\ asked[c] + resolving[c] > 0 /\ batch' = batch
    BY <1>1, AnsweredOK DEF timeoutResolver
  <1>3. "page" \in Answers(c)
    BY <1>1 DEF IInv, Agree, ClientOK, Answers
  <1> QED
    BY <1>1, <1>2, <1>3, EnactDecisionRelay
-----------------------------------------------------------------------------
\* poll() reports no download that is corked or not yet connected.
LEMMA PollRelay ==
    ASSUME IInv, RelayInv, Poll
    PROVE  RelayInv'
  <1>1. batch' \subseteq Ready /\ cm' = cm /\ dm' = dm
        /\ \A k : Outstanding(k)' = Outstanding(k)
    BY DEF Poll, Outstanding
  <1>2. /\ dm.opening \cap dm.established = {}
        /\ dm.read_download.socks = dm.established
    BY DEF IInv, Agree, DownloadsOK
  <1>3. ASSUME NEW d, Event("read_download", d) \in batch'
        PROVE  d \in dm.established /\ d \notin dm.read_download.corked
    BY <1>1, <1>2, <1>3 DEF Ready, Event, Watched, Redirector, Resolver
  <1>4. ASSUME NEW c \in Clients
        PROVE  RelayOK(cm', dm', Outstanding(c)', batch', c)
    <2>1. RelayOK(cm, dm, Outstanding(c), batch, c)
      BY DEF RelayInv
    <2>2. Unread(dm', batch', c)
      BY <1>1, <1>2, <1>3 DEF Unread
    <2>3. Output(cm', dm', Outstanding(c)', batch', c)
      BY <1>1, <1>3, <2>1 DEF RelayOK, Output, Patient
    <2> QED BY <1>1, <2>1, <2>2, <2>3 DEF RelayOK
  <1> QED BY <1>4 DEF RelayInv

\* The invariant is inductive.
LEMMA NextRelay == IInv /\ RelayInv /\ [Next]_vars => RelayInv'
  <1> SUFFICES ASSUME IInv, RelayInv, [Next]_vars PROVE RelayInv'
    OBVIOUS
  <1>1. CASE UNCHANGED vars
    BY <1>1, NothingRelay DEF vars, Outstanding
  <1>2. CASE Poll
    BY <1>2, PollRelay
  <1>3. ASSUME NEW l \in Listeners, acceptConnections(l) PROVE RelayInv'
    BY <1>3, AcceptRelay
  <1>4. ASSUME NEW c \in Clients, incomingRequest(c) PROVE RelayInv'
    BY <1>4, IncomingRequestRelay
  <1>5. ASSUME NEW c \in Clients, incomingClientData(c) PROVE RelayInv'
    BY <1>5, IncomingClientDataRelay
  <1>6. ASSUME NEW c \in Clients, flushClientOutput(c) PROVE RelayInv'
    BY <1>6, FlushClientOutputRelay
  <1>7. ASSUME NEW c \in Clients, expire(c) PROVE RelayInv'
    BY <1>7, ExpireRelay
  <1>8. ASSUME NEW d \in Downloads, completeWebConnection(d) PROVE RelayInv'
    BY <1>8, CompleteWebConnectionRelay
  <1>9. ASSUME NEW d \in Downloads, incomingWebData(d) PROVE RelayInv'
    BY <1>9, IncomingWebDataRelay
  <1>10. ASSUME NEW d \in Downloads, flushWebOutput(d) PROVE RelayInv'
    BY <1>10, FlushWebOutputRelay
  <1>11. CASE readRedirector
    BY <1>11, ReadRedirectorRelay
  <1>12. CASE readResolver
    BY <1>12, ReadResolverRelay
  <1>13. CASE timeoutResolver
    BY <1>13, TimeoutResolverRelay
  <1>14. CASE unboundRequest
    BY <1>14, NothingRelay DEF unboundRequest, Outstanding
  <1>15. CASE gone
    BY <1>1, <1>15 DEF gone
  <1> QED
    BY <1>1, <1>2, <1>3, <1>4, <1>5, <1>6, <1>7, <1>8, <1>9, <1>10, <1>11, <1>12, <1>13,
       <1>14, <1>15 DEF Next

LEMMA InitRelay == Init => RelayInv
  <1> SUFFICES ASSUME Init PROVE RelayInv
    OBVIOUS
  <1> SUFFICES ASSUME NEW c \in Clients
               PROVE  RelayOK(cm, dm, Outstanding(c), batch, c)
    BY DEF RelayInv
  <1>1. /\ cm.norequest = {} /\ cm.bysock = {} /\ cm.read_client.corked = {}
        /\ cm.write_client = {} /\ cm.buffered[c] = 0
        /\ cm.writer[c] = "new" /\ dm.byclient[c] = NoDownload /\ Outstanding(c) = 0
    BY DEF Init, NoClients, NoDownloads, NoSockets, Outstanding
  <1> QED BY <1>1 DEF RelayOK, Waits, First, Unread, Output, NotIdle, Patient

\* What follows from it.
LEMMA RelayInvParts ==
    IInv /\ RelayInv => /\ NoDataAfterEnd /\ NoStuckClient
                        /\ NoStuckFirstDownload /\ BackPressure /\ OutputIsWatched
                        /\ ((\A c \in Clients : c \in Waiting \/ SourceOf[c] \in OneShot)
                              => NoIdleWatch)
  <1> SUFFICES ASSUME IInv, RelayInv
               PROVE  /\ NoDataAfterEnd /\ NoStuckClient
                      /\ NoStuckFirstDownload /\ BackPressure /\ OutputIsWatched
                      /\ ((\A c \in Clients : c \in Waiting \/ SourceOf[c] \in OneShot)
                            => NoIdleWatch)
    OBVIOUS
  <1>1. ClientsOK(cm) /\ DownloadsOK(dm)
    BY DEF IInv, Agree
  <1>2. NoDataAfterEnd
    BY DEF NoDataAfterEnd, RelayInv, RelayOK, Waits
  <1>3. NoStuckClient
    BY <1>1, TypesOf DEF NoStuckClient, RelayInv, RelayOK, Waits, ClientsOK
  <1>4. ASSUME NEW d \in dm.established, ~Reusing(dm.client[d])
        PROVE  dm.client[d] \in cm.write_client <=> d \in dm.read_download.corked
    <2>1. PICK c \in Clients : c = dm.client[d] /\ dm.byclient[c] = d /\ d # NoDownload
      BY <1>1, DownloadTypes, SocketsAssumption DEF DownloadsOK, Known
    <2>2. InStep(cm, dm, c, d)
      BY <1>4, <2>1 DEF RelayInv, RelayOK, First
    <2> QED BY <2>1, <2>2 DEF InStep, Stepped
  <1>5. NoStuckFirstDownload /\ BackPressure
    BY <1>1, <1>4 DEF NoStuckFirstDownload, BackPressure, DownloadsOK
  <1>6. ASSUME NEW c \in cm.bysock \cap Waiting
        PROVE  OutputKept(cm, c)
    BY <1>6 DEF Waiting, RelayInv, RelayOK, Output, Patient
  <1>7. OutputIsWatched
    BY <1>6 DEF OutputIsWatched, OutputKept
  <1>8. ASSUME \A c \in Clients : c \in Waiting \/ SourceOf[c] \in OneShot
        PROVE  NoIdleWatch
    <2> SUFFICES ASSUME NEW c \in cm.write_client
                 PROVE  c \in cm.w_buffer \/ cm.writer[c] = "finished"
      BY DEF NoIdleWatch
    <2>1. c \in Clients /\ c \in cm.bysock
      BY <1>1, TypesOf DEF ClientsOK
    <2>2. CASE c \in Waiting
      BY <1>6, <2>1, <2>2 DEF OutputKept
    <2>3. CASE SourceOf[c] \in OneShot
      BY <2>1, <2>3 DEF RelayInv, RelayOK, Output, NotIdle
    <2> QED BY <1>8, <2>1, <2>2, <2>3
  <1> QED BY <1>2, <1>3, <1>5, <1>7, <1>8

LEMMA AlwaysRelay == Spec => [](IInv /\ RelayInv)
  <1>1. Init => IInv /\ RelayInv
    BY InitAgrees, InitRelay
  <1>2. (IInv /\ RelayInv) /\ [Next]_vars => (IInv /\ RelayInv)'
    BY NextAgrees, NextRelay
  <1> QED BY <1>1, <1>2, PTL DEF Spec

(* Once a client was told that nothing more comes, no download is left     *)
(* that could send it something, whatever ended it and in whatever order   *)
(* the handlers of a batch run (http.py, `Tried to send data to client     *)
(* after we told it to close').                                            *)
THEOREM SilentAfterEnd == Spec => []NoDataAfterEnd
  BY AlwaysRelay, RelayInvParts, PTL

(* A client that corkUpload() stopped reading from has a question open, a  *)
(* server with something still to take, or is to be closed: somebody will  *)
(* come back to it.                                                        *)
THEOREM ClientsAreWaitedFor == Spec => []NoStuckClient
  BY AlwaysRelay, RelayInvParts, PTL

(* During the first answer on a connection, a server that                  *)
(* corkClientDownload() stopped reading from is one whose client is        *)
(* watched for writing: the flush will uncork it.                          *)
THEOREM FirstDownloadsGoOn == Spec => []NoStuckFirstDownload
  BY AlwaysRelay, RelayInvParts, PTL

(* Conversely, during that answer no server is read while the output of    *)
(* its client waits to be flushed (reactor.py:226).                        *)
THEOREM ServersHeldBack == Spec => []BackPressure
  BY AlwaysRelay, RelayInvParts, PTL

(* A client that waits for its answers is watched for writing as long as   *)
(* something is left to send it or it is to be closed: sendData() and      *)
(* startData() keep the list `buffered', the write interest and what is    *)
(* left together.                                                          *)
THEOREM OutputWatched == Spec => []OutputIsWatched
  BY AlwaysRelay, RelayInvParts, PTL

(* And if every http or icap client waits for its answers, no client is    *)
(* watched for writing that has nothing left to send and is not to be      *)
(* closed: the loop is not woken for nothing.                              *)
THEOREM NobodySpins ==
    ASSUME \A c \in Clients : c \in Waiting \/ SourceOf[c] \in OneShot
    PROVE  Spec => []NoIdleWatch
  <1>1. IInv /\ RelayInv => NoIdleWatch
    BY RelayInvParts
  <1> QED BY <1>1, AlwaysRelay, PTL
=============================================================================

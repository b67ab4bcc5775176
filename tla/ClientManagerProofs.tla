------------------------ MODULE ClientManagerProofs ------------------------
(***************************************************************************)
(* What the methods of the client manager preserve, for every set of       *)
(* clients.  ReactorProofs combines these facts with those about the       *)
(* downloads.                                                              *)
(***************************************************************************)
EXTENDS ClientManager, TLAPS

\* The tables are of their types and agree with each other.
ClientsOK(t) ==
    /\ t \in ClientTable
    /\ t.norequest \cap t.bysock = {}
    /\ t.opening_client = t.norequest
    /\ t.read_client.socks = t.bysock
    /\ t.read_client.corked \subseteq t.bysock
    /\ \A c \in t.write_client : c \in t.bysock /\ t.buffered[c] > 0
    /\ t.w_buffer \subseteq t.bysock

\* The output of c, if any, is in the list `buffered'.
Listed(t, c) == c \in t.w_buffer => t.buffered[c] > 0

\* From t to u only client c may have changed.
OnlyFor(c, t, u) ==
    /\ u.norequest \ {c} = t.norequest \ {c}
    /\ u.bysock \ {c} = t.bysock \ {c}
    /\ u.w_buffer \ {c} = t.w_buffer \ {c}
    /\ \A k \in Clients \ {c} : /\ u.buffered[k] = t.buffered[k]
                                /\ u.reader[k] = t.reader[k]

\* From t to u the manager keeps its clients, what they have to be sent and
\* what they are being asked.
SameClients(t, u) ==
    /\ u.norequest = t.norequest
    /\ u.bysock = t.bysock
    /\ u.w_buffer = t.w_buffer
    /\ u.buffered = t.buffered
    /\ u.reader = t.reader
-----------------------------------------------------------------------------
LEMMA TypesOf ==
    ASSUME NEW t \in ClientTable
    PROVE  /\ t.norequest \subseteq Clients
           /\ t.bysock \subseteq Clients
           /\ t.opening_client \subseteq Clients
           /\ t.read_client \in EventSet(Clients)
           /\ t.read_client.socks \subseteq Clients
           /\ t.read_client.corked \subseteq Clients
           /\ t.write_client \subseteq Clients
           /\ t.buffered \in [Clients -> Nat]
           /\ t.w_buffer \subseteq Clients
           /\ t.writer \in [Clients -> WriterStates]
           /\ t.reader \in [Clients -> ReaderModes]
  BY DEF ClientTable, EventSet

(* cleanup() forgets the client and nothing else.                          *)
LEMMA CleanupOK ==
    ASSUME NEW t, ClientsOK(t), NEW c \in Clients,
           NEW u, u = cleanup(t, c)
    PROVE  /\ ClientsOK(u)
           /\ OnlyFor(c, t, u)
           /\ u.norequest = t.norequest \ {c}
           /\ u.bysock = t.bysock \ {c}
           /\ u.w_buffer = t.w_buffer \ {c}
  <1>1. t \in ClientTable
    BY DEF ClientsOK
  <1>2. /\ u.norequest = t.norequest \ {c}
        /\ u.bysock = t.bysock \ {c}
        /\ u.opening_client = t.opening_client \ {c}
        /\ u.read_client = removeSocket(t.read_client, c)
        /\ u.write_client = t.write_client \ {c}
        /\ u.buffered = [t.buffered EXCEPT ![c] = IF @ > 0 THEN @ - 1 ELSE @]
        /\ u.w_buffer = t.w_buffer \ {c}
        /\ u.writer = [t.writer EXCEPT ![c] = "new"]
        /\ u.reader = [t.reader EXCEPT ![c] = "request"]
    BY DEF cleanup, removeOnce
  <1>3. /\ u.read_client \in EventSet(Clients)
        /\ u.read_client.socks = t.read_client.socks \ {c}
        /\ u.read_client.corked = t.read_client.corked \ {c}
    BY <1>1, <1>2, TypesOf DEF removeSocket, EventSet
  <1>4. /\ u.buffered \in [Clients -> Nat]
        /\ \A k \in Clients \ {c} : u.buffered[k] = t.buffered[k]
    <2>1. t.buffered \in [Clients -> Nat]
      BY <1>1, TypesOf
    <2>2. (IF t.buffered[c] > 0 THEN t.buffered[c] - 1 ELSE t.buffered[c]) \in Nat
      BY <2>1
    <2> QED
      BY <1>2, <2>1, <2>2
  <1>5. /\ u.writer \in [Clients -> WriterStates]
        /\ u.reader \in [Clients -> ReaderModes]
        /\ \A k \in Clients \ {c} : u.reader[k] = t.reader[k]
    BY <1>1, <1>2, TypesOf DEF WriterStates, ReaderModes
  <1>6. u \in ClientTable
    BY <1>1, <1>2, <1>3, <1>4, <1>5, TypesOf DEF ClientTable, cleanup
  <1>7. ClientsOK(u)
    BY <1>2, <1>3, <1>4, <1>6, TypesOf DEF ClientsOK
  <1> QED
    BY <1>2, <1>4, <1>5, <1>7 DEF OnlyFor

LEMMA HttpConnectionOK ==
    ASSUME NEW t, ClientsOK(t), NEW c \in Clients, c \notin Live(t),
           NEW u, u = httpConnection(t, c)
    PROVE  /\ ClientsOK(u)
           /\ OnlyFor(c, t, u)
           /\ u.norequest = t.norequest \cup {c}
           /\ u.bysock = t.bysock
           /\ u.w_buffer = t.w_buffer
  <1>1. t \in ClientTable
    BY DEF ClientsOK
  <1>2. u = [t EXCEPT !.norequest = t.norequest \cup {c},
                      !.opening_client = t.opening_client \cup {c}]
    BY DEF httpConnection
  <1>6. /\ t.norequest \cup {c} \in SUBSET Clients
        /\ t.opening_client \cup {c} \in SUBSET Clients
    BY <1>1, TypesOf
  <1>3. u \in ClientTable
    BY <1>1, <1>2, <1>6, Zenon DEF ClientTable
  <1>4. /\ u.norequest = t.norequest \cup {c}
        /\ u.opening_client = t.opening_client \cup {c}
        /\ u.bysock = t.bysock /\ u.read_client = t.read_client
        /\ u.write_client = t.write_client /\ u.buffered = t.buffered
        /\ u.w_buffer = t.w_buffer /\ u.reader = t.reader
    BY <1>1, <1>2 DEF ClientTable
  <1>5. ClientsOK(u)
    BY <1>3, <1>4 DEF ClientsOK, Live
  <1> QED
    BY <1>4, <1>5 DEF OnlyFor

LEMMA PassthroughConnectionOK ==
    ASSUME NEW t, ClientsOK(t), NEW c \in Clients, c \notin Live(t),
           NEW u, u = passthroughConnection(t, c)
    PROVE  /\ ClientsOK(u)
           /\ OnlyFor(c, t, u)
           /\ u.norequest = t.norequest
           /\ u.bysock = t.bysock \cup {c}
           /\ u.w_buffer = t.w_buffer
           /\ u.reader[c] = "stream"
  <1>1. t \in ClientTable
    BY DEF ClientsOK
  <1>2. u = [t EXCEPT !.bysock = t.bysock \cup {c},
                      !.read_client = addSocket(t.read_client, c),
                      !.reader = [t.reader EXCEPT ![c] = "stream"]]
    BY <1>1 DEF passthroughConnection, ClientTable
  <1>3. /\ addSocket(t.read_client, c) \in EventSet(Clients)
        /\ addSocket(t.read_client, c).socks = t.read_client.socks \cup {c}
        /\ addSocket(t.read_client, c).corked = t.read_client.corked
    BY <1>1, TypesOf DEF EventSet, addSocket
  <1>4. [t.reader EXCEPT ![c] = "stream"] \in [Clients -> ReaderModes]
    BY <1>1, TypesOf DEF ReaderModes
  <1>9. t.bysock \cup {c} \in SUBSET Clients
    BY <1>1, TypesOf
  <1>5. u \in ClientTable
    BY <1>1, <1>2, <1>9, <1>3, <1>4, Zenon DEF ClientTable
  <1>6. /\ u.norequest = t.norequest /\ u.opening_client = t.opening_client
        /\ u.bysock = t.bysock \cup {c}
        /\ u.read_client = addSocket(t.read_client, c)
        /\ u.write_client = t.write_client /\ u.buffered = t.buffered
        /\ u.w_buffer = t.w_buffer
        /\ u.reader = [t.reader EXCEPT ![c] = "stream"]
    BY <1>1, <1>2 DEF ClientTable
  <1>7. /\ u.reader[c] = "stream"
        /\ \A k \in Clients \ {c} : u.reader[k] = t.reader[k]
    BY <1>1, <1>6, TypesOf
  <1>8. ClientsOK(u)
    BY <1>3, <1>5, <1>6 DEF ClientsOK, Live
  <1> QED
    BY <1>6, <1>7, <1>8 DEF OnlyFor

(* Corking and uncorking a client changes its cork only.                   *)
LEMMA CorkOK ==
    ASSUME NEW t, ClientsOK(t), NEW c
    PROVE  /\ ClientsOK(corkUpload(t, c)) /\ SameClients(t, corkUpload(t, c))
           /\ ClientsOK(uncorkUpload(t, c)) /\ SameClients(t, uncorkUpload(t, c))
  BY TypesOf DEF ClientsOK, ClientTable, EventSet, corkUpload, uncorkUpload,
                 corkSocket, uncorkSocket, SameClients
-----------------------------------------------------------------------------
(* Reading.                                                                *)

\* What a reader may return.
Reads == [got : {"closed", "nothing", "request", "data"}, mode : ReaderModes]

LEMMA ReadResultsOK ==
    ASSUME NEW c \in Clients, NEW mode \in ReaderModes, NEW rd \in ReadResults(c, mode)
    PROVE  /\ rd \in Reads
           /\ rd.got = "request" => rd.mode = "asked"
           /\ mode \notin {"request", "body"} =>
                /\ rd.got # "request" /\ rd.mode = mode
  BY DEF ReadResults, httpReads, icapReads, tlsReads, passthroughReads, NoReads, When,
         ReaderModes, Reads

LEMMA NextModeOK ==
    ASSUME NEW c \in Clients, NEW mode \in ReaderModes, NEW wanted \in ReaderModes
    PROVE  /\ NextMode(c, mode, wanted) \in ReaderModes
           /\ SourceOf[c] \in {"tls", "passthrough"} /\ mode \notin {"request", "body"}
                /\ wanted # "body" =>
                NextMode(c, mode, wanted) \notin {"request", "body"}
  BY DEF NextMode, ReaderModes

setReader(t, c, ev, mode) == [t EXCEPT !.read_client = ev, !.reader[c] = mode]

(* Changing the mode of a reader, and the corks, keeps the tables right.   *)
LEMMA SetReaderOK ==
    ASSUME NEW t, ClientsOK(t), NEW c \in Clients, NEW mode \in ReaderModes,
           NEW ev \in EventSet(Clients), ev.socks = t.bysock, ev.corked \subseteq t.bysock,
           NEW u, u = setReader(t, c, ev, mode)
    PROVE  /\ ClientsOK(u)
           /\ OnlyFor(c, t, u)
           /\ u.norequest = t.norequest /\ u.bysock = t.bysock
           /\ u.w_buffer = t.w_buffer /\ u.buffered = t.buffered
           /\ u.write_client = t.write_client /\ u.read_client = ev
           /\ u.reader[c] = mode
  <1>1. t \in ClientTable
    BY DEF ClientsOK
  <1>2. u = [t EXCEPT !.read_client = ev, !.reader = [t.reader EXCEPT ![c] = mode]]
    BY <1>1 DEF ClientTable, setReader
  <1>3. [t.reader EXCEPT ![c] = mode] \in [Clients -> ReaderModes]
    BY <1>1, TypesOf
  <1>4. u \in ClientTable
    BY <1>1, <1>2, <1>3, Zenon DEF ClientTable
  <1>5. /\ u.norequest = t.norequest /\ u.opening_client = t.opening_client
        /\ u.bysock = t.bysock /\ u.read_client = ev
        /\ u.write_client = t.write_client /\ u.buffered = t.buffered
        /\ u.w_buffer = t.w_buffer
        /\ u.reader = [t.reader EXCEPT ![c] = mode]
    BY <1>1, <1>2 DEF ClientTable
  <1>6. /\ u.reader[c] = mode
        /\ \A k \in Clients \ {c} : u.reader[k] = t.reader[k]
    BY <1>1, <1>5, TypesOf
  <1>7. ClientsOK(u)
    BY <1>4, <1>5 DEF ClientsOK, EventSet
  <1> QED
    BY <1>5, <1>6, <1>7 DEF OnlyFor

LEMMA ReadDataOK ==
    ASSUME NEW t, ClientsOK(t), NEW c \in Clients, NEW rd \in Reads,
           NEW u, u = readData(t, c, rd)
    PROVE  /\ ClientsOK(u)
           /\ OnlyFor(c, t, u)
           /\ u.norequest = t.norequest
           /\ rd.got = "closed" => u.bysock = t.bysock \ {c}
           /\ rd.got # "closed" => u.bysock = t.bysock
           /\ c \in u.w_buffer => u.w_buffer = t.w_buffer /\ u.buffered = t.buffered
           /\ c \in u.bysock => u.reader[c] = rd.mode
  <1>1. t \in ClientTable /\ t.w_buffer \subseteq t.bysock /\ rd.mode \in ReaderModes
    BY DEF ClientsOK, Reads
  <1>2. CASE c \notin t.bysock
    <2>1. u = t
      BY <1>2 DEF readData
    <2>2. t.bysock \ {c} = t.bysock
      BY <1>2
    <2> QED
      BY <1>1, <1>2, <2>1, <2>2, Zenon DEF OnlyFor
  <1>3. CASE c \in t.bysock /\ rd.got = "closed"
    <2>1. u = cleanup(t, c)
      BY <1>3 DEF readData
    <2>2. t.norequest \ {c} = t.norequest
      BY <1>3 DEF ClientsOK
    <2>3. /\ ClientsOK(u)
          /\ OnlyFor(c, t, u)
          /\ u.norequest = t.norequest \ {c}
          /\ u.bysock = t.bysock \ {c}
          /\ u.w_buffer = t.w_buffer \ {c}
      BY <2>1, CleanupOK
    <2> QED
      BY <1>3, <2>2, <2>3
  <1>4. CASE c \in t.bysock /\ rd.got = "request"
    <2> DEFINE ev == corkSocket(t.read_client, c)
    <2>1. ev \in EventSet(Clients) /\ ev.socks = t.bysock /\ ev.corked \subseteq t.bysock
      BY <1>1, TypesOf DEF corkSocket, EventSet, ClientsOK
    <2>2. u = setReader(t, c, ev, rd.mode)
      BY <1>4 DEF readData, setReader
    <2> HIDE DEF ev
    <2>3. /\ ClientsOK(u)
          /\ OnlyFor(c, t, u)
          /\ u.norequest = t.norequest /\ u.bysock = t.bysock
          /\ u.w_buffer = t.w_buffer /\ u.buffered = t.buffered
          /\ u.reader[c] = rd.mode
      BY <1>1, <2>1, <2>2, SetReaderOK
    <2> QED
      BY <1>4, <2>3
  <1>5. CASE c \in t.bysock /\ rd.got \notin {"closed", "request"}
    <2>1. u = [t EXCEPT !.reader[c] = rd.mode]
      BY <1>5 DEF readData
    <2>2. u = setReader(t, c, t.read_client, rd.mode)
      BY <1>1, <2>1 DEF ClientTable, setReader
    <2>3. /\ t.read_client \in EventSet(Clients) /\ t.read_client.socks = t.bysock
          /\ t.read_client.corked \subseteq t.bysock
      BY <1>1, TypesOf DEF ClientsOK
    <2>4. /\ ClientsOK(u)
          /\ OnlyFor(c, t, u)
          /\ u.norequest = t.norequest /\ u.bysock = t.bysock
          /\ u.w_buffer = t.w_buffer /\ u.buffered = t.buffered
          /\ u.reader[c] = rd.mode
      BY <1>1, <2>2, <2>3, SetReaderOK
    <2> QED
      BY <1>5, <2>4
  <1> QED
    BY <1>2, <1>3, <1>4, <1>5

\* The first request of c was read.
moveToActive(t, c, ev, mode) ==
    [t EXCEPT !.norequest = t.norequest \ {c}, !.bysock = t.bysock \cup {c},
              !.read_client = ev, !.opening_client = t.opening_client \ {c},
              !.reader[c] = mode]

LEMMA MoveToActiveOK ==
    ASSUME NEW t, ClientsOK(t), NEW c \in t.norequest, NEW mode \in ReaderModes,
           NEW ev \in EventSet(Clients), ev.socks = t.bysock \cup {c},
           ev.corked \subseteq t.bysock \cup {c},
           NEW u, u = moveToActive(t, c, ev, mode)
    PROVE  /\ ClientsOK(u)
           /\ OnlyFor(c, t, u)
           /\ u.norequest = t.norequest \ {c}
           /\ u.bysock = t.bysock \cup {c}
           /\ u.w_buffer = t.w_buffer
           /\ u.reader[c] = mode
  <1>1. t \in ClientTable
    BY DEF ClientsOK
  <1>2. c \in Clients
    BY <1>1, TypesOf
  <1>3. u = [t EXCEPT !.norequest = t.norequest \ {c}, !.bysock = t.bysock \cup {c},
                      !.read_client = ev, !.opening_client = t.opening_client \ {c},
                      !.reader = [t.reader EXCEPT ![c] = mode]]
    BY <1>1 DEF ClientTable, moveToActive
  <1>4. /\ t.norequest \ {c} \in SUBSET Clients
        /\ t.bysock \cup {c} \in SUBSET Clients
        /\ t.opening_client \ {c} \in SUBSET Clients
        /\ [t.reader EXCEPT ![c] = mode] \in [Clients -> ReaderModes]
    BY <1>1, <1>2, TypesOf
  <1>5. u \in ClientTable
    BY <1>1, <1>3, <1>4, Zenon DEF ClientTable
  <1>6. /\ u.norequest = t.norequest \ {c}
        /\ u.opening_client = t.opening_client \ {c}
        /\ u.bysock = t.bysock \cup {c} /\ u.read_client = ev
        /\ u.write_client = t.write_client /\ u.buffered = t.buffered
        /\ u.w_buffer = t.w_buffer
        /\ u.reader = [t.reader EXCEPT ![c] = mode]
    BY <1>1, <1>3 DEF ClientTable
  <1>7. /\ u.reader[c] = mode
        /\ \A k \in Clients \ {c} : u.reader[k] = t.reader[k]
    BY <1>1, <1>2, <1>6, TypesOf
  <1>8. ClientsOK(u)
    BY <1>5, <1>6 DEF ClientsOK
  <1> QED
    BY <1>6, <1>7, <1>8 DEF OnlyFor

LEMMA ReadRequestOK ==
    ASSUME NEW t, ClientsOK(t), NEW c \in Clients, NEW rd \in Reads,
           NEW u, u = readRequest(t, c, rd)
    PROVE  /\ ClientsOK(u)
           /\ OnlyFor(c, t, u)
           /\ t.bysock \subseteq u.bysock
           /\ c \in t.bysock => u = t
           /\ c \in u.bysock /\ c \notin t.bysock =>
                /\ c \notin u.w_buffer
                /\ rd.got = "request"
                /\ u.reader[c] = rd.mode
           /\ c \in u.norequest => c \in t.norequest /\ rd.got # "request"
  <1>1. /\ t \in ClientTable /\ rd.mode \in ReaderModes
        /\ t.w_buffer \subseteq t.bysock /\ t.norequest \cap t.bysock = {}
    BY DEF ClientsOK, Reads
  <1>2. CASE c \notin t.norequest
    <2>1. u = t
      BY <1>2 DEF readRequest
    <2> QED
      BY <1>1, <1>2, <2>1, Zenon DEF OnlyFor
  <1>3. CASE c \in t.norequest /\ rd.got = "closed"
    <2>1. u = cleanup(t, c)
      BY <1>3 DEF readRequest
    <2>2. /\ ClientsOK(u)
          /\ OnlyFor(c, t, u)
          /\ u.norequest = t.norequest \ {c}
          /\ u.bysock = t.bysock \ {c}
      BY <2>1, CleanupOK
    <2> QED
      BY <1>1, <1>3, <2>2
  <1>4. CASE c \in t.norequest /\ rd.got = "request"
    <2> DEFINE ev == corkSocket(addSocket(t.read_client, c), c)
    <2>1. /\ ev \in EventSet(Clients) /\ ev.socks = t.bysock \cup {c}
          /\ ev.corked \subseteq t.bysock \cup {c}
      BY <1>1, TypesOf DEF corkSocket, addSocket, EventSet, ClientsOK
    <2>2. u = moveToActive(t, c, ev, rd.mode)
      BY <1>4 DEF readRequest, moveToActive
    <2> HIDE DEF ev
    <2>3. /\ ClientsOK(u)
          /\ OnlyFor(c, t, u)
          /\ u.norequest = t.norequest \ {c}
          /\ u.bysock = t.bysock \cup {c}
          /\ u.w_buffer = t.w_buffer
          /\ u.reader[c] = rd.mode
      BY <1>1, <1>4, <2>1, <2>2, MoveToActiveOK
    <2> QED
      BY <1>1, <1>4, <2>3
  <1>5. CASE c \in t.norequest /\ rd.got \notin {"closed", "request"}
    <2>1. u = [t EXCEPT !.reader[c] = rd.mode]
      BY <1>5 DEF readRequest
    <2>2. u = setReader(t, c, t.read_client, rd.mode)
      BY <1>1, <2>1 DEF ClientTable, setReader
    <2>3. /\ t.read_client \in EventSet(Clients) /\ t.read_client.socks = t.bysock
          /\ t.read_client.corked \subseteq t.bysock
      BY <1>1, TypesOf DEF ClientsOK
    <2>4. /\ ClientsOK(u)
          /\ OnlyFor(c, t, u)
          /\ u.norequest = t.norequest /\ u.bysock = t.bysock
      BY <1>1, <2>2, <2>3, SetReaderOK
    <2> QED
      BY <1>1, <1>5, <2>4
  <1> QED
    BY <1>2, <1>3, <1>4, <1>5
-----------------------------------------------------------------------------
(* Writing.                                                                *)

\* From t to u only the writer of client c and what it has left may differ.
Rewritten(c, t, u) ==
    /\ u \in ClientTable
    /\ u.norequest = t.norequest /\ u.bysock = t.bysock
    /\ u.opening_client = t.opening_client /\ u.read_client = t.read_client
    /\ u.write_client = t.write_client
    /\ u.buffered = t.buffered /\ u.reader = t.reader
    /\ u.w_buffer \in {t.w_buffer \cup {c}, t.w_buffer \ {c}}

setWriter(t, c, W, state) == [t EXCEPT !.w_buffer = W, !.writer[c] = state]

LEMMA SetWriterOK ==
    ASSUME NEW t \in ClientTable, NEW c \in Clients, NEW state \in WriterStates,
           NEW W, W \in {t.w_buffer \cup {c}, t.w_buffer \ {c}},
           NEW u, u = setWriter(t, c, W, state)
    PROVE  Rewritten(c, t, u) /\ u.w_buffer = W /\ u.writer[c] = state
  <1>1. u = [t EXCEPT !.w_buffer = W, !.writer = [t.writer EXCEPT ![c] = state]]
    BY DEF ClientTable, setWriter
  <1>2. /\ W \in SUBSET Clients
        /\ [t.writer EXCEPT ![c] = state] \in [Clients -> WriterStates]
        /\ [t.writer EXCEPT ![c] = state][c] = state
    BY TypesOf
  <1>3. u \in ClientTable
    BY <1>1, <1>2, Zenon DEF ClientTable
  <1>4. /\ u.norequest = t.norequest /\ u.bysock = t.bysock
        /\ u.opening_client = t.opening_client /\ u.read_client = t.read_client
        /\ u.write_client = t.write_client
        /\ u.buffered = t.buffered /\ u.reader = t.reader
        /\ u.w_buffer = W
        /\ u.writer = [t.writer EXCEPT ![c] = state]
    BY <1>1 DEF ClientTable
  <1> QED
    BY <1>2, <1>3, <1>4 DEF Rewritten

(* The writing coroutine keeps what it has not sent and says so: if it     *)
(* goes on and something is left, it reports that it is buffering.         *)
LEMMA WriteDataOK ==
    ASSUME NEW t \in ClientTable, NEW c \in Clients,
           NEW data, NEW sent, NEW w, w = writeData(t, c, data, sent)
    PROVE  /\ Rewritten(c, t, w.cm)
           /\ w.closed \in BOOLEAN /\ w.buffered \in BOOLEAN
           /\ w.had = (c \in t.w_buffer)
           /\ c \in w.cm.w_buffer => w.buffered
           /\ c \in w.cm.w_buffer /\ data # "data" => c \in t.w_buffer
           /\ data = "end" => w.buffered
  <1> DEFINE had      == c \in t.w_buffer
             full     == had \/ data = "data"
             finished == t.writer[c] = "finished" \/ data = "end"
             tries    == ~had \/ data = "flush"
             closed   == \/ t.writer[c] = "over"
                         \/ finished /\ ~full
                         \/ tries /\ sent = "error"
             left     == full /\ (tries => sent # "all")
             W        == IF left THEN t.w_buffer \cup {c} ELSE t.w_buffer \ {c}
             state    == IF closed THEN "over" ELSE IF finished THEN "finished"
                         ELSE t.writer[c]
  <1>1. /\ w.cm = [t EXCEPT !.w_buffer = W, !.writer[c] = state]
        /\ w.closed = closed /\ w.buffered = (left \/ finished) /\ w.had = had
    BY DEF writeData
  <1>2. W \in {t.w_buffer \cup {c}, t.w_buffer \ {c}}
    OBVIOUS
  <1>3. state \in WriterStates
    BY TypesOf DEF WriterStates
  <1>4. /\ c \in W => left
        /\ left /\ data # "data" => had
    OBVIOUS
  <1>5. /\ closed \in BOOLEAN /\ (left \/ finished) \in BOOLEAN
        /\ data = "end" => finished
    OBVIOUS
  <1> HIDE DEF W, state, left, closed, finished
  <1>6. w.cm = setWriter(t, c, W, state)
    BY <1>1 DEF setWriter
  <1>7. Rewritten(c, t, w.cm) /\ w.cm.w_buffer = W
    BY <1>2, <1>3, <1>6, SetWriterOK
  <1> QED
    BY <1>1, <1>4, <1>5, <1>7

LEMMA RewrittenOK ==
    ASSUME NEW t, ClientsOK(t), NEW c \in t.bysock, NEW u, Rewritten(c, t, u)
    PROVE  ClientsOK(u) /\ OnlyFor(c, t, u)
  BY DEF ClientsOK, Rewritten, OnlyFor

setOutput(t, c, n, W) == [t EXCEPT !.buffered[c] = n, !.write_client = W]

(* Putting a client in the list `buffered' with its write interest, or     *)
(* taking it out.                                                          *)
LEMMA SetOutputOK ==
    ASSUME NEW t, ClientsOK(t), NEW c \in t.bysock, NEW n \in Nat,
           NEW W, \/ W = t.write_client \cup {c} /\ n > 0
                  \/ W = t.write_client \ {c},
           NEW u, u = setOutput(t, c, n, W)
    PROVE  /\ ClientsOK(u)
           /\ OnlyFor(c, t, u)
           /\ u.norequest = t.norequest /\ u.bysock = t.bysock
           /\ u.w_buffer = t.w_buffer /\ u.reader = t.reader
           /\ u.buffered[c] = n
  <1>1. t \in ClientTable
    BY DEF ClientsOK
  <1>2. c \in Clients
    BY <1>1, TypesOf
  <1>3. u = [t EXCEPT !.buffered = [t.buffered EXCEPT ![c] = n], !.write_client = W]
    BY <1>1 DEF ClientTable, setOutput
  <1>4. /\ [t.buffered EXCEPT ![c] = n] \in [Clients -> Nat]
        /\ W \in SUBSET Clients
    BY <1>1, <1>2, TypesOf
  <1>5. u \in ClientTable
    BY <1>1, <1>3, <1>4, Zenon DEF ClientTable
  <1>6. /\ u.norequest = t.norequest /\ u.opening_client = t.opening_client
        /\ u.bysock = t.bysock /\ u.read_client = t.read_client
        /\ u.write_client = W /\ u.buffered = [t.buffered EXCEPT ![c] = n]
        /\ u.w_buffer = t.w_buffer /\ u.reader = t.reader
    BY <1>1, <1>3 DEF ClientTable
  <1>7. /\ u.buffered[c] = n
        /\ \A k \in Clients \ {c} : u.buffered[k] = t.buffered[k]
    BY <1>1, <1>2, <1>6, TypesOf
  <1>8. ClientsOK(u)
    BY <1>1, <1>2, <1>5, <1>6, <1>7, TypesOf DEF ClientsOK
  <1> QED
    BY <1>6, <1>7, <1>8 DEF OnlyFor

LEMMA OnlyForTwice ==
    ASSUME NEW c, NEW t, NEW u, NEW v, OnlyFor(c, t, u), OnlyFor(c, u, v)
    PROVE  OnlyFor(c, t, v)
  BY DEF OnlyFor

(* sendData() either closes the client or keeps it, with its output in the *)
(* list `buffered'.                                                        *)
LEMMA SendDataOK ==
    ASSUME NEW t, ClientsOK(t), NEW c, NEW data, NEW sent,
           NEW s, s = sendData(t, c, data, sent)
    PROVE  /\ ClientsOK(s.cm)
           /\ s.status \in {"unknown", "closed", "buffering", "clear"}
           /\ s.status = "unknown" <=> c \notin t.bysock
           /\ s.status = "unknown" => s.cm = t
           /\ s.status # "unknown" => c \in Clients /\ OnlyFor(c, t, s.cm)
           /\ s.cm.norequest = t.norequest
           /\ s.status = "closed" => s.cm.bysock = t.bysock \ {c}
           /\ s.status # "closed" => s.cm.bysock = t.bysock
           /\ c \in s.cm.bysock => Listed(s.cm, c) /\ s.cm.reader[c] = t.reader[c]
  <1>1. /\ t \in ClientTable /\ t.norequest \cap t.bysock = {}
        /\ t.w_buffer \subseteq t.bysock
    BY DEF ClientsOK
  <1>2. CASE c \notin t.bysock
    <2>1. s = [cm |-> t, status |-> "unknown", change |-> FALSE]
      BY <1>2 DEF sendData
    <2> QED
      BY <1>2, <2>1
  <1> SUFFICES ASSUME c \in t.bysock
               PROVE  /\ ClientsOK(s.cm)
                      /\ s.status \in {"closed", "buffering", "clear"}
                      /\ OnlyFor(c, t, s.cm)
                      /\ s.cm.norequest = t.norequest
                      /\ s.status = "closed" => s.cm.bysock = t.bysock \ {c}
                      /\ s.status # "closed" => s.cm.bysock = t.bysock
                      /\ s.status # "closed" =>
                            Listed(s.cm, c) /\ s.cm.reader[c] = t.reader[c]
    <2>1. c \in t.bysock => c \in Clients
      BY <1>1, TypesOf
    <2> QED
      BY <1>2, <2>1
  <1> DEFINE w == writeData(t, c, data, sent)
             v == w.cm
  <1>3. c \in Clients
    BY <1>1, TypesOf
  <1>4. /\ Rewritten(c, t, v)
        /\ w.closed \in BOOLEAN /\ w.buffered \in BOOLEAN
        /\ c \in v.w_buffer => w.buffered
    BY <1>1, <1>3, WriteDataOK
  <1>5. ClientsOK(v) /\ OnlyFor(c, t, v)
    BY <1>4, RewrittenOK
  <1>6. /\ v.norequest = t.norequest /\ v.bysock = t.bysock
        /\ v.reader = t.reader /\ v.buffered = t.buffered
        /\ v \in ClientTable /\ v.buffered[c] \in Nat
    BY <1>3, <1>4, TypesOf DEF Rewritten
  <1>7. /\ w.closed => s = [cm |-> cleanup(v, c), status |-> "closed", change |-> FALSE]
        /\ ~w.closed /\ w.buffered /\ t.buffered[c] = 0 =>
             s = [cm |-> watchOutput(v, c), status |-> "buffering", change |-> TRUE]
        /\ ~w.closed /\ ~w.buffered /\ w.had /\ t.buffered[c] > 0 =>
             s = [cm |-> unwatchOutput(v, c), status |-> "clear", change |-> TRUE]
        /\ ~w.closed /\ ~(w.buffered /\ t.buffered[c] = 0)
             /\ ~(~w.buffered /\ w.had /\ t.buffered[c] > 0) =>
             s = [cm |-> v, change |-> FALSE,
                  status |-> IF w.buffered THEN "buffering" ELSE "clear"]
    BY Zenon DEF sendData
  <1> HIDE DEF w
  <1>8. CASE w.closed
    <2>1. s.cm = cleanup(v, c) /\ s.status = "closed"
      BY <1>7, <1>8
    <2>2. /\ ClientsOK(s.cm) /\ OnlyFor(c, v, s.cm)
          /\ s.cm.norequest = v.norequest \ {c} /\ s.cm.bysock = v.bysock \ {c}
      BY <1>3, <1>5, <2>1, CleanupOK
    <2>3. t.norequest \ {c} = t.norequest
      BY <1>1
    <2>4. OnlyFor(c, t, s.cm)
      BY <1>5, <2>2, OnlyForTwice
    <2> QED
      BY <1>6, <2>1, <2>2, <2>3, <2>4
  <1>9. CASE ~w.closed /\ w.buffered /\ v.buffered[c] = 0
    <2>0. /\ s.cm = watchOutput(v, c)
          /\ s.status = "buffering"
      BY <1>6, <1>7, <1>9
    <2>1. s.cm = setOutput(v, c, 1, v.write_client \cup {c})
      BY <1>6, <1>9, <2>0 DEF setOutput, watchOutput, ClientTable
    <2>2. /\ ClientsOK(s.cm) /\ OnlyFor(c, v, s.cm)
          /\ s.cm.norequest = v.norequest /\ s.cm.bysock = v.bysock
          /\ s.cm.reader = v.reader /\ s.cm.buffered[c] = 1
      BY <1>5, <1>6, <2>1, SetOutputOK
    <2>4. OnlyFor(c, t, s.cm)
      BY <1>5, <2>2, OnlyForTwice
    <2>5. Listed(s.cm, c)
      BY <2>2 DEF Listed
    <2>6. s.status = "buffering"
      BY <2>0
    <2> QED
      BY <1>6, <2>2, <2>4, <2>5, <2>6
  <1>10. CASE ~w.closed /\ ~w.buffered /\ w.had /\ v.buffered[c] > 0
    <2>0. /\ s.cm = unwatchOutput(v, c)
          /\ s.status = "clear"
      BY <1>6, <1>7, <1>10
    <2>1. s.cm = setOutput(v, c, v.buffered[c] - 1, v.write_client \ {c})
      BY <1>6, <2>0 DEF setOutput, unwatchOutput, ClientTable
    <2>2. v.buffered[c] - 1 \in Nat
      BY <1>6, <1>10
    <2>3. /\ ClientsOK(s.cm) /\ OnlyFor(c, v, s.cm)
          /\ s.cm.norequest = v.norequest /\ s.cm.bysock = v.bysock
          /\ s.cm.reader = v.reader /\ s.cm.w_buffer = v.w_buffer
      BY <1>5, <1>6, <2>1, <2>2, SetOutputOK
    <2>4. OnlyFor(c, t, s.cm)
      BY <1>5, <2>3, OnlyForTwice
    <2> QED
      BY <1>4, <1>6, <1>10, <2>0, <2>3, <2>4 DEF Listed
  <1>11. CASE /\ ~w.closed /\ ~(w.buffered /\ v.buffered[c] = 0)
              /\ ~(~w.buffered /\ w.had /\ v.buffered[c] > 0)
    <2>1. /\ s.cm = v
          /\ s.status = IF w.buffered THEN "buffering" ELSE "clear"
      BY <1>6, <1>7, <1>11
    <2>2. Listed(v, c)
      BY <1>4, <1>6, <1>11 DEF Listed
    <2> HIDE DEF v
    <2>3. s.status \in {"buffering", "clear"}
      BY <2>1
    <2> QED
      BY <1>5, <1>6, <2>1, <2>2, <2>3
  <1> QED
    BY <1>4, <1>8, <1>9, <1>10, <1>11

\* The contents after which the client, of any server, is buffering if it has
\* something left to send; with the others this is so of http clients only.
Simple(c, content) ==
    content \in {"stream", "response", "end", "file"} \/ SourceOf[c] \in {"proxy", "web"}

LEMMA RewrittenTwice ==
    ASSUME NEW c, NEW t, NEW u, NEW v, Rewritten(c, t, u), Rewritten(c, u, v)
    PROVE  Rewritten(c, t, v)
  <1>1. \A A, B, C : B \in {A \cup {c}, A \ {c}} /\ C \in {B \cup {c}, B \ {c}} =>
                     C \in {A \cup {c}, A \ {c}}
    OBVIOUS
  <1> QED
    BY <1>1 DEF Rewritten

(* startData() never loses sight of output: when it goes on with something *)
(* left to send, the client is buffering, or was before.                   *)
LEMMA StartWriterOK ==
    ASSUME NEW t \in ClientTable, NEW c \in Clients, NEW content \in Contents,
           NEW sent, NEW w, w = startWriter(t, c, content, sent)
    PROVE  /\ Rewritten(c, t, w.cm)
           /\ w.closed \in BOOLEAN /\ w.buffered \in BOOLEAN /\ w.had \in BOOLEAN
           /\ ~w.closed /\ ~w.buffered /\ w.had => c \in t.w_buffer
           /\ Simple(c, content) /\ ~w.closed /\ c \in w.cm.w_buffer =>
                w.buffered /\ (w.had => c \in t.w_buffer)
  <1> DEFINE fresh == [t EXCEPT !.writer[c] = "open"]
             first == CASE content = "page"  -> "data"
                        [] content = "empty" -> "flush"
                        [] OTHER -> "end"
             page  == writeData(fresh, c, first, sent)
             last  == writeData(page.cm, c, "end", "all")
             W     == IF c \in t.w_buffer THEN t.w_buffer \cup {c} ELSE t.w_buffer \ {c}
  <1>1. Rewritten(c, t, fresh) /\ fresh.w_buffer = t.w_buffer
    <2>1. W = t.w_buffer
      OBVIOUS
    <2>2. fresh = setWriter(t, c, W, "open")
      BY <2>1 DEF setWriter, ClientTable
    <2>3. W \in {t.w_buffer \cup {c}, t.w_buffer \ {c}}
      OBVIOUS
    <2> HIDE DEF fresh, W
    <2> QED
      BY <2>1, <2>2, <2>3, SetWriterOK DEF WriterStates
  <1>2. fresh \in ClientTable
    BY <1>1 DEF Rewritten
  <1> HIDE DEF fresh
  <1>3. CASE content \in {"stream", "response"}
    <2> DEFINE data == IF content = "stream" THEN "flush" ELSE "data"
    <2>1. w = writeData(fresh, c, data, sent)
      BY <1>3 DEF startWriter, fresh
    <2> HIDE DEF data
    <2>2. /\ Rewritten(c, fresh, w.cm)
          /\ w.closed \in BOOLEAN /\ w.buffered \in BOOLEAN
          /\ w.had = (c \in fresh.w_buffer)
          /\ c \in w.cm.w_buffer => w.buffered
      BY <1>2, <2>1, WriteDataOK
    <2>3. Rewritten(c, t, w.cm)
      BY <1>1, <2>2, RewrittenTwice
    <2> QED
      BY <1>1, <2>2, <2>3
  <1>4. CASE content = "file"
    <2>1. /\ w.cm = [t EXCEPT !.writer[c] = "finished", !.w_buffer = @ \cup {c}]
          /\ w.closed = (SourceOf[c] \in {"tls", "passthrough"})
          /\ w.buffered = TRUE /\ w.had = FALSE
      BY <1>4 DEF startWriter
    <2>2. w.cm = setWriter(t, c, t.w_buffer \cup {c}, "finished")
      BY <2>1 DEF setWriter, ClientTable
    <2>3. Rewritten(c, t, w.cm)
      BY <2>2, SetWriterOK DEF WriterStates
    <2>4. w.closed \in BOOLEAN /\ w.buffered = TRUE /\ w.had = FALSE
      BY <2>1
    <2> QED
      BY <2>3, <2>4
  <1>5. CASE content \in {"page", "empty", "end"}
    <2>1. w = IF SourceOf[c] \in {"proxy", "web"} THEN [page EXCEPT !.cm = last.cm] ELSE last
      BY <1>5 DEF startWriter, ReturnsPage, fresh
    <2>2. page.had = (c \in fresh.w_buffer) /\ last.had = (c \in page.cm.w_buffer)
      BY DEF writeData
    <2>3. SourceOf[c] \in {"proxy", "web"} =>
             /\ w.cm = last.cm /\ w.closed = page.closed
             /\ w.buffered = page.buffered /\ w.had = page.had
      BY <2>1 DEF writeData
    <2>4. /\ content = "end" => first # "data"
          /\ Simple(c, content) => \/ SourceOf[c] \in {"proxy", "web"}
                                   \/ content = "end"
      BY <1>5 DEF Simple
    <2> HIDE DEF first
    <2>5. /\ Rewritten(c, fresh, page.cm)
          /\ page.closed \in BOOLEAN /\ page.buffered \in BOOLEAN
          /\ page.had = (c \in fresh.w_buffer)
          /\ c \in page.cm.w_buffer => page.buffered
          /\ c \in page.cm.w_buffer /\ first # "data" => c \in fresh.w_buffer
      BY <1>2, WriteDataOK
    <2>6. page.cm \in ClientTable
      BY <2>5 DEF Rewritten
    <2> HIDE DEF page
    <2>7. /\ Rewritten(c, page.cm, last.cm)
          /\ last.closed \in BOOLEAN /\ last.buffered \in BOOLEAN /\ last.buffered
          /\ last.had = (c \in page.cm.w_buffer)
          /\ c \in last.cm.w_buffer => c \in page.cm.w_buffer
      BY <2>6, WriteDataOK
    <2> HIDE DEF last
    <2>8. Rewritten(c, t, last.cm)
      BY <1>1, <2>5, <2>7, RewrittenTwice
    <2>9. CASE SourceOf[c] \in {"proxy", "web"}
      <3>1. /\ w.cm = last.cm /\ w.closed = page.closed
            /\ w.buffered = page.buffered /\ w.had = page.had
        BY <2>3, <2>9
      <3>2. c \in last.cm.w_buffer => page.buffered
        BY <2>5, <2>7
      <3> QED
        BY <1>1, <2>5, <2>8, <3>1, <3>2
    <2>10. CASE SourceOf[c] \notin {"proxy", "web"}
      <3>1. w = last
        BY <2>1, <2>10
      <3>2. Simple(c, content) /\ c \in last.cm.w_buffer => c \in t.w_buffer
        BY <1>1, <2>4, <2>5, <2>7, <2>10
      <3>3. /\ last.closed \in BOOLEAN /\ last.had \in BOOLEAN
            /\ last.buffered = TRUE
        BY <2>7
      <3> QED
        BY <2>8, <3>1, <3>2, <3>3
    <2> QED
      BY <2>9, <2>10
  <1> QED
    BY <1>3, <1>4, <1>5 DEF Contents

(* startData() either closes the client or keeps it with its reader in the *)
(* mode the answer asks for.  Taking the client out of the list `buffered' *)
(* needs it to be there.                                                   *)
LEMMA StartDataOK ==
    ASSUME NEW t, ClientsOK(t), NEW c \in Clients, NEW content \in Contents, NEW sent,
           NEW rd \in Reads, c \in t.bysock => Listed(t, c),
           NEW s, s = startData(t, c, content, sent, rd)
    PROVE  /\ ClientsOK(s.cm)
           /\ s.got \in {"unknown", "closed", "nothing", "data"}
           /\ s.got = "unknown" => s.cm = t
           /\ OnlyFor(c, t, s.cm)
           /\ s.cm.norequest = t.norequest
           /\ s.got = "unknown" <=> c \notin t.bysock
           /\ s.got = "closed" => s.cm.bysock = t.bysock \ {c}
           /\ s.got # "closed" => s.cm.bysock = t.bysock
           /\ c \in s.cm.bysock => /\ s.cm.reader[c] = rd.mode
                                   /\ Simple(c, content) => Listed(s.cm, c)
  <1>1. /\ t \in ClientTable /\ t.norequest \cap t.bysock = {}
        /\ rd.mode \in ReaderModes
    BY DEF ClientsOK, Reads
  <1>2. CASE c \notin t.bysock
    <2>1. s.cm = t /\ s.got = "unknown"
      BY <1>2 DEF startData
    <2>2. OnlyFor(c, t, t)
      BY DEF OnlyFor
    <2> QED
      BY <1>2, <2>1, <2>2
  <1>3. CASE c \in t.bysock
    <2> DEFINE w    == startWriter(t, c, content, sent)
               ev   == uncorkSocket(w.cm.read_client, c)
               next == setReader(w.cm, c, ev, rd.mode)
    <2>1. /\ Rewritten(c, t, w.cm)
          /\ w.closed \in BOOLEAN /\ w.buffered \in BOOLEAN /\ w.had \in BOOLEAN
          /\ ~w.closed /\ ~w.buffered /\ w.had => c \in t.w_buffer
          /\ Simple(c, content) /\ ~w.closed /\ c \in w.cm.w_buffer =>
               w.buffered /\ (w.had => c \in t.w_buffer)
      BY <1>1, StartWriterOK
    <2>2. resume(w.cm, c, rd.mode) = next
      BY <2>1 DEF resume, setReader, ClientTable, Rewritten
    <2> DEFINE leaves == w.closed \/ rd.got \in {"closed", "request"}
    <2>3. /\ leaves => s = [cm |-> cleanup(w.cm, c), got |-> "closed"]
          /\ ~leaves /\ w.buffered /\ ~w.had =>
               s = [cm |-> watchOutput(next, c), got |-> rd.got]
          /\ ~leaves /\ ~w.buffered /\ w.had =>
               s = [cm |-> unwatchOutput(next, c), got |-> rd.got]
          /\ ~leaves /\ ~(w.buffered /\ ~w.had) /\ ~(~w.buffered /\ w.had) =>
               s = [cm |-> next, got |-> rd.got]
      BY <1>3, <2>1, <2>2, Zenon DEF startData
    <2> HIDE DEF w, leaves
    <2>4. ClientsOK(w.cm) /\ OnlyFor(c, t, w.cm)
      BY <1>3, <2>1, RewrittenOK
    <2>5. /\ w.cm.norequest = t.norequest /\ w.cm.bysock = t.bysock
          /\ w.cm.buffered = t.buffered /\ t.buffered[c] \in Nat
      BY <1>1, <2>1, TypesOf DEF Rewritten
    <2>6. ev \in EventSet(Clients) /\ ev.socks = w.cm.bysock /\ ev.corked \subseteq w.cm.bysock
      BY <2>4, TypesOf DEF ClientsOK, EventSet, uncorkSocket
    <2> HIDE DEF ev
    <2>7. /\ ClientsOK(next) /\ OnlyFor(c, w.cm, next)
          /\ next.norequest = t.norequest /\ next.bysock = t.bysock
          /\ next.w_buffer = w.cm.w_buffer /\ next.buffered = t.buffered
          /\ next.reader[c] = rd.mode
      BY <1>1, <2>4, <2>5, <2>6, SetReaderOK
    <2>8. OnlyFor(c, t, next)
      BY <2>4, <2>7, OnlyForTwice
    <2> HIDE DEF next
    <2>9. rd.got \in {"closed", "nothing", "request", "data"}
      BY DEF Reads
    <2>10. CASE leaves
      <3>1. s.cm = cleanup(w.cm, c) /\ s.got = "closed"
        BY <2>3, <2>10
      <3>2. /\ ClientsOK(s.cm) /\ OnlyFor(c, w.cm, s.cm)
            /\ s.cm.norequest = t.norequest \ {c} /\ s.cm.bysock = t.bysock \ {c}
        BY <2>4, <2>5, <3>1, CleanupOK
      <3>3. OnlyFor(c, t, s.cm)
        BY <2>4, <3>2, OnlyForTwice
      <3>4. t.norequest \ {c} = t.norequest
        BY <1>1, <1>3
      <3> QED
        BY <1>3, <3>1, <3>2, <3>3, <3>4
    <2>11. CASE ~leaves /\ w.buffered /\ ~w.had
      <3>1. s = [cm |-> watchOutput(next, c), got |-> rd.got]
        BY <2>3, <2>11
      <3>2. s.cm = setOutput(next, c, t.buffered[c] + 1, next.write_client \cup {c})
        BY <2>7, <3>1 DEF setOutput, watchOutput, ClientTable, ClientsOK
      <3>3. s.got \in {"nothing", "data"}
        BY <2>9, <2>11, <3>1 DEF leaves
      <3>4. t.buffered[c] + 1 \in Nat /\ t.buffered[c] + 1 > 0
        BY <2>5
      <3>5. /\ ClientsOK(s.cm) /\ OnlyFor(c, next, s.cm)
            /\ s.cm.norequest = t.norequest /\ s.cm.bysock = t.bysock
            /\ s.cm.reader[c] = rd.mode /\ s.cm.buffered[c] = t.buffered[c] + 1
        BY <1>3, <2>7, <3>2, <3>4, SetOutputOK
      <3>6. OnlyFor(c, t, s.cm)
        BY <2>8, <3>5, OnlyForTwice
      <3>7. Listed(s.cm, c)
        BY <3>4, <3>5 DEF Listed
      <3> QED
        BY <1>3, <3>3, <3>5, <3>6, <3>7
    <2>12. CASE ~leaves /\ ~w.buffered /\ w.had
      <3>1. s = [cm |-> unwatchOutput(next, c), got |-> rd.got]
        BY <2>3, <2>12
      <3>2. s.cm = setOutput(next, c, t.buffered[c] - 1, next.write_client \ {c})
        BY <2>7, <3>1 DEF setOutput, unwatchOutput, ClientTable, ClientsOK
      <3>3. s.got \in {"nothing", "data"}
        BY <2>9, <2>12, <3>1 DEF leaves
      <3>4. t.buffered[c] > 0
        BY <1>3, <2>1, <2>12 DEF Listed, leaves
      <3>5. t.buffered[c] - 1 \in Nat
        BY <2>5, <3>4
      <3>6. /\ ClientsOK(s.cm) /\ OnlyFor(c, next, s.cm)
            /\ s.cm.norequest = t.norequest /\ s.cm.bysock = t.bysock
            /\ s.cm.reader[c] = rd.mode /\ s.cm.w_buffer = w.cm.w_buffer
        BY <1>3, <2>7, <3>2, <3>5, SetOutputOK
      <3>7. OnlyFor(c, t, s.cm)
        BY <2>8, <3>6, OnlyForTwice
      <3>8. Simple(c, content) => Listed(s.cm, c)
        BY <2>1, <2>12, <3>6 DEF Listed, leaves
      <3> QED
        BY <1>3, <3>3, <3>6, <3>7, <3>8
    <2>13. CASE ~leaves /\ ~(w.buffered /\ ~w.had) /\ ~(~w.buffered /\ w.had)
      <3>1. s.cm = next /\ s.got = rd.got
        BY <2>3, <2>13
      <3>2. s.got \in {"nothing", "data"}
        BY <2>9, <2>13, <3>1 DEF leaves
      <3>3. Simple(c, content) => Listed(next, c)
        BY <1>3, <2>1, <2>7, <2>13 DEF Listed, leaves
      <3> QED
        BY <1>3, <2>7, <2>8, <3>1, <3>2, <3>3
    <2> QED
      BY <2>1, <2>10, <2>11, <2>12, <2>13
  <1> QED
    BY <1>2, <1>3
-----------------------------------------------------------------------------
(* The writing coroutines.                                                 *)

\* From t to u only the clients of the set are newly watched for writing, and the
\* clients that remain keep a started writer.
Writes(watched, t, u) ==
    /\ u.write_client \subseteq t.write_client \cup watched
    /\ \A c \in Clients : c \in u.bysock /\ t.writer[c] # "new" => u.writer[c] # "new"

\* Only the entry of client c in a table of writers has changed.
LEMMA WritesOne ==
    ASSUME NEW t \in ClientTable, NEW c \in Clients, NEW u, NEW state,
           u.writer = [t.writer EXCEPT ![c] = state], NEW watched,
           u.write_client \subseteq t.write_client \cup watched,
           c \in u.bysock /\ t.writer[c] # "new" => state # "new"
    PROVE  Writes(watched, t, u)
  <1>1. ASSUME NEW k \in Clients, k \in u.bysock, t.writer[k] # "new"
        PROVE  u.writer[k] # "new"
    <2>1. u.writer[k] = IF k = c THEN state ELSE t.writer[k]
      BY TypesOf
    <2> QED
      BY <1>1, <2>1
  <1> QED
    BY <1>1 DEF Writes

LEMMA WritesNothing ==
    ASSUME NEW t, NEW u, u.writer = t.writer, u.write_client \subseteq t.write_client
    PROVE  Writes({}, t, u)
  BY DEF Writes

LEMMA WritesTwice ==
    ASSUME NEW t, NEW u, NEW v, NEW A, NEW B, Writes(A, t, u), Writes(B, u, v),
           v.bysock \subseteq u.bysock
    PROVE  Writes(A \cup B, t, v)
  BY DEF Writes

LEMMA CleanupWrites ==
    ASSUME NEW t \in ClientTable, NEW c \in Clients, NEW u, u = cleanup(t, c)
    PROVE  Writes({}, t, u)
  <1>1. /\ u.writer = [t.writer EXCEPT ![c] = "new"] /\ u.bysock = t.bysock \ {c}
        /\ u.write_client = t.write_client \ {c}
    BY DEF cleanup
  <1> QED
    BY <1>1, WritesOne

LEMMA ConnectionWrites ==
    ASSUME NEW t \in ClientTable, NEW c
    PROVE  /\ Writes({}, t, httpConnection(t, c))
           /\ Writes({}, t, passthroughConnection(t, c))
  BY WritesNothing DEF httpConnection, passthroughConnection, ClientTable

LEMMA CorkWrites ==
    ASSUME NEW t \in ClientTable, NEW c
    PROVE  /\ Writes({}, t, corkUpload(t, c))
           /\ Writes({}, t, uncorkUpload(t, c))
  BY WritesNothing DEF corkUpload, uncorkUpload, ClientTable

LEMMA ReadRequestWrites ==
    ASSUME NEW t \in ClientTable, NEW c \in Clients, NEW rd, NEW u, u = readRequest(t, c, rd)
    PROVE  Writes({}, t, u)
  <1>1. CASE c \in t.norequest /\ rd.got = "closed"
    BY <1>1, CleanupWrites DEF readRequest
  <1>2. CASE ~(c \in t.norequest /\ rd.got = "closed")
    <2>1. u.writer = t.writer /\ u.write_client = t.write_client
      BY <1>2 DEF readRequest, ClientTable
    <2> QED
      BY <2>1, WritesNothing
  <1> QED
    BY <1>1, <1>2

LEMMA ReadDataWrites ==
    ASSUME NEW t \in ClientTable, NEW c \in Clients, NEW rd, NEW u, u = readData(t, c, rd)
    PROVE  Writes({}, t, u)
  <1>1. CASE c \in t.bysock /\ rd.got = "closed"
    BY <1>1, CleanupWrites DEF readData
  <1>2. CASE ~(c \in t.bysock /\ rd.got = "closed")
    <2>1. u.writer = t.writer /\ u.write_client = t.write_client
      BY <1>2 DEF readData, ClientTable
    <2> QED
      BY <2>1, WritesNothing
  <1> QED
    BY <1>1, <1>2

LEMMA WriteDataWrites ==
    ASSUME NEW t \in ClientTable, NEW c \in Clients, NEW data, NEW sent,
           NEW u, u = writeData(t, c, data, sent).cm
    PROVE  /\ Writes({}, t, u)
           /\ u \in ClientTable /\ u.bysock = t.bysock
           /\ t.writer[c] # "new" => u.writer[c] # "new"
  <1>1. Rewritten(c, t, u)
    BY WriteDataOK
  <1>2. PICK state : /\ state \in {"over", "finished", t.writer[c]}
                     /\ u.writer = [t.writer EXCEPT ![c] = state]
    BY DEF writeData, ClientTable
  <1>3. u.writer[c] = state
    BY <1>2, TypesOf
  <1> QED
    BY <1>1, <1>2, <1>3, WritesOne DEF Rewritten

LEMMA OutputWrites ==
    ASSUME NEW t \in ClientTable, NEW c
    PROVE  /\ Writes({c}, t, watchOutput(t, c)) /\ Writes({c}, t, unwatchOutput(t, c))
           /\ watchOutput(t, c).writer = t.writer /\ unwatchOutput(t, c).writer = t.writer
           /\ watchOutput(t, c).bysock = t.bysock /\ unwatchOutput(t, c).bysock = t.bysock
  BY DEF Writes, watchOutput, unwatchOutput, ClientTable

(* sendData() watches no other client for writing.                         *)
LEMMA SendDataWrites ==
    ASSUME NEW t, ClientsOK(t), NEW c, NEW data, NEW sent,
           NEW u, u = sendData(t, c, data, sent).cm
    PROVE  Writes({c}, t, u)
  <1> DEFINE w == writeData(t, c, data, sent)
  <1>1. CASE c \notin t.bysock
    BY <1>1 DEF sendData, Writes
  <1>2. CASE c \in t.bysock
    <2>1. t \in ClientTable /\ c \in Clients
      BY <1>2, TypesOf DEF ClientsOK
    <2>2. Writes({}, t, w.cm) /\ w.cm \in ClientTable /\ w.cm.bysock = t.bysock
      BY <2>1, WriteDataWrites
    <2>3. u \in {cleanup(w.cm, c), watchOutput(w.cm, c), unwatchOutput(w.cm, c), w.cm}
      BY <1>2 DEF sendData
    <2> HIDE DEF w
    <2>4. CASE u = cleanup(w.cm, c)
      <3>1. Writes({}, w.cm, u) /\ u.bysock \subseteq w.cm.bysock
        BY <2>1, <2>2, <2>4, CleanupWrites DEF cleanup
      <3> QED
        BY <2>2, <3>1, WritesTwice DEF Writes
    <2>5. CASE u \in {watchOutput(w.cm, c), unwatchOutput(w.cm, c)}
      <3>1. Writes({c}, w.cm, u) /\ u.bysock = w.cm.bysock
        BY <2>2, <2>5, OutputWrites
      <3> QED
        BY <2>2, <3>1 DEF Writes
    <2>6. CASE u = w.cm
      BY <2>2, <2>6 DEF Writes
    <2> QED
      BY <2>3, <2>4, <2>5, <2>6
  <1> QED
    BY <1>1, <1>2

LEMMA StartWriterWrites ==
    ASSUME NEW t \in ClientTable, NEW c \in Clients, NEW content \in Contents, NEW sent,
           NEW u, u = startWriter(t, c, content, sent).cm
    PROVE  /\ Writes({}, t, u) /\ u \in ClientTable /\ u.bysock = t.bysock
           /\ u.writer[c] # "new"
  <1>1. PICK fresh : fresh = [t EXCEPT !.writer[c] = "open"]
    OBVIOUS
  <1>2. /\ fresh.writer = [t.writer EXCEPT ![c] = "open"]
        /\ fresh.write_client = t.write_client /\ fresh.bysock = t.bysock
        /\ fresh \in ClientTable /\ fresh.writer[c] = "open"
    BY <1>1, TypesOf DEF ClientTable, WriterStates
  <1>3. Writes({}, t, fresh)
    BY <1>2, WritesOne
  <1>0. fresh \in ClientTable /\ fresh.bysock = t.bysock /\ fresh.writer[c] # "new"
    BY <1>2
  <1>4. CASE content \in {"stream", "response"}
    <2>1. PICK data : u = writeData(fresh, c, data, sent).cm
      BY <1>1, <1>4 DEF startWriter
    <2>2. /\ Writes({}, fresh, u) /\ u \in ClientTable /\ u.bysock = t.bysock
          /\ u.writer[c] # "new"
      <3>1. Writes({}, fresh, u) /\ u \in ClientTable /\ u.bysock = fresh.bysock
        BY <1>0, <2>1, WriteDataWrites
      <3>2. u.writer[c] # "new"
        BY <1>0, <2>1, WriteDataWrites
      <3> QED
        BY <1>0, <3>1, <3>2
    <2> QED
      BY <1>2, <1>3, <2>2, WritesTwice
  <1>5. CASE content = "file"
    <2>1. u = [t EXCEPT !.writer[c] = "finished", !.w_buffer = @ \cup {c}]
      BY <1>5 DEF startWriter
    <2>2. u = setWriter(t, c, t.w_buffer \cup {c}, "finished")
      BY <2>1 DEF setWriter, ClientTable
    <2>3. Rewritten(c, t, u) /\ u.writer[c] = "finished"
      BY <2>2, SetWriterOK DEF WriterStates
    <2>4. u.writer = [t.writer EXCEPT ![c] = "finished"]
      BY <2>1 DEF ClientTable
    <2> QED
      BY <2>3, <2>4, WritesOne DEF Rewritten
  <1>6. CASE content \in {"page", "empty", "end"}
    <2> DEFINE first == CASE content = "page"  -> "data"
                          [] content = "empty" -> "flush"
                          [] OTHER -> "end"
               page  == writeData(fresh, c, first, sent)
               last  == writeData(page.cm, c, "end", "all")
    <2>1. startWriter(t, c, content, sent)
            = IF SourceOf[c] \in {"proxy", "web"} THEN [page EXCEPT !.cm = last.cm] ELSE last
      BY <1>1, <1>6 DEF startWriter, ReturnsPage
    <2>2. u = last.cm
      BY <2>1 DEF writeData
    <2> HIDE DEF first, last
    <2>3. PICK v : v = page.cm
      OBVIOUS
    <2>4. u = writeData(v, c, "end", "all").cm
      BY <2>2, <2>3 DEF last
    <2>5. v = writeData(fresh, c, first, sent).cm
      BY <2>3
    <2> HIDE DEF page
    <2>6. Writes({}, fresh, v) /\ v \in ClientTable /\ v.bysock = t.bysock /\ v.writer[c] # "new"
      <3>1. Writes({}, fresh, v) /\ v \in ClientTable /\ v.bysock = fresh.bysock
        BY <1>0, <2>5, WriteDataWrites
      <3>2. v.writer[c] # "new"
        BY <1>0, <2>5, WriteDataWrites
      <3> QED
        BY <1>0, <3>1, <3>2
    <2>7. Writes({}, v, u) /\ u \in ClientTable /\ u.bysock = t.bysock /\ u.writer[c] # "new"
      BY <2>4, <2>6, WriteDataWrites
    <2>8. Writes({}, t, v)
      BY <1>2, <1>3, <2>6, WritesTwice
    <2> QED
      BY <2>6, <2>7, <2>8, WritesTwice
  <1> QED
    BY <1>4, <1>5, <1>6 DEF Contents

(* A client that startData() goes on with has a writer.                    *)
LEMMA StartDataWrites ==
    ASSUME NEW t \in ClientTable, NEW c \in Clients, NEW content \in Contents, NEW sent,
           NEW rd \in Reads, NEW u, u = startData(t, c, content, sent, rd).cm
    PROVE  /\ Writes({c}, t, u)
           /\ c \in u.bysock => u.writer[c] # "new"
  <1> DEFINE w    == startWriter(t, c, content, sent)
             next == resume(w.cm, c, rd.mode)
  <1>1. CASE c \notin t.bysock
    <2>1. u = t
      BY <1>1 DEF startData
    <2> QED
      BY <1>1, <2>1 DEF Writes
  <1>2. CASE c \in t.bysock
    <2>1. /\ Writes({}, t, w.cm) /\ w.cm \in ClientTable /\ w.cm.bysock = t.bysock
          /\ w.cm.writer[c] # "new"
      BY StartWriterWrites
    <2>2. u \in {cleanup(w.cm, c), watchOutput(next, c), unwatchOutput(next, c), next}
      BY <1>2 DEF startData
    <2> HIDE DEF w
    <2>3. /\ next.writer = w.cm.writer /\ next.write_client = w.cm.write_client
          /\ next.bysock = t.bysock /\ next \in ClientTable
      <3>1. PICK ev : ev = uncorkSocket(w.cm.read_client, c)
        OBVIOUS
      <3>2. ev \in EventSet(Clients) /\ rd.mode \in ReaderModes
        BY <2>1, <3>1, TypesOf DEF EventSet, uncorkSocket, Reads
      <3> QED
        BY <2>1, <3>1, <3>2 DEF resume, ClientTable
    <2>4. CASE u = cleanup(w.cm, c)
      <3>1. Writes({}, w.cm, u) /\ u.bysock = w.cm.bysock \ {c}
        BY <2>1, <2>4, CleanupWrites DEF cleanup
      <3> QED
        BY <2>1, <3>1 DEF Writes
    <2>5. CASE u \in {watchOutput(next, c), unwatchOutput(next, c), next}
      <3>1. /\ u.writer = w.cm.writer /\ u.bysock = t.bysock
            /\ u.write_client \subseteq w.cm.write_client \cup {c}
        <4> HIDE DEF next
        <4> QED
          BY <2>3, <2>5, OutputWrites DEF Writes
      <3> QED
        BY <2>1, <3>1 DEF Writes
    <2> QED
      BY <2>2, <2>4, <2>5
  <1> QED
    BY <1>1, <1>2
-----------------------------------------------------------------------------
(* What is said of one client at a time: the handler of a client spares the others. *)

\* From t to u nothing that is kept of a client other than c has changed.
Spares(c, t, u) ==
    \A k \in Clients \ {c} :
      /\ k \in u.norequest <=> k \in t.norequest
      /\ k \in u.bysock <=> k \in t.bysock
      /\ k \in u.read_client.corked <=> k \in t.read_client.corked
      /\ k \in u.write_client <=> k \in t.write_client
      /\ k \in u.w_buffer <=> k \in t.w_buffer
      /\ u.buffered[k] = t.buffered[k] /\ u.writer[k] = t.writer[k]

\* From t to u nothing has changed of c, but maybe its cork and what it is to read.
SameOutput(c, t, u) ==
    /\ c \in u.norequest <=> c \in t.norequest
    /\ c \in u.bysock <=> c \in t.bysock
    /\ c \in u.write_client <=> c \in t.write_client
    /\ c \in u.w_buffer <=> c \in t.w_buffer
    /\ u.buffered[c] = t.buffered[c] /\ u.writer[c] = t.writer[c]

SameCork(c, t, u) == c \in u.read_client.corked <=> c \in t.read_client.corked

\* Nothing is left of client c, but what the list `buffered' may have of it.
Gone(u, c) ==
    /\ c \notin u.norequest /\ c \notin u.bysock /\ c \notin u.read_client.corked
    /\ c \notin u.write_client /\ c \notin u.w_buffer /\ u.writer[c] = "new"

\* Sparing the others composes, and a table spares everybody.
LEMMA SparesTwice ==
    ASSUME NEW c, NEW t, NEW u, NEW v, Spares(c, t, u), Spares(c, u, v)
    PROVE  Spares(c, t, v)
  BY DEF Spares

LEMMA SparesAll ==
    ASSUME NEW c, NEW t
    PROVE  Spares(c, t, t) /\ SameOutput(c, t, t) /\ SameCork(c, t, t)
  BY DEF Spares, SameOutput, SameCork

\* A client that is cleaned up is gone.
LEMMA CleanupSays ==
    ASSUME NEW t, ClientsOK(t), NEW c \in Clients, NEW u, u = cleanup(t, c)
    PROVE  Spares(c, t, u) /\ Gone(u, c)
  <1>1. /\ u.norequest = t.norequest \ {c} /\ u.bysock = t.bysock \ {c}
        /\ u.read_client.corked = t.read_client.corked \ {c}
        /\ u.write_client = t.write_client \ {c} /\ u.w_buffer = t.w_buffer \ {c}
        /\ u.buffered = removeOnce(t.buffered, c)
        /\ u.writer = [t.writer EXCEPT ![c] = "new"]
    BY DEF cleanup, removeSocket
  <1>2. t.buffered \in [Clients -> Nat] /\ t.writer \in [Clients -> WriterStates]
    BY TypesOf DEF ClientsOK
  <1>3. \A k \in Clients \ {c} : u.buffered[k] = t.buffered[k] /\ u.writer[k] = t.writer[k]
    BY <1>1, <1>2 DEF removeOnce
  <1>4. u.writer[c] = "new"
    BY <1>1, <1>2
  <1> QED
    BY <1>1, <1>3, <1>4 DEF Spares, Gone

\* Only the events of reading change, and those of c alone.
LEMMA CorkSays ==
    ASSUME NEW t, ClientsOK(t), NEW c,
           NEW u, u \in {corkUpload(t, c), uncorkUpload(t, c)}
    PROVE  /\ Spares(c, t, u) /\ SameOutput(c, t, u)
           /\ u = uncorkUpload(t, c) => c \notin u.read_client.corked
  <1>1. \/ u = t /\ c \notin t.bysock
        \/ /\ c \in t.bysock
           /\ u \in {[t EXCEPT !.read_client = corkSocket(@, c)],
                     [t EXCEPT !.read_client = uncorkSocket(@, c)]}
    BY DEF corkUpload, uncorkUpload
  <1>2. /\ u.norequest = t.norequest /\ u.bysock = t.bysock
        /\ u.write_client = t.write_client /\ u.w_buffer = t.w_buffer
        /\ u.buffered = t.buffered /\ u.writer = t.writer
        /\ u.read_client \in {t.read_client, corkSocket(t.read_client, c),
                              uncorkSocket(t.read_client, c)}
    BY <1>1 DEF ClientsOK, ClientTable
  <1>3. \A k : k # c => (k \in u.read_client.corked <=> k \in t.read_client.corked)
    BY <1>2, TypesOf DEF corkSocket, uncorkSocket, EventSet, ClientsOK
  <1>4. u = uncorkUpload(t, c) => c \notin u.read_client.corked
    <2>1. CASE c \in t.bysock
      BY <2>1, TypesOf DEF uncorkUpload, uncorkSocket, EventSet, ClientsOK, ClientTable
    <2>2. CASE c \notin t.bysock
      BY <2>2 DEF uncorkUpload, ClientsOK
    <2> QED BY <2>1, <2>2
  <1> QED
    BY <1>2, <1>3, <1>4 DEF Spares, SameOutput

\* A read says nothing of the output, unless the client has left.
LEMMA ReadDataSays ==
    ASSUME NEW t, ClientsOK(t), NEW c \in Clients, NEW rd, NEW u, u = readData(t, c, rd)
    PROVE  /\ Spares(c, t, u)
           /\ c \in t.bysock /\ rd.got = "closed" => Gone(u, c)
           /\ ~(c \in t.bysock /\ rd.got = "closed") => SameOutput(c, t, u)
           /\ rd.got \in {"data", "nothing"} => SameCork(c, t, u)
  <1>1. CASE c \in t.bysock /\ rd.got = "closed"
    BY <1>1, CleanupSays DEF readData
  <1>2. CASE ~(c \in t.bysock /\ rd.got = "closed")
    <2>1. /\ u.norequest = t.norequest /\ u.bysock = t.bysock
          /\ u.write_client = t.write_client /\ u.w_buffer = t.w_buffer
          /\ u.buffered = t.buffered /\ u.writer = t.writer
          /\ u.read_client \in {t.read_client, corkSocket(t.read_client, c)}
          /\ rd.got \in {"data", "nothing"} => u.read_client = t.read_client
      BY <1>2 DEF readData, ClientsOK, ClientTable
    <2>2. \A k \in Clients \ {c} :
            k \in u.read_client.corked <=> k \in t.read_client.corked
      BY <2>1, TypesOf DEF corkSocket, EventSet, ClientsOK
    <2> QED BY <1>2, <2>1, <2>2 DEF Spares, SameOutput, SameCork
  <1> QED BY <1>1, <1>2

\* A client whose request was read goes to bysock, corked, with no output yet.
LEMMA ReadRequestSays ==
    ASSUME NEW t, ClientsOK(t), NEW c \in Clients, NEW rd, NEW u, u = readRequest(t, c, rd)
    PROVE  /\ Spares(c, t, u)
           /\ c \notin t.norequest => u = t
           /\ c \in t.norequest /\ rd.got = "closed" => Gone(u, c)
           /\ c \in t.norequest /\ rd.got # "closed" =>
                /\ c \in u.norequest <=> rd.got # "request"
                /\ c \in u.bysock <=> rd.got = "request"
                /\ c \in u.read_client.corked => rd.got = "request"
                /\ c \notin u.w_buffer
                /\ u.buffered[c] = t.buffered[c] /\ u.writer[c] = t.writer[c]
  <1>1. CASE c \notin t.norequest
    BY <1>1, SparesAll DEF readRequest
  <1>2. CASE c \in t.norequest /\ rd.got = "closed"
    BY <1>2, CleanupSays DEF readRequest
  <1>3. CASE c \in t.norequest /\ rd.got # "closed"
    <2>0. c \notin t.bysock /\ c \notin t.read_client.corked /\ c \notin t.w_buffer
      BY <1>3 DEF ClientsOK
    <2>1. /\ u.write_client = t.write_client /\ u.w_buffer = t.w_buffer
          /\ u.buffered = t.buffered /\ u.writer = t.writer
      BY <1>3 DEF readRequest, ClientsOK, ClientTable
    <2>2. CASE rd.got = "request"
      <3>1. /\ u.norequest = t.norequest \ {c} /\ u.bysock = t.bysock \cup {c}
            /\ u.read_client = corkSocket(addSocket(t.read_client, c), c)
        BY <1>3, <2>2 DEF readRequest, ClientsOK, ClientTable
      <3>2. \A k \in Clients \ {c} :
              k \in u.read_client.corked <=> k \in t.read_client.corked
        BY <3>1, TypesOf DEF corkSocket, addSocket, EventSet, ClientsOK
      <3> QED BY <1>3, <2>0, <2>1, <2>2, <3>1, <3>2 DEF Spares
    <2>3. CASE rd.got # "request"
      <3>1. /\ u.norequest = t.norequest /\ u.bysock = t.bysock
            /\ u.read_client = t.read_client
        BY <1>3, <2>3 DEF readRequest, ClientsOK, ClientTable
      <3> QED BY <1>3, <2>0, <2>1, <2>3, <3>1 DEF Spares
    <2> QED BY <2>2, <2>3
  <1> QED BY <1>1, <1>2, <1>3

\* A new client is not corked and has nothing to be sent.
LEMMA ConnectionSays ==
    ASSUME NEW t, ClientsOK(t), NEW c \in Clients, c \notin Live(t),
           NEW u, u \in {httpConnection(t, c), passthroughConnection(t, c)}
    PROVE  /\ Spares(c, t, u)
           /\ c \notin u.read_client.corked /\ c \notin u.w_buffer
           /\ u.buffered[c] = t.buffered[c] /\ u.writer[c] = t.writer[c]
           /\ u = httpConnection(t, c) => c \notin u.bysock
           /\ u = passthroughConnection(t, c) => c \in u.bysock /\ c \notin u.norequest
  <1>1. c \notin t.bysock /\ c \notin t.norequest
        /\ c \notin t.read_client.corked /\ c \notin t.w_buffer
    BY DEF Live, ClientsOK
  <1>2. /\ u.write_client = t.write_client /\ u.w_buffer = t.w_buffer
        /\ u.buffered = t.buffered /\ u.writer = t.writer
        /\ u.read_client.corked = t.read_client.corked
    <2>1. /\ u.write_client = t.write_client /\ u.w_buffer = t.w_buffer
          /\ u.buffered = t.buffered /\ u.writer = t.writer
          /\ u.read_client \in {t.read_client, addSocket(t.read_client, c)}
      BY DEF httpConnection, passthroughConnection, ClientsOK, ClientTable
    <2> QED BY <2>1, TypesOf DEF addSocket, EventSet, ClientsOK
  <1>3. /\ u = httpConnection(t, c) =>
             u.bysock = t.bysock /\ u.norequest = t.norequest \cup {c}
        /\ u = passthroughConnection(t, c) =>
             u.bysock = t.bysock \cup {c} /\ u.norequest = t.norequest
    BY DEF httpConnection, passthroughConnection, ClientsOK, ClientTable
  <1> QED BY <1>1, <1>2, <1>3 DEF Spares

\* The writing coroutine, resumed: it is told once that nothing more comes, and it is
\* buffering, until it is told so, while its client has something left to be sent.
LEMMA WriteDataSays ==
    ASSUME NEW t, t \in ClientTable, NEW c \in Clients, NEW data, NEW sent,
           NEW w, w = writeData(t, c, data, sent)
    PROVE  /\ Spares(c, t, w.cm) /\ SameCork(c, t, w.cm)
           /\ c \in w.cm.norequest <=> c \in t.norequest
           /\ c \in w.cm.bysock <=> c \in t.bysock
           /\ c \in w.cm.write_client <=> c \in t.write_client
           /\ w.cm.buffered[c] = t.buffered[c]
           /\ w.had <=> c \in t.w_buffer
           /\ ~w.closed => w.cm.writer[c] = IF t.writer[c] = "finished" \/ data = "end"
                                            THEN "finished" ELSE t.writer[c]
           /\ t.writer[c] # "finished" /\ data # "end" =>
                (w.buffered <=> c \in w.cm.w_buffer)
           /\ t.writer[c] = "finished" \/ data = "end" => w.buffered
           /\ data = "flush" /\ c \notin t.w_buffer => c \notin w.cm.w_buffer
  <1>0. t.writer \in [Clients -> WriterStates]
    BY TypesOf
  <1>1. PICK left, state :
          /\ left = ((c \in t.w_buffer \/ data = "data")
                      /\ (c \notin t.w_buffer \/ data = "flush" => sent # "all"))
          /\ left \in BOOLEAN
          /\ state = IF w.closed THEN "over"
                     ELSE IF t.writer[c] = "finished" \/ data = "end" THEN "finished"
                     ELSE t.writer[c]
          /\ w.cm = [t EXCEPT !.w_buffer = IF left THEN @ \cup {c} ELSE @ \ {c},
                              !.writer[c] = state]
          /\ w.buffered = (left \/ t.writer[c] = "finished" \/ data = "end")
          /\ w.had = (c \in t.w_buffer)
    BY Zenon DEF writeData
  <1>2. /\ w.cm.norequest = t.norequest /\ w.cm.bysock = t.bysock
        /\ w.cm.write_client = t.write_client /\ w.cm.read_client = t.read_client
        /\ w.cm.buffered = t.buffered
        /\ w.cm.w_buffer = IF left THEN t.w_buffer \cup {c} ELSE t.w_buffer \ {c}
        /\ w.cm.writer = [t.writer EXCEPT ![c] = state]
    BY <1>1 DEF ClientTable
  <1>3. w.cm.writer[c] = state /\ \A k \in Clients \ {c} : w.cm.writer[k] = t.writer[k]
    BY <1>0, <1>2
  <1>4. c \in w.cm.w_buffer <=> left
    BY <1>2
  <1> QED BY <1>1, <1>2, <1>3, <1>4 DEF Spares, SameCork
-----------------------------------------------------------------------------
\* The list `buffered', the write interest and what is left to send of client c agree.
Stepped(t, c) ==
    /\ t.buffered[c] = IF c \in t.w_buffer THEN 1 ELSE 0
    /\ c \in t.write_client <=> c \in t.w_buffer

\* Watching the output of a client appends it to the list, and ceasing removes it.
LEMMA OutputSays ==
    ASSUME NEW t, ClientsOK(t), NEW c \in Clients, t.buffered[c] \in Nat,
           NEW u, u \in {watchOutput(t, c), unwatchOutput(t, c)}
    PROVE  /\ Spares(c, t, u) /\ SameCork(c, t, u)
           /\ c \in u.norequest <=> c \in t.norequest
           /\ c \in u.bysock <=> c \in t.bysock
           /\ c \in u.w_buffer <=> c \in t.w_buffer
           /\ u.writer[c] = t.writer[c]
           /\ u = watchOutput(t, c) => c \in u.write_client /\ u.buffered[c] = t.buffered[c] + 1
           /\ u = unwatchOutput(t, c) =>
                c \notin u.write_client /\ u.buffered[c] = t.buffered[c] - 1
  <1>0. t.buffered \in [Clients -> Nat]
    BY TypesOf DEF ClientsOK
  <1>1. /\ u.norequest = t.norequest /\ u.bysock = t.bysock
        /\ u.read_client = t.read_client
        /\ u.w_buffer = t.w_buffer /\ u.writer = t.writer
    BY DEF watchOutput, unwatchOutput, ClientsOK, ClientTable
  <1>2. u = watchOutput(t, c) => /\ u.write_client = t.write_client \cup {c}
                                 /\ u.buffered = [t.buffered EXCEPT ![c] = @ + 1]
    BY DEF watchOutput, ClientsOK, ClientTable
  <1>3. u = unwatchOutput(t, c) => /\ u.write_client = t.write_client \ {c}
                                   /\ u.buffered = [t.buffered EXCEPT ![c] = @ - 1]
    BY DEF unwatchOutput, ClientsOK, ClientTable
  <1> QED BY <1>0, <1>1, <1>2, <1>3 DEF Spares, SameCork

\* A client is watched, listed and with something left all at once, if it was so before.
LEMMA SendDataSays ==
    ASSUME NEW t, ClientsOK(t), NEW c \in Clients, c \in t.bysock, NEW data, NEW sent,
           NEW s, s = sendData(t, c, data, sent)
    PROVE  /\ Spares(c, t, s.cm)
           /\ s.status \in {"closed", "buffering", "clear"}
           /\ s.status = "closed" => Gone(s.cm, c)
           /\ s.status # "closed" =>
                /\ SameCork(c, t, s.cm) /\ c \in s.cm.bysock /\ c \notin s.cm.norequest
                /\ s.cm.writer[c] = IF t.writer[c] = "finished" \/ data = "end"
                                    THEN "finished" ELSE t.writer[c]
                /\ data = "flush" /\ c \notin t.w_buffer => c \notin s.cm.w_buffer
           /\ s.status # "closed" /\ Stepped(t, c) /\ t.writer[c] # "finished" /\ data # "end" =>
                /\ Stepped(s.cm, c)
                /\ s.change => (c \in s.cm.w_buffer <=> c \notin t.w_buffer)
                /\ c \in s.cm.w_buffer /\ c \notin t.w_buffer =>
                     s.change /\ s.status = "buffering"
                /\ c \notin s.cm.w_buffer /\ c \in t.w_buffer =>
                     s.change /\ s.status = "clear"
  <1>0. t \in ClientTable /\ c \notin t.norequest /\ t.buffered[c] \in Nat
    BY TypesOf DEF ClientsOK
  <1>1. PICK w : w = writeData(t, c, data, sent)
    OBVIOUS
  <1>2. /\ Spares(c, t, w.cm) /\ SameCork(c, t, w.cm)
        /\ c \notin w.cm.norequest
        /\ c \in w.cm.bysock
        /\ c \in w.cm.write_client <=> c \in t.write_client
        /\ w.cm.buffered[c] = t.buffered[c]
        /\ w.had <=> c \in t.w_buffer
        /\ ~w.closed => w.cm.writer[c] = IF t.writer[c] = "finished" \/ data = "end"
                                         THEN "finished" ELSE t.writer[c]
        /\ t.writer[c] # "finished" /\ data # "end" =>
             (w.buffered <=> c \in w.cm.w_buffer)
        /\ data = "flush" /\ c \notin t.w_buffer => c \notin w.cm.w_buffer
    BY <1>0, <1>1, WriteDataSays
  <1>3. PICK v : v = w.cm
    OBVIOUS
  <1>4. ClientsOK(v) /\ v.buffered[c] \in Nat
    <2>1. Rewritten(c, t, v)
      BY <1>0, <1>1, <1>3, WriteDataOK
    <2> QED BY <1>0, <1>2, <1>3, <2>1, RewrittenOK
  <1>5. s = IF w.closed
            THEN [cm |-> cleanup(v, c), status |-> "closed", change |-> FALSE]
            ELSE IF w.buffered /\ t.buffered[c] = 0
            THEN [cm |-> watchOutput(v, c), status |-> "buffering", change |-> TRUE]
            ELSE IF ~w.buffered /\ w.had /\ t.buffered[c] > 0
            THEN [cm |-> unwatchOutput(v, c), status |-> "clear", change |-> TRUE]
            ELSE [cm |-> v, change |-> FALSE,
                  status |-> IF w.buffered THEN "buffering" ELSE "clear"]
    BY <1>1, <1>3 DEF sendData
  <1>6. CASE w.closed
    <2>1. s.cm = cleanup(v, c) /\ s.status = "closed"
      BY <1>5, <1>6
    <2>2. Spares(c, v, s.cm) /\ Gone(s.cm, c)
      BY <1>4, <2>1, CleanupSays
    <2>3. Spares(c, t, s.cm)
      BY <1>2, <1>3, <2>2, SparesTwice
    <2> QED BY <2>1, <2>2, <2>3
  <1>7. CASE ~w.closed /\ w.buffered /\ t.buffered[c] = 0
    <2>1. s.cm = watchOutput(v, c) /\ s.status = "buffering" /\ s.change
      BY <1>5, <1>7
    <2>2. /\ Spares(c, v, s.cm) /\ SameCork(c, v, s.cm)
          /\ c \notin s.cm.norequest /\ c \in s.cm.bysock
          /\ c \in s.cm.w_buffer <=> c \in v.w_buffer
          /\ s.cm.writer[c] = v.writer[c]
          /\ c \in s.cm.write_client /\ s.cm.buffered[c] = v.buffered[c] + 1
      BY <1>2, <1>3, <1>4, <2>1, OutputSays
    <2>3. Spares(c, t, s.cm)
      BY <1>2, <1>3, <2>2, SparesTwice
    <2>4. Stepped(t, c) => c \notin t.w_buffer
      BY <1>7 DEF Stepped
    <2> QED BY <1>2, <1>3, <1>7, <2>1, <2>2, <2>3, <2>4 DEF SameCork, Stepped
  <1>8. CASE ~w.closed /\ ~w.buffered /\ w.had /\ t.buffered[c] > 0
    <2>1. s.cm = unwatchOutput(v, c) /\ s.status = "clear" /\ s.change
      BY <1>5, <1>8
    <2>2. /\ Spares(c, v, s.cm) /\ SameCork(c, v, s.cm)
          /\ c \notin s.cm.norequest /\ c \in s.cm.bysock
          /\ c \in s.cm.w_buffer <=> c \in v.w_buffer
          /\ s.cm.writer[c] = v.writer[c]
          /\ c \notin s.cm.write_client /\ s.cm.buffered[c] = v.buffered[c] - 1
      BY <1>2, <1>3, <1>4, <2>1, OutputSays
    <2>3. Spares(c, t, s.cm)
      BY <1>2, <1>3, <2>2, SparesTwice
    <2> QED BY <1>2, <1>3, <1>8, <2>1, <2>2, <2>3 DEF SameCork, Stepped
  <1>9. CASE /\ ~w.closed /\ ~(w.buffered /\ t.buffered[c] = 0)
             /\ ~(~w.buffered /\ w.had /\ t.buffered[c] > 0)
    <2>1. /\ s.cm = v /\ ~s.change
          /\ s.status = IF w.buffered THEN "buffering" ELSE "clear"
      BY <1>5, <1>9
    <2>2. Stepped(t, c) /\ t.writer[c] # "finished" /\ data # "end" =>
            (c \in v.w_buffer <=> c \in t.w_buffer)
      BY <1>2, <1>3, <1>9 DEF Stepped
    <2> QED BY <1>2, <1>3, <1>9, <2>1, <2>2 DEF Stepped
  <1> QED BY <1>6, <1>7, <1>8, <1>9

\* The first output of a client opens its writer.
LEMMA StartWriterSays ==
    ASSUME NEW t, t \in ClientTable, NEW c \in Clients, NEW content \in Contents, NEW sent,
           NEW w, w = startWriter(t, c, content, sent)
    PROVE  /\ Spares(c, t, w.cm)
           /\ c \in w.cm.norequest <=> c \in t.norequest
           /\ c \in w.cm.bysock <=> c \in t.bysock
           /\ c \in w.cm.write_client <=> c \in t.write_client
           /\ w.cm.buffered[c] = t.buffered[c]
           /\ content \in {"stream", "response"} /\ ~w.closed => w.cm.writer[c] = "open"
           /\ content = "stream" => /\ w.had <=> c \in t.w_buffer
                                    /\ w.buffered <=> c \in w.cm.w_buffer
                                    /\ c \notin t.w_buffer => c \notin w.cm.w_buffer
  <1>1. PICK fresh : fresh = [t EXCEPT !.writer[c] = "open"]
    OBVIOUS
  <1>2. /\ fresh.norequest = t.norequest /\ fresh.bysock = t.bysock
        /\ fresh.read_client = t.read_client
        /\ fresh.write_client = t.write_client /\ fresh.w_buffer = t.w_buffer
        /\ fresh.buffered = t.buffered
        /\ fresh.writer = [t.writer EXCEPT ![c] = "open"]
        /\ fresh \in ClientTable /\ fresh.writer[c] = "open"
    BY <1>1, TypesOf DEF ClientTable, WriterStates
  <1>3. Spares(c, t, fresh) /\ fresh \in ClientTable
    BY <1>2, TypesOf DEF Spares
  <1>4. CASE content \in {"stream", "response"}
    <2>1. PICK data : /\ data \in {"flush", "data"} /\ (content = "stream" => data = "flush")
                      /\ w = writeData(fresh, c, data, sent)
      BY <1>1, <1>4 DEF startWriter
    <2>2. /\ Spares(c, fresh, w.cm)
          /\ c \in w.cm.norequest <=> c \in fresh.norequest
          /\ c \in w.cm.bysock <=> c \in fresh.bysock
          /\ c \in w.cm.write_client <=> c \in fresh.write_client
          /\ w.cm.buffered[c] = fresh.buffered[c]
          /\ w.had <=> c \in fresh.w_buffer
          /\ ~w.closed => w.cm.writer[c] = IF fresh.writer[c] = "finished" \/ data = "end"
                                           THEN "finished" ELSE fresh.writer[c]
          /\ fresh.writer[c] # "finished" /\ data # "end" =>
               (w.buffered <=> c \in w.cm.w_buffer)
          /\ data = "flush" /\ c \notin fresh.w_buffer => c \notin w.cm.w_buffer
      BY <1>3, <2>1, WriteDataSays
    <2>3. Spares(c, t, w.cm)
      BY <1>3, <2>2, SparesTwice
    <2> QED BY <1>2, <2>1, <2>2, <2>3
  <1>5. CASE content = "file"
    <2>1. w.cm = [t EXCEPT !.writer[c] = "finished", !.w_buffer = @ \cup {c}]
      BY <1>5 DEF startWriter
    <2>2. /\ w.cm.norequest = t.norequest /\ w.cm.bysock = t.bysock
          /\ w.cm.read_client = t.read_client
          /\ w.cm.write_client = t.write_client /\ w.cm.w_buffer = t.w_buffer \cup {c}
          /\ w.cm.buffered = t.buffered
          /\ w.cm.writer = [t.writer EXCEPT ![c] = "finished"]
      BY <2>1 DEF ClientTable
    <2> QED BY <1>5, <2>2, TypesOf DEF Spares
  <1>6. CASE content \in {"page", "empty", "end"}
    <2> DEFINE first == CASE content = "page"  -> "data"
                          [] content = "empty" -> "flush"
                          [] OTHER -> "end"
               page  == writeData(fresh, c, first, sent)
               last  == writeData(page.cm, c, "end", "all")
    <2>1. w = IF ReturnsPage(c) THEN [page EXCEPT !.cm = last.cm] ELSE last
      BY <1>1, <1>6 DEF startWriter
    <2>2. w.cm = last.cm
      BY <2>1 DEF writeData
    <2> HIDE DEF first, last
    <2>3. PICK v : v = page.cm
      OBVIOUS
    <2>4. PICK x : x = writeData(v, c, "end", "all") /\ w.cm = x.cm
      BY <2>2, <2>3 DEF last
    <2>5. PICK y : y = writeData(fresh, c, first, sent) /\ v = y.cm
      BY <2>3
    <2> HIDE DEF page
    <2>6. /\ Spares(c, fresh, v)
          /\ c \in v.norequest <=> c \in fresh.norequest
          /\ c \in v.bysock <=> c \in fresh.bysock
          /\ c \in v.write_client <=> c \in fresh.write_client
          /\ v.buffered[c] = fresh.buffered[c]
      BY <1>3, <2>5, WriteDataSays
    <2>7. v \in ClientTable
      BY <1>3, <2>5, WriteDataWrites
    <2>8. /\ Spares(c, v, w.cm)
          /\ c \in w.cm.norequest <=> c \in v.norequest
          /\ c \in w.cm.bysock <=> c \in v.bysock
          /\ c \in w.cm.write_client <=> c \in v.write_client
          /\ w.cm.buffered[c] = v.buffered[c]
      BY <2>4, <2>7, WriteDataSays
    <2>9. Spares(c, t, w.cm)
      BY <1>3, <2>6, <2>8, SparesTwice
    <2> QED BY <1>2, <1>6, <2>6, <2>8, <2>9
  <1> QED BY <1>4, <1>5, <1>6 DEF Contents

\* A client that startData() goes on with is read again.
LEMMA StartDataSays ==
    ASSUME NEW t, ClientsOK(t), NEW c \in Clients, c \in t.bysock,
           NEW content \in Contents, NEW sent, NEW rd \in Reads,
           NEW s, s = startData(t, c, content, sent, rd)
    PROVE  /\ Spares(c, t, s.cm)
           /\ s.got = "closed" => Gone(s.cm, c)
           /\ s.got # "closed" =>
                /\ c \notin s.cm.read_client.corked
                /\ c \in s.cm.bysock /\ c \notin s.cm.norequest
                /\ content \in {"stream", "response"} => s.cm.writer[c] = "open"
                /\ content = "stream" /\ Stepped(t, c) /\ c \notin t.w_buffer =>
                     Stepped(s.cm, c) /\ c \notin s.cm.w_buffer
  <1>0. t \in ClientTable /\ c \notin t.norequest /\ t.buffered[c] \in Nat
    BY TypesOf DEF ClientsOK
  <1>1. PICK w : w = startWriter(t, c, content, sent)
    OBVIOUS
  <1>2. PICK v : v = w.cm
    OBVIOUS
  <1>3. /\ Spares(c, t, v)
        /\ c \notin v.norequest /\ c \in v.bysock
        /\ c \in v.write_client <=> c \in t.write_client
        /\ v.buffered[c] = t.buffered[c]
        /\ content \in {"stream", "response"} /\ ~w.closed => v.writer[c] = "open"
        /\ content = "stream" => /\ w.had <=> c \in t.w_buffer
                                 /\ w.buffered <=> c \in v.w_buffer
                                 /\ c \notin t.w_buffer => c \notin v.w_buffer
    BY <1>0, <1>1, <1>2, StartWriterSays
  <1>4. ClientsOK(v)
    <2>1. Rewritten(c, t, v)
      BY <1>0, <1>1, <1>2, StartWriterOK
    <2> QED BY <2>1, RewrittenOK
  <1>5. PICK next : next = resume(v, c, rd.mode)
    OBVIOUS
  <1>6. s = IF w.closed \/ rd.got \in {"closed", "request"}
              THEN [cm |-> cleanup(v, c), got |-> "closed"]
            ELSE IF w.buffered /\ ~w.had
              THEN [cm |-> watchOutput(next, c), got |-> rd.got]
            ELSE IF ~w.buffered /\ w.had
              THEN [cm |-> unwatchOutput(next, c), got |-> rd.got]
            ELSE [cm |-> next, got |-> rd.got]
    BY <1>1, <1>2, <1>5 DEF startData
  <1>7. CASE w.closed \/ rd.got \in {"closed", "request"}
    <2>1. s.cm = cleanup(v, c) /\ s.got = "closed"
      BY <1>6, <1>7
    <2>2. Spares(c, v, s.cm) /\ Gone(s.cm, c)
      BY <1>4, <2>1, CleanupSays
    <2> QED BY <1>3, <2>1, <2>2, SparesTwice
  <1>8. CASE ~(w.closed \/ rd.got \in {"closed", "request"})
    <2>1. /\ next.norequest = v.norequest /\ next.bysock = v.bysock
          /\ next.write_client = v.write_client /\ next.w_buffer = v.w_buffer
          /\ next.buffered = v.buffered /\ next.writer = v.writer
          /\ next.read_client = uncorkSocket(v.read_client, c)
      BY <1>4, <1>5 DEF resume, ClientsOK, ClientTable
    <2>2. /\ c \notin next.read_client.corked
          /\ \A k \in Clients \ {c} :
               k \in next.read_client.corked <=> k \in v.read_client.corked
      BY <1>3, <1>4, <2>1, TypesOf DEF uncorkSocket, EventSet, ClientsOK
    <2>3. Spares(c, v, next)
      BY <2>1, <2>2 DEF Spares
    <2>4. Spares(c, t, next)
      BY <1>3, <2>3, SparesTwice
    <2>5. \/ /\ s.cm = watchOutput(next, c) /\ w.buffered /\ ~w.had
          \/ /\ s.cm = unwatchOutput(next, c) /\ ~w.buffered /\ w.had
          \/ s.cm = next
      BY <1>6, <1>8
    <2>6. s.got # "closed"
      BY <1>6, <1>8
    <2>7. CASE s.cm = next
      BY <1>3, <1>8, <2>1, <2>2, <2>4, <2>6, <2>7 DEF Stepped
    <2>8. CASE s.cm # next
      <3>1. ClientsOK(next) /\ next.buffered[c] \in Nat
        <4>1. PICK ev : ev = uncorkSocket(v.read_client, c)
          OBVIOUS
        <4>2. next = setReader(v, c, ev, rd.mode)
          BY <1>5, <4>1 DEF resume, setReader
        <4>3. /\ ev \in EventSet(Clients) /\ ev.socks = v.bysock
              /\ ev.corked \subseteq v.bysock
          BY <1>4, <4>1, TypesOf DEF uncorkSocket, EventSet, ClientsOK
        <4>4. rd.mode \in ReaderModes
          BY DEF Reads
        <4> QED BY <1>0, <1>3, <1>4, <2>1, <4>2, <4>3, <4>4, SetReaderOK
      <3>2. /\ Spares(c, next, s.cm) /\ SameCork(c, next, s.cm)
            /\ c \in s.cm.norequest <=> c \in next.norequest
            /\ c \in s.cm.bysock <=> c \in next.bysock
            /\ c \in s.cm.w_buffer <=> c \in next.w_buffer
            /\ s.cm.writer[c] = next.writer[c]
        BY <2>5, <2>8, <3>1, OutputSays
      <3>3. Spares(c, t, s.cm)
        BY <2>4, <3>2, SparesTwice
      <3>4. content = "stream" /\ c \notin t.w_buffer => FALSE
        BY <1>3, <2>5, <2>8
      <3> QED BY <1>3, <1>8, <2>1, <2>2, <2>6, <3>2, <3>3, <3>4 DEF SameCork
    <2> QED BY <2>7, <2>8
  <1> QED BY <1>7, <1>8
-----------------------------------------------------------------------------
\* A client that is watched for writing has something to send, or is to be closed.
NotIdle(t, c) == c \in t.write_client => c \in t.w_buffer \/ t.writer[c] = "finished"

\* The output of a client that sends one request at a time: it is watched and listed as
\* long as there is some, and listed once.
OutputKept(t, c) ==
    /\ c \in t.write_client <=> c \in t.w_buffer \/ t.writer[c] = "finished"
    /\ c \in t.write_client <=> t.buffered[c] > 0
    /\ t.writer[c] # "finished" => t.buffered[c] <= 1

\* A client that is told that nothing more comes is closed when nothing is left.
LEMMA EndSays ==
    ASSUME NEW t, t \in ClientTable, NEW c \in Clients, t.writer[c] # "over", NEW sent,
           NEW w, w = writeData(t, c, "end", sent)
    PROVE  /\ w.closed <=> c \notin t.w_buffer
           /\ c \in w.cm.w_buffer <=> c \in t.w_buffer
           /\ w.cm.writer[c] = IF w.closed THEN "over" ELSE "finished"
           /\ w.buffered /\ (w.had <=> c \in t.w_buffer)
  <1>0. t.writer \in [Clients -> WriterStates]
    BY TypesOf
  <1>1. CASE c \in t.w_buffer
    <2>1. /\ ~w.closed /\ w.buffered /\ w.had
          /\ w.cm = [t EXCEPT !.w_buffer = @ \cup {c}, !.writer[c] = "finished"]
      BY <1>1 DEF writeData
    <2>2. /\ w.cm.w_buffer = t.w_buffer \cup {c}
          /\ w.cm.writer = [t.writer EXCEPT ![c] = "finished"]
      BY <2>1 DEF ClientTable
    <2> QED BY <1>0, <1>1, <2>1, <2>2
  <1>2. CASE c \notin t.w_buffer
    <2>1. /\ w.closed /\ w.buffered /\ ~w.had
          /\ w.cm = [t EXCEPT !.w_buffer = @ \ {c}, !.writer[c] = "over"]
      BY <1>2 DEF writeData
    <2>2. /\ w.cm.w_buffer = t.w_buffer \ {c}
          /\ w.cm.writer = [t.writer EXCEPT ![c] = "over"]
      BY <2>1 DEF ClientTable
    <2> QED BY <1>0, <1>2, <2>1, <2>2
  <1> QED BY <1>1, <1>2

\* The output stays in order while it is sent, and the end closes a client with nothing left.
LEMMA SendDataKeeps ==
    ASSUME NEW t, ClientsOK(t), NEW c \in Clients, c \in t.bysock, NEW data, NEW sent,
           NEW s, s = sendData(t, c, data, sent)
    PROVE  /\ s.status # "closed" =>
                /\ NotIdle(t, c) => NotIdle(s.cm, c)
                /\ OutputKept(t, c) => OutputKept(s.cm, c)
           /\ data = "end" /\ c \notin t.w_buffer => s.status = "closed"
  <1>0. t \in ClientTable /\ c \notin t.norequest /\ t.buffered[c] \in Nat
        /\ (c \in t.write_client => t.buffered[c] > 0)
    BY TypesOf DEF ClientsOK
  <1>1. PICK w : w = writeData(t, c, data, sent)
    OBVIOUS
  <1>2. PICK v : v = w.cm
    OBVIOUS
  <1>3. /\ c \in v.write_client <=> c \in t.write_client
        /\ v.buffered[c] = t.buffered[c]
        /\ w.had <=> c \in t.w_buffer
        /\ ~w.closed => v.writer[c] = IF t.writer[c] = "finished" \/ data = "end"
                                      THEN "finished" ELSE t.writer[c]
        /\ t.writer[c] # "finished" /\ data # "end" => (w.buffered <=> c \in v.w_buffer)
        /\ t.writer[c] = "finished" \/ data = "end" => w.buffered
    BY <1>0, <1>1, <1>2, WriteDataSays
  <1>4. ClientsOK(v) /\ v.buffered[c] \in Nat
    <2>1. Rewritten(c, t, v)
      BY <1>0, <1>1, <1>2, WriteDataOK
    <2> QED BY <1>0, <1>3, <2>1, RewrittenOK
  <1>5. s = IF w.closed
            THEN [cm |-> cleanup(v, c), status |-> "closed", change |-> FALSE]
            ELSE IF w.buffered /\ t.buffered[c] = 0
            THEN [cm |-> watchOutput(v, c), status |-> "buffering", change |-> TRUE]
            ELSE IF ~w.buffered /\ w.had /\ t.buffered[c] > 0
            THEN [cm |-> unwatchOutput(v, c), status |-> "clear", change |-> TRUE]
            ELSE [cm |-> v, change |-> FALSE,
                  status |-> IF w.buffered THEN "buffering" ELSE "clear"]
    BY <1>1, <1>2 DEF sendData
  <1>6. ~w.closed => (w.buffered <=> c \in v.w_buffer \/ v.writer[c] = "finished")
    BY <1>3
  <1>7. CASE w.closed
    BY <1>5, <1>7
  <1>8. CASE ~w.closed
    <2>1. ~(data = "end" /\ c \notin t.w_buffer)
      <3>1. CASE t.writer[c] = "over"
        BY <1>1, <1>8, <3>1 DEF writeData
      <3>2. CASE t.writer[c] # "over"
        BY <1>0, <1>1, <1>8, <3>2, EndSays
      <3> QED BY <3>1, <3>2
    <2>2. CASE w.buffered /\ t.buffered[c] = 0
      <3>1. s.cm = watchOutput(v, c)
        BY <1>5, <1>8, <2>2
      <3>2. /\ c \in s.cm.w_buffer <=> c \in v.w_buffer
            /\ s.cm.writer[c] = v.writer[c]
            /\ c \in s.cm.write_client /\ s.cm.buffered[c] = v.buffered[c] + 1
        BY <1>4, <3>1, OutputSays
      <3> QED BY <1>3, <1>6, <1>8, <2>1, <2>2, <3>2 DEF NotIdle, OutputKept
    <2>3. CASE ~w.buffered /\ w.had /\ t.buffered[c] > 0
      <3>1. s.cm = unwatchOutput(v, c)
        BY <1>5, <1>8, <2>3
      <3>2. /\ c \in s.cm.w_buffer <=> c \in v.w_buffer
            /\ s.cm.writer[c] = v.writer[c]
            /\ c \notin s.cm.write_client /\ s.cm.buffered[c] = v.buffered[c] - 1
        BY <1>4, <3>1, OutputSays
      <3> QED BY <1>0, <1>3, <1>6, <1>8, <2>1, <2>3, <3>2 DEF NotIdle, OutputKept
    <2>4. CASE ~(w.buffered /\ t.buffered[c] = 0) /\ ~(~w.buffered /\ w.had /\ t.buffered[c] > 0)
      <3>1. s.cm = v
        BY <1>5, <1>8, <2>4
      <3> QED BY <1>0, <1>3, <1>6, <1>8, <2>1, <2>4, <3>1 DEF NotIdle, OutputKept
    <2> QED BY <2>2, <2>3, <2>4
  <1> QED BY <1>7, <1>8

\* What startData() is told of the first output: that something is left, and that something
\* was left before.
LEMMA StartWriterKeeps ==
    ASSUME NEW t, t \in ClientTable, NEW c \in Clients, NEW content \in Contents, NEW sent,
           NEW w, w = startWriter(t, c, content, sent), ~w.closed
    PROVE  /\ content = "file" => /\ w.buffered /\ ~w.had
                                  /\ c \in w.cm.w_buffer /\ w.cm.writer[c] = "finished"
           /\ content \in {"stream", "response", "end"} \/ (content # "file" /\ ReturnsPage(c)) =>
                /\ w.had <=> c \in t.w_buffer
                /\ w.buffered <=> c \in w.cm.w_buffer \/ w.cm.writer[c] = "finished"
           /\ SourceOf[c] \in {"tls", "passthrough"} =>
                /\ content # "file"
                /\ content \in {"page", "empty", "end"} => w.buffered /\ w.had
  <1>1. PICK fresh : fresh = [t EXCEPT !.writer[c] = "open"]
    OBVIOUS
  <1>2. /\ fresh.w_buffer = t.w_buffer
        /\ fresh \in ClientTable /\ fresh.writer[c] = "open"
    BY <1>1, TypesOf DEF ClientTable, WriterStates
  <1>3. CASE content \in {"stream", "response"}
    <2>1. PICK data \in {"flush", "data"} : w = writeData(fresh, c, data, sent)
      BY <1>1, <1>3 DEF startWriter
    <2>2. /\ w.had <=> c \in fresh.w_buffer
          /\ w.cm.writer[c] = "open"
          /\ w.buffered <=> c \in w.cm.w_buffer
      BY <1>2, <2>1, WriteDataSays
    <2> QED BY <1>2, <1>3, <2>2
  <1>4. CASE content = "file"
    <2>1. /\ w.cm = [t EXCEPT !.writer[c] = "finished", !.w_buffer = @ \cup {c}]
          /\ w.buffered = TRUE /\ w.had = FALSE
          /\ w.closed = (SourceOf[c] \in {"tls", "passthrough"})
      BY <1>4 DEF startWriter
    <2>2. c \in w.cm.w_buffer /\ w.cm.writer[c] = "finished"
      BY <2>1, TypesOf DEF ClientTable
    <2> QED BY <1>4, <2>1, <2>2
  <1>5. CASE content \in {"page", "empty", "end"}
    <2> DEFINE first == CASE content = "page"  -> "data"
                          [] content = "empty" -> "flush"
                          [] OTHER -> "end"
    <2>1. PICK page : page = writeData(fresh, c, first, sent)
      OBVIOUS
    <2>2. PICK v : v = page.cm
      OBVIOUS
    <2>3. PICK last : last = writeData(v, c, "end", "all")
      OBVIOUS
    <2>4. w = IF ReturnsPage(c) THEN [page EXCEPT !.cm = last.cm] ELSE last
      BY <1>1, <1>5, <2>1, <2>2, <2>3 DEF startWriter
    <2>5. w.cm = last.cm
      BY <2>1, <2>4 DEF writeData
    <2>6. /\ w.closed = IF ReturnsPage(c) THEN page.closed ELSE last.closed
          /\ w.buffered = IF ReturnsPage(c) THEN page.buffered ELSE last.buffered
          /\ w.had = IF ReturnsPage(c) THEN page.had ELSE last.had
      BY <2>1, <2>4 DEF writeData
    <2>7. content # "end" <=> first # "end"
      BY <1>5
    <2> HIDE DEF first
    <2>8. v \in ClientTable
      BY <1>2, <2>1, <2>2, WriteDataWrites
    <2>9. /\ page.had <=> c \in t.w_buffer
          /\ ~page.closed => v.writer[c] = IF first = "end" THEN "finished" ELSE "open"
          /\ first # "end" => (page.buffered <=> c \in v.w_buffer)
      BY <1>2, <2>1, <2>2, WriteDataSays
    <2>10. first = "end" => /\ page.closed <=> c \notin t.w_buffer
                            /\ c \in v.w_buffer <=> c \in t.w_buffer
                            /\ page.buffered
      BY <1>2, <2>1, <2>2, EndSays
    <2>11. v.writer[c] # "over" => /\ last.closed <=> c \notin v.w_buffer
                                   /\ c \in last.cm.w_buffer <=> c \in v.w_buffer
                                   /\ last.cm.writer[c] = IF last.closed THEN "over"
                                                          ELSE "finished"
                                   /\ last.buffered /\ (last.had <=> c \in v.w_buffer)
      BY <2>3, <2>8, EndSays
    <2>12. v.writer[c] = "over" => last.closed
      BY <2>3 DEF writeData
    <2>13. CASE ReturnsPage(c)
      <3>1. ~page.closed /\ v.writer[c] # "over"
        BY <2>6, <2>9, <2>13
      <3>2. SourceOf[c] \notin {"tls", "passthrough"}
        BY <2>13 DEF ReturnsPage
      <3> QED BY <1>5, <2>5, <2>6, <2>7, <2>9, <2>10, <2>11, <2>13, <3>1, <3>2
    <2>14. CASE ~ReturnsPage(c)
      <3>1. ~last.closed /\ v.writer[c] # "over"
        BY <2>6, <2>12, <2>14
      <3>2. last.had /\ last.buffered /\ last.cm.writer[c] = "finished"
        BY <2>11, <3>1
      <3>3. first = "end" => c \in t.w_buffer
        BY <2>10, <2>11, <3>1
      <3> QED BY <1>5, <2>5, <2>6, <2>7, <2>14, <3>2, <3>3
    <2> QED BY <2>13, <2>14
  <1> QED BY <1>3, <1>4, <1>5 DEF Contents

\* An answer that finds the output in order leaves it in order, and one to a tls or
\* passthrough client, which has had none, leaves it unwatched.
LEMMA StartDataKeeps ==
    ASSUME NEW t, ClientsOK(t), NEW c \in Clients, c \in t.bysock,
           NEW content \in Contents, NEW sent, NEW rd \in Reads,
           NEW s, s = startData(t, c, content, sent, rd), s.got # "closed"
    PROVE  /\ content \in {"stream", "response", "end"} \/ ReturnsPage(c) =>
                (OutputKept(t, c) /\ t.writer[c] # "finished" => OutputKept(s.cm, c))
           /\ SourceOf[c] \in {"tls", "passthrough"} /\ content # "response" =>
                (c \notin t.write_client \cup t.w_buffer => c \notin s.cm.write_client)
  <1>0. t \in ClientTable /\ c \notin t.norequest /\ t.buffered[c] \in Nat
    BY TypesOf DEF ClientsOK
  <1>1. PICK w : w = startWriter(t, c, content, sent)
    OBVIOUS
  <1>2. PICK v : v = w.cm
    OBVIOUS
  <1>3. /\ c \notin v.norequest /\ c \in v.bysock
        /\ c \in v.write_client <=> c \in t.write_client
        /\ v.buffered[c] = t.buffered[c]
        /\ content = "stream" => /\ w.had <=> c \in t.w_buffer
                                 /\ w.buffered <=> c \in v.w_buffer
                                 /\ c \notin t.w_buffer => c \notin v.w_buffer
    BY <1>0, <1>1, <1>2, StartWriterSays
  <1>4. ClientsOK(v)
    <2>1. Rewritten(c, t, v)
      BY <1>0, <1>1, <1>2, StartWriterOK
    <2> QED BY <2>1, RewrittenOK
  <1>5. PICK next : next = resume(v, c, rd.mode)
    OBVIOUS
  <1>6. s = IF w.closed \/ rd.got \in {"closed", "request"}
              THEN [cm |-> cleanup(v, c), got |-> "closed"]
            ELSE IF w.buffered /\ ~w.had
              THEN [cm |-> watchOutput(next, c), got |-> rd.got]
            ELSE IF ~w.buffered /\ w.had
              THEN [cm |-> unwatchOutput(next, c), got |-> rd.got]
            ELSE [cm |-> next, got |-> rd.got]
    BY <1>1, <1>2, <1>5 DEF startData
  <1>7. ~w.closed
    BY <1>6
  <1>8. /\ next.norequest = v.norequest /\ next.bysock = v.bysock
        /\ next.write_client = v.write_client /\ next.w_buffer = v.w_buffer
        /\ next.buffered = v.buffered /\ next.writer = v.writer
    BY <1>4, <1>5 DEF resume, ClientsOK, ClientTable
  <1>9. ClientsOK(next) /\ next.buffered[c] \in Nat
    <2>1. PICK ev : ev = uncorkSocket(v.read_client, c)
      OBVIOUS
    <2>2. next = setReader(v, c, ev, rd.mode)
      BY <1>5, <2>1 DEF resume, setReader
    <2>3. /\ ev \in EventSet(Clients) /\ ev.socks = v.bysock
          /\ ev.corked \subseteq v.bysock
      BY <1>4, <2>1, TypesOf DEF uncorkSocket, EventSet, ClientsOK
    <2>4. rd.mode \in ReaderModes
      BY DEF Reads
    <2> QED BY <1>0, <1>3, <1>4, <1>8, <2>2, <2>3, <2>4, SetReaderOK
  <1>10. /\ content = "file" => /\ w.buffered /\ ~w.had
                                /\ c \in v.w_buffer /\ v.writer[c] = "finished"
         /\ content \in {"stream", "response", "end"} \/ (content # "file" /\ ReturnsPage(c)) =>
              /\ w.had <=> c \in t.w_buffer
              /\ w.buffered <=> c \in v.w_buffer \/ v.writer[c] = "finished"
         /\ SourceOf[c] \in {"tls", "passthrough"} =>
              /\ content # "file"
              /\ content \in {"page", "empty", "end"} => w.buffered /\ w.had
    BY <1>0, <1>1, <1>2, <1>7, StartWriterKeeps
  <1>11. CASE w.buffered /\ ~w.had
    <2>1. s.cm = watchOutput(next, c)
      BY <1>6, <1>11
    <2>2. /\ c \in s.cm.w_buffer <=> c \in next.w_buffer
          /\ s.cm.writer[c] = next.writer[c]
          /\ c \in s.cm.write_client /\ s.cm.buffered[c] = next.buffered[c] + 1
      BY <1>9, <2>1, OutputSays
    <2>3. SourceOf[c] \in {"tls", "passthrough"} /\ content # "response" =>
            c \in t.write_client \cup t.w_buffer
      BY <1>3, <1>10, <1>11 DEF Contents
    <2> QED BY <1>0, <1>3, <1>8, <1>10, <1>11, <2>2, <2>3 DEF OutputKept
  <1>12. CASE ~w.buffered /\ w.had
    <2>1. s.cm = unwatchOutput(next, c)
      BY <1>6, <1>12
    <2>2. /\ c \in s.cm.w_buffer <=> c \in next.w_buffer
          /\ s.cm.writer[c] = next.writer[c]
          /\ c \notin s.cm.write_client /\ s.cm.buffered[c] = next.buffered[c] - 1
      BY <1>9, <2>1, OutputSays
    <2> QED BY <1>0, <1>3, <1>8, <1>10, <1>12, <2>2 DEF OutputKept
  <1>13. CASE ~(w.buffered /\ ~w.had) /\ ~(~w.buffered /\ w.had)
    <2>1. s.cm = next
      BY <1>6, <1>13
    <2> QED BY <1>0, <1>3, <1>8, <1>10, <1>13, <2>1 DEF OutputKept
  <1> QED BY <1>11, <1>12, <1>13
=============================================================================

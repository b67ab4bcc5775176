------------------------ MODULE ContentManagerProofs ------------------------
(***************************************************************************)
(* What the methods of the content manager preserve, for every set of      *)
(* clients, servers and connections.  ReactorProofs combines these facts   *)
(* with those about the clients.                                           *)
(***************************************************************************)
EXTENDS ContentManager, TLAPS

\* The tables are of their types and agree with each other.
DownloadsOK(t) ==
    /\ t \in DownloadTable
    /\ t.opening \cap t.established = {}
    /\ t.opening_download = t.opening
    /\ t.read_download.socks = t.established
    /\ t.read_download.corked \subseteq t.established
    /\ t.buffered \cap t.established \subseteq t.write_download
    /\ t.write_download \subseteq t.buffered
    /\ t.buffered \subseteq Known(t)
    /\ \A c \in Clients :
         t.byclient[c] # NoDownload =>
             t.byclient[c] \in Known(t) /\ t.client[t.byclient[c]] = c
    /\ \A d \in Known(t) : t.client[d] \in Clients /\ t.byclient[t.client[d]] = d

\* The clients that have a download.
Owners(t) == {t.client[d] : d \in Known(t)}

\* From t to u the downloads, and their clients, are the same.
SameDownloads(t, u) ==
    /\ Known(u) = Known(t)
    /\ u.client = t.client
    /\ u.byclient = t.byclient
-----------------------------------------------------------------------------
LEMMA DownloadTypes ==
    ASSUME NEW t \in DownloadTable
    PROVE  /\ t.opening \subseteq Downloads /\ t.established \subseteq Downloads
           /\ t.byclient \in [Clients -> Downloads \cup {NoDownload}]
           /\ t.client \in [Downloads -> Clients \cup {NoClient}]
           /\ t.host \in [Downloads -> Hosts]
           /\ t.method \in [Downloads -> Methods]
           /\ t.opening_download \subseteq Downloads
           /\ t.read_download \in EventSet(Downloads)
           /\ t.read_download.socks \subseteq Downloads
           /\ t.read_download.corked \subseteq Downloads
           /\ t.write_download \subseteq Downloads
           /\ t.buffered \subseteq Downloads
           /\ t.w_buffer \subseteq Downloads
  BY DEF DownloadTable, EventSet

LEMMA AnyHostOK == AnyHost \in Hosts
  BY SocketsAssumption DEF AnyHost

(* _terminate() of a download and its client forgets both sides of the     *)
(* pair.                                                                   *)
LEMMA TerminateOK ==
    ASSUME NEW t, DownloadsOK(t), NEW d \in Known(t), NEW c, c = t.client[d],
           NEW u, u = _terminate(t, d, c)
    PROVE  DownloadsOK(u) /\ Owners(u) = Owners(t) \ {c}
  <1>1. t \in DownloadTable
    BY DEF DownloadsOK
  <1>2. /\ c \in Clients /\ d \in Downloads /\ t.byclient[c] = d
    BY <1>1, DownloadTypes DEF DownloadsOK, Known
  <1>3. /\ u.opening = t.opening \ {d} /\ u.established = t.established \ {d}
        /\ u.byclient = [t.byclient EXCEPT ![c] = NoDownload]
        /\ u.client = [t.client EXCEPT ![d] = NoClient]
        /\ u.host = [t.host EXCEPT ![d] = AnyHost]
        /\ u.method = [t.method EXCEPT ![d] = "download"]
        /\ u.opening_download = IF d \in t.established THEN t.opening_download
                                ELSE t.opening_download \ {d}
        /\ u.read_download = IF d \in t.established THEN removeSocket(t.read_download, d)
                             ELSE t.read_download
        /\ u.write_download = IF d \in t.buffered THEN t.write_download \ {d}
                              ELSE t.write_download
        /\ u.buffered = t.buffered \ {d} /\ u.w_buffer = t.w_buffer \ {d}
    BY DEF _terminate
  <1>4. /\ u.byclient \in [Clients -> Downloads \cup {NoDownload}]
        /\ u.client \in [Downloads -> Clients \cup {NoClient}]
        /\ u.host \in [Downloads -> Hosts]
        /\ u.method \in [Downloads -> Methods]
    <2>1. /\ [t.byclient EXCEPT ![c] = NoDownload] \in [Clients -> Downloads \cup {NoDownload}]
          /\ [t.client EXCEPT ![d] = NoClient] \in [Downloads -> Clients \cup {NoClient}]
          /\ [t.host EXCEPT ![d] = AnyHost] \in [Downloads -> Hosts]
          /\ [t.method EXCEPT ![d] = "download"] \in [Downloads -> Methods]
      BY <1>1, DownloadTypes, AnyHostOK DEF Methods
    <2> QED
      BY <1>3, <2>1
  <1>5. u.opening_download \in SUBSET Downloads /\ u.write_download \in SUBSET Downloads
    BY <1>1, <1>3, DownloadTypes
  <1>6. u.read_download \in EventSet(Downloads)
    BY <1>1, <1>3, DownloadTypes DEF removeSocket, EventSet
  <1>7. u = [opening |-> u.opening, established |-> u.established,
             byclient |-> u.byclient, client |-> u.client, host |-> u.host,
             method |-> u.method, opening_download |-> u.opening_download,
             read_download |-> u.read_download, write_download |-> u.write_download,
             buffered |-> u.buffered, w_buffer |-> u.w_buffer]
    BY DEF _terminate
  <1>8. u \in DownloadTable
    BY <1>1, <1>3, <1>4, <1>5, <1>6, <1>7, DownloadTypes DEF DownloadTable
  <1>10. Known(u) = Known(t) \ {d}
    BY <1>3 DEF Known
  <1>11. /\ u.opening_download = u.opening
         /\ u.read_download.socks = u.established
         /\ u.read_download.corked \subseteq u.established
    BY <1>1, <1>3, DownloadTypes DEF DownloadsOK, removeSocket, Known
  <1>12. /\ u.opening \cap u.established = {}
         /\ u.buffered \cap u.established \subseteq u.write_download
         /\ u.write_download \subseteq u.buffered
         /\ u.buffered \subseteq Known(u)
    BY <1>3, <1>10 DEF DownloadsOK
  <1>13. /\ \A k \in Clients : k # c => u.byclient[k] = t.byclient[k]
         /\ u.byclient[c] = NoDownload
         /\ \A e \in Downloads : e # d => u.client[e] = t.client[e]
    BY <1>1, <1>2, <1>3, DownloadTypes
  <1>14. \A k \in Clients :
           u.byclient[k] # NoDownload =>
             u.byclient[k] \in Known(u) /\ u.client[u.byclient[k]] = k
    BY <1>1, <1>2, <1>10, <1>13, DownloadTypes DEF DownloadsOK, Known
  <1>15. \A e \in Known(u) : /\ u.client[e] = t.client[e] /\ u.client[e] # c
                             /\ u.client[e] \in Clients /\ u.byclient[u.client[e]] = e
    BY <1>1, <1>2, <1>10, <1>13, DownloadTypes DEF DownloadsOK, Known
  <1>16. DownloadsOK(u)
    BY <1>8, <1>11, <1>12, <1>14, <1>15 DEF DownloadsOK
  <1>17. Owners(u) = Owners(t) \ {c}
    BY <1>10, <1>15 DEF Owners
  <1> QED
    BY <1>16, <1>17

(* endClientDownload() leaves the client without a download.               *)
LEMMA EndClientDownloadOK ==
    ASSUME NEW t, DownloadsOK(t), NEW c \in Clients, NEW u, u = endClientDownload(t, c)
    PROVE  /\ DownloadsOK(u) /\ Owners(u) = Owners(t) \ {c}
           /\ u.byclient[c] = NoDownload
  <1>1. CASE t.byclient[c] = NoDownload
    <2>1. u = t
      BY <1>1 DEF endClientDownload
    <2>2. c \notin Owners(t)
      BY <1>1, SocketsAssumption DEF DownloadsOK, Owners, Known, DownloadTable
    <2> QED
      BY <1>1, <2>1, <2>2
  <1>2. CASE t.byclient[c] # NoDownload
    <2>1. u = _terminate(t, t.byclient[c], c)
      BY <1>2 DEF endClientDownload
    <2>2. t.byclient[c] \in Known(t) /\ t.client[t.byclient[c]] = c
      BY <1>2 DEF DownloadsOK
    <2>3. DownloadsOK(u) /\ Owners(u) = Owners(t) \ {c}
      BY <2>1, <2>2, TerminateOK
    <2>4. u.byclient[c] = NoDownload
      BY <2>3 DEF DownloadsOK, Owners
    <2> QED
      BY <2>3, <2>4
  <1> QED
    BY <1>1, <1>2
-----------------------------------------------------------------------------
(* Buffers and corks.                                                      *)

setBuffers(t, ev, W, B, L) ==
    [t EXCEPT !.read_download = ev, !.write_download = W, !.buffered = B, !.w_buffer = L]

(* Changing the buffers of the downloads keeps the tables right if the     *)
(* connected downloads that are buffering are those watched for writing.   *)
LEMMA SetBuffersOK ==
    ASSUME NEW t, DownloadsOK(t),
           NEW ev \in EventSet(Downloads), ev.socks = t.established,
           ev.corked \subseteq t.established,
           NEW W, NEW B \in SUBSET Known(t), NEW L \in SUBSET Downloads,
           W \subseteq B, B \cap t.established \subseteq W,
           NEW u, u = setBuffers(t, ev, W, B, L)
    PROVE  DownloadsOK(u) /\ SameDownloads(t, u)
  <1>1. t \in DownloadTable
    BY DEF DownloadsOK
  <1>2. W \in SUBSET Downloads /\ B \in SUBSET Downloads
    BY <1>1, DownloadTypes DEF Known
  <1>3. u \in DownloadTable
    BY <1>1, <1>2, Zenon DEF DownloadTable, setBuffers
  <1>4. /\ u.opening = t.opening /\ u.established = t.established
        /\ u.byclient = t.byclient /\ u.client = t.client
        /\ u.opening_download = t.opening_download
        /\ u.read_download = ev /\ u.write_download = W /\ u.buffered = B
    BY <1>1 DEF DownloadTable, setBuffers
  <1>5. Known(u) = Known(t)
    BY <1>4 DEF Known
  <1>6. DownloadsOK(u)
    BY <1>3, <1>4, <1>5 DEF DownloadsOK
  <1> QED
    BY <1>4, <1>5, <1>6 DEF SameDownloads

LEMMA SameOwners ==
    ASSUME NEW t, NEW u, SameDownloads(t, u)
    PROVE  Owners(u) = Owners(t)
  BY DEF SameDownloads, Owners

LEMMA DownloadCorkOK ==
    ASSUME NEW t, DownloadsOK(t), NEW c \in Clients
    PROVE  /\ DownloadsOK(corkClientDownload(t, c))
           /\ SameDownloads(t, corkClientDownload(t, c))
           /\ DownloadsOK(uncorkClientDownload(t, c))
           /\ SameDownloads(t, uncorkClientDownload(t, c))
  <1>1. t \in DownloadTable
    BY DEF DownloadsOK
  <1> DEFINE d == t.byclient[c]
             cork == corkSocket(t.read_download, d)
             uncork == uncorkSocket(t.read_download, d)
             set(ev) == setBuffers(t, ev, t.write_download, t.buffered, t.w_buffer)
  <1>2. /\ cork \in EventSet(Downloads) /\ cork.socks = t.established
        /\ cork.corked \subseteq t.established
        /\ uncork \in EventSet(Downloads) /\ uncork.socks = t.established
        /\ uncork.corked \subseteq t.established
    BY <1>1, DownloadTypes DEF corkSocket, uncorkSocket, EventSet, DownloadsOK
  <1>3. /\ t.buffered \in SUBSET Known(t) /\ t.w_buffer \in SUBSET Downloads
        /\ t.write_download \subseteq t.buffered
        /\ t.buffered \cap t.established \subseteq t.write_download
    BY <1>1, DownloadTypes DEF DownloadsOK
  <1>4. /\ corkClientDownload(t, c) \in {t, set(cork)}
        /\ uncorkClientDownload(t, c) \in {t, set(uncork)}
    BY <1>1 DEF corkClientDownload, uncorkClientDownload, setBuffers, DownloadTable
  <1> HIDE DEF cork, uncork
  <1>5. /\ DownloadsOK(set(cork)) /\ SameDownloads(t, set(cork))
        /\ DownloadsOK(set(uncork)) /\ SameDownloads(t, set(uncork))
    BY <1>2, <1>3, SetBuffersOK
  <1>6. SameDownloads(t, t)
    BY DEF SameDownloads
  <1> QED
    BY <1>4, <1>5, <1>6, Zenon

(* A write to a server, with its bookkeeping, touches buffers only.        *)
LEMMA RebufferOK ==
    ASSUME NEW t, DownloadsOK(t), NEW d \in Known(t), NEW full \in BOOLEAN,
           NEW sent, NEW again,
           NEW r, r = rebuffer(writeServer(t, d, full, sent), d, again)
    PROVE  DownloadsOK(r.dm) /\ SameDownloads(t, r.dm)
  <1>1. t \in DownloadTable
    BY DEF DownloadsOK
  <1> DEFINE L == IF full /\ sent # "all" THEN t.w_buffer \cup {d} ELSE t.w_buffer \ {d}
             set(W, B) == setBuffers(t, t.read_download, W, B, L)
  <1>2. r.dm \in {set(t.write_download, t.buffered),
                 set(t.write_download \cup {d}, t.buffered \cup {d}),
                 set(t.write_download \ {d}, t.buffered \ {d})}
    BY <1>1 DEF rebuffer, writeServer, watchServer, unwatchServer, setBuffers,
                DownloadTable
  <1>3. /\ t.read_download \in EventSet(Downloads)
        /\ t.read_download.socks = t.established
        /\ t.read_download.corked \subseteq t.established
        /\ L \in SUBSET Downloads
    BY <1>1, DownloadTypes DEF DownloadsOK, Known
  <1>4. /\ t.buffered \in SUBSET Known(t)
        /\ t.write_download \subseteq t.buffered
        /\ t.buffered \cap t.established \subseteq t.write_download
    BY DEF DownloadsOK
  <1> HIDE DEF L
  <1>5. ASSUME NEW W, NEW B \in SUBSET Known(t), W \subseteq B,
               B \cap t.established \subseteq W
        PROVE  DownloadsOK(set(W, B)) /\ SameDownloads(t, set(W, B))
    BY <1>3, <1>5, SetBuffersOK
  <1>6. /\ t.buffered \cup {d} \in SUBSET Known(t)
        /\ t.buffered \ {d} \in SUBSET Known(t)
        /\ t.write_download \cup {d} \subseteq t.buffered \cup {d}
        /\ t.write_download \ {d} \subseteq t.buffered \ {d}
        /\ (t.buffered \cup {d}) \cap t.established \subseteq t.write_download \cup {d}
        /\ (t.buffered \ {d}) \cap t.established \subseteq t.write_download \ {d}
    BY <1>3, <1>4
  <1>7. /\ DownloadsOK(set(t.write_download, t.buffered))
        /\ SameDownloads(t, set(t.write_download, t.buffered))
    BY <1>4, <1>5
  <1>8. /\ DownloadsOK(set(t.write_download \cup {d}, t.buffered \cup {d}))
        /\ SameDownloads(t, set(t.write_download \cup {d}, t.buffered \cup {d}))
    BY <1>5, <1>6
  <1>9. /\ DownloadsOK(set(t.write_download \ {d}, t.buffered \ {d}))
        /\ SameDownloads(t, set(t.write_download \ {d}, t.buffered \ {d}))
    BY <1>5, <1>6
  <1> QED
    BY <1>2, <1>7, <1>8, <1>9, Zenon

LEMMA SendSocketDataOK ==
    ASSUME NEW t, DownloadsOK(t), NEW d, NEW sent, NEW r, r = sendSocketData(t, d, sent)
    PROVE  DownloadsOK(r.dm) /\ SameDownloads(t, r.dm)
  <1>1. CASE d \notin t.established
    BY <1>1 DEF sendSocketData, Unchanged, SameDownloads
  <1>2. CASE d \in t.established
    <2> DEFINE full == d \in t.w_buffer
    <2>1. r = rebuffer(writeServer(t, d, full, sent), d, FALSE)
      BY <1>2 DEF sendSocketData
    <2>2. full \in BOOLEAN
      OBVIOUS
    <2>3. d \in Known(t)
      BY <1>2 DEF Known
    <2> HIDE DEF full
    <2> QED
      BY <2>1, <2>2, <2>3, RebufferOK
  <1> QED
    BY <1>1, <1>2

LEMMA SendClientDataOK ==
    ASSUME NEW t, DownloadsOK(t), NEW c \in Clients, NEW sent,
           NEW r, r = sendClientData(t, c, sent)
    PROVE  DownloadsOK(r.dm) /\ SameDownloads(t, r.dm)
  <1> DEFINE d == t.byclient[c]
  <1>1. t \in DownloadTable
    BY DEF DownloadsOK
  <1>2. CASE d = NoDownload
    BY <1>2 DEF sendClientData, Unchanged, SameDownloads
  <1>3. CASE d # NoDownload /\ d \in t.established
    <2>1. r = rebuffer(writeServer(t, d, TRUE, sent), d, TRUE)
      BY <1>3 DEF sendClientData
    <2>2. d \in Known(t)
      BY <1>3 DEF Known
    <2> QED
      BY <2>1, <2>2, RebufferOK
  <1>4. CASE d # NoDownload /\ d \notin t.established
    <2>1. d \in t.opening /\ d \in Known(t) /\ d \in Downloads
      BY <1>1, <1>4, DownloadTypes DEF DownloadsOK, Known
    <2>2. r.dm = [t EXCEPT !.w_buffer = @ \cup {d}, !.buffered = @ \cup {d}]
      BY <1>4, <2>1 DEF sendClientData
    <2> DEFINE B == t.buffered \cup {d}
               L == t.w_buffer \cup {d}
    <2>3. r.dm = setBuffers(t, t.read_download, t.write_download, B, L)
      BY <1>1, <2>2 DEF setBuffers, DownloadTable
    <2>4. /\ t.read_download \in EventSet(Downloads)
          /\ t.read_download.socks = t.established
          /\ t.read_download.corked \subseteq t.established
          /\ B \in SUBSET Known(t) /\ L \in SUBSET Downloads
          /\ t.write_download \subseteq B
      BY <1>1, <2>1, DownloadTypes DEF DownloadsOK
    <2>5. B \cap t.established \subseteq t.write_download
      BY <1>4 DEF DownloadsOK
    <2> HIDE DEF B, L, d
    <2> QED
      BY <2>3, <2>4, <2>5, SetBuffersOK
  <1> QED
    BY <1>2, <1>3, <1>4
-----------------------------------------------------------------------------
(* Opening, connecting and reading.                                        *)

LEMMA DropOtherOK ==
    ASSUME NEW t, DownloadsOK(t), NEW c \in Clients, NEW host,
           NEW u, u = dropOther(t, c, host)
    PROVE  DownloadsOK(u) /\ Owners(u) \subseteq Owners(t) /\ Known(u) \subseteq Known(t)
  <1>1. CASE u = t
    BY <1>1
  <1>2. CASE u = endClientDownload(t, c)
    <2>1. DownloadsOK(u) /\ Owners(u) = Owners(t) \ {c}
      BY <1>2, EndClientDownloadOK
    <2>2. Known(u) \subseteq Known(t)
      BY <1>2 DEF endClientDownload, _terminate, Known
    <2> QED
      BY <2>1, <2>2
  <1> QED
    BY <1>1, <1>2 DEF dropOther

\* A new connection d to a server, opened for client c.
addDownload(t, c, method, host, d, L) ==
    [t EXCEPT !.opening = t.opening \cup {d}, !.byclient = [t.byclient EXCEPT ![c] = d],
              !.client = [t.client EXCEPT ![d] = c], !.host = [t.host EXCEPT ![d] = host],
              !.method = [t.method EXCEPT ![d] = method],
              !.opening_download = t.opening_download \cup {d}, !.w_buffer = L]

LEMMA AddDownloadOK ==
    ASSUME NEW t, DownloadsOK(t), NEW c \in Clients, t.byclient[c] = NoDownload,
           NEW method \in Methods, NEW host \in Hosts, NEW d \in Downloads, d \notin Known(t),
           NEW L \in SUBSET Downloads,
           NEW u, u = addDownload(t, c, method, host, d, L)
    PROVE  DownloadsOK(u) /\ Owners(u) \subseteq Owners(t) \cup {c}
  <1>1. t \in DownloadTable
    BY DEF DownloadsOK
  <1>2. /\ t.opening \cup {d} \in SUBSET Downloads
        /\ [t.byclient EXCEPT ![c] = d] \in [Clients -> Downloads \cup {NoDownload}]
        /\ [t.client EXCEPT ![d] = c] \in [Downloads -> Clients \cup {NoClient}]
        /\ [t.host EXCEPT ![d] = host] \in [Downloads -> Hosts]
        /\ [t.method EXCEPT ![d] = method] \in [Downloads -> Methods]
        /\ t.opening_download \cup {d} \in SUBSET Downloads
    BY <1>1, DownloadTypes
  <1>3. /\ u.opening = t.opening \cup {d} /\ u.established = t.established
        /\ u.byclient = [t.byclient EXCEPT ![c] = d]
        /\ u.client = [t.client EXCEPT ![d] = c]
        /\ u.host = [t.host EXCEPT ![d] = host]
        /\ u.method = [t.method EXCEPT ![d] = method]
        /\ u.opening_download = t.opening_download \cup {d}
        /\ u.read_download = t.read_download /\ u.write_download = t.write_download
        /\ u.buffered = t.buffered /\ u.w_buffer = L
    BY <1>1 DEF DownloadTable, addDownload
  <1>4. u = [opening |-> u.opening, established |-> u.established,
             byclient |-> u.byclient, client |-> u.client, host |-> u.host,
             method |-> u.method, opening_download |-> u.opening_download,
             read_download |-> u.read_download, write_download |-> u.write_download,
             buffered |-> u.buffered, w_buffer |-> u.w_buffer]
    BY <1>1 DEF DownloadTable, addDownload
  <1>5. u \in DownloadTable
    BY <1>1, <1>2, <1>3, <1>4, DownloadTypes DEF DownloadTable
  <1>6. Known(u) = Known(t) \cup {d}
    BY <1>3 DEF Known
  <1>7. /\ u.byclient[c] = d /\ u.client[d] = c
        /\ \A k \in Clients : k # c => u.byclient[k] = t.byclient[k]
        /\ \A e \in Downloads : e # d => u.client[e] = t.client[e]
    BY <1>1, <1>3, DownloadTypes
  <1>8. /\ u.opening \cap u.established = {}
        /\ u.opening_download = u.opening
        /\ u.read_download.socks = u.established
        /\ u.read_download.corked \subseteq u.established
        /\ u.buffered \cap u.established \subseteq u.write_download
        /\ u.write_download \subseteq u.buffered
        /\ u.buffered \subseteq Known(u)
    BY <1>3, <1>6 DEF DownloadsOK, Known
  <1>9. \A k \in Clients :
           u.byclient[k] # NoDownload =>
             u.byclient[k] \in Known(u) /\ u.client[u.byclient[k]] = k
    BY <1>1, <1>6, <1>7, DownloadTypes DEF DownloadsOK, Known
  <1>10. \A e \in Known(u) :
           /\ u.client[e] \in Clients /\ u.byclient[u.client[e]] = e
           /\ u.client[e] = c \/ (e \in Known(t) /\ u.client[e] = t.client[e])
    BY <1>1, <1>6, <1>7, DownloadTypes, SocketsAssumption DEF DownloadsOK, Known
  <1>11. DownloadsOK(u)
    BY <1>5, <1>8, <1>9, <1>10 DEF DownloadsOK
  <1>12. Owners(u) \subseteq Owners(t) \cup {c}
    BY <1>6, <1>10 DEF Owners
  <1> QED
    BY <1>11, <1>12

(* The connection that answers a decision belongs to the client it was     *)
(* taken for.                                                              *)
LEMMA GetRemoteOK ==
    ASSUME NEW t, DownloadsOK(t), NEW c \in Clients, NEW method \in Methods,
           NEW host \in Hosts, NEW d,
           inUse(t, c, host) = NoDownload => d \in Downloads \ Known(t),
           NEW sent, NEW r, r = getRemote(t, c, method, host, d, sent)
    PROVE  DownloadsOK(r.dm) /\ Owners(r.dm) \subseteq Owners(t) \cup {c}
  <1> DEFINE kept == dropOther(t, c, host)
             old  == kept.byclient[c]
             L    == IF CarriesRequest(c, method) THEN kept.w_buffer \cup {d} ELSE kept.w_buffer
  <1>1. DownloadsOK(kept) /\ Owners(kept) \subseteq Owners(t) /\ Known(kept) \subseteq Known(t)
    BY DropOtherOK
  <1>2. CASE old # NoDownload
    <2>1. r = rebuffer(writeServer(kept, old, TRUE, sent), old, FALSE)
      BY <1>2 DEF getRemote
    <2>2. old \in Known(kept) /\ DownloadsOK(kept)
      BY <1>1, <1>2 DEF DownloadsOK
    <2> HIDE DEF kept, old, L
    <2>3. DownloadsOK(r.dm) /\ SameDownloads(kept, r.dm)
      BY <2>1, <2>2, RebufferOK
    <2>4. Owners(r.dm) = Owners(kept)
      BY <2>3, SameOwners
    <2> QED
      BY <1>1, <2>3, <2>4
  <1>3. CASE old = NoDownload
    <2>1. r.dm = addDownload(kept, c, method, host, d, L)
      BY <1>1, <1>3 DEF getRemote, addDownload, Unchanged, DownloadsOK, DownloadTable
    <2>2. d \in Downloads /\ d \notin Known(kept)
      BY <1>1, <1>3 DEF inUse
    <2>3. L \in SUBSET Downloads
      BY <1>1, <2>2, DownloadTypes DEF DownloadsOK
    <2> HIDE DEF kept, L
    <2>4. DownloadsOK(r.dm) /\ Owners(r.dm) \subseteq Owners(kept) \cup {c}
      BY <1>1, <1>3, <2>1, <2>2, <2>3, AddDownloadOK
    <2> QED
      BY <1>1, <2>1, <2>4
  <1> QED
    BY <1>2, <1>3

LEMMA StartDownloadOK ==
    ASSUME NEW t, DownloadsOK(t), NEW d, NEW sent, NEW r, r = startDownload(t, d, sent)
    PROVE  DownloadsOK(r.dm) /\ SameDownloads(t, r.dm)
  <1>1. t \in DownloadTable
    BY DEF DownloadsOK
  <1>2. CASE d \notin t.opening
    BY <1>2 DEF startDownload, SameDownloads
  <1>3. CASE d \in t.opening
    <2> DEFINE ev == addSocket(t.read_download, d)
               L  == IF d \in t.w_buffer /\ sent # "all" THEN t.w_buffer \cup {d}
                     ELSE t.w_buffer \ {d}
               W  == IF d \in t.buffered THEN t.write_download \cup {d}
                     ELSE t.write_download \ {d}
               u  == [t EXCEPT !.opening = t.opening \ {d},
                               !.established = t.established \cup {d},
                               !.opening_download = t.opening_download \ {d},
                               !.read_download = ev, !.write_download = W, !.w_buffer = L]
    <2>1. /\ d \in Downloads /\ d \in Known(t) /\ d \notin t.established
          /\ t.client[d] \in Clients
      BY <1>1, <1>3, DownloadTypes DEF DownloadsOK, Known
    <2> DEFINE w == writeServer(t, d, d \in t.w_buffer, sent).dm
    <2>10. w \in DownloadTable /\ w = [t EXCEPT !.w_buffer = L]
      <3>1. w = [t EXCEPT !.w_buffer = L]
        BY DEF writeServer
      <3>2. L \in SUBSET Downloads
        BY <1>1, <2>1, DownloadTypes
      <3> HIDE DEF L, w
      <3> QED
        BY <1>1, <3>1, <3>2, Zenon DEF DownloadTable
    <2>11. r.dm = [w EXCEPT
                     !.opening = @ \ {d}, !.established = @ \cup {d},
                     !.opening_download = @ \ {d},
                     !.read_download = addSocket(@, d),
                     !.write_download = IF d \in t.buffered THEN @ \cup {d} ELSE @ \ {d}]
      BY <1>3, Zenon DEF startDownload
    <2> HIDE DEF w, L
    <2>12. r.dm = u
      <3>1. /\ w.opening = t.opening /\ w.established = t.established
            /\ w.opening_download = t.opening_download
            /\ w.read_download = t.read_download
            /\ w.write_download = t.write_download
        BY <1>1, <2>10 DEF DownloadTable
      <3>2. r.dm = [w EXCEPT
                      !.opening = w.opening \ {d}, !.established = w.established \cup {d},
                      !.opening_download = w.opening_download \ {d},
                      !.read_download = addSocket(w.read_download, d),
                      !.write_download = IF d \in t.buffered THEN w.write_download \cup {d}
                                         ELSE w.write_download \ {d}]
        BY <2>10, <2>11, Zenon DEF DownloadTable
      <3>3. r.dm = [w EXCEPT
                      !.opening = t.opening \ {d}, !.established = t.established \cup {d},
                      !.opening_download = t.opening_download \ {d},
                      !.read_download = ev, !.write_download = W]
        BY <3>1, <3>2, Zenon
      <3> HIDE DEF ev, W
      <3> QED
        BY <1>1, <2>10, <3>3 DEF DownloadTable
    <2> USE DEF L
    <2>3. /\ ev \in EventSet(Downloads) /\ ev.socks = t.established \cup {d}
          /\ ev.corked \subseteq t.established
      BY <1>1, <2>1, DownloadTypes DEF addSocket, EventSet, DownloadsOK
    <2>4. /\ t.opening \ {d} \in SUBSET Downloads /\ t.established \cup {d} \in SUBSET Downloads
          /\ t.opening_download \ {d} \in SUBSET Downloads
          /\ L \in SUBSET Downloads /\ W \in SUBSET Downloads
      BY <1>1, <2>1, DownloadTypes
    <2>5. /\ W \subseteq t.buffered
          /\ t.buffered \cap (t.established \cup {d}) \subseteq W
      BY DEF DownloadsOK
    <2> HIDE DEF ev, L, W
    <2>6. u \in DownloadTable
      BY <1>1, <2>3, <2>4, Zenon DEF DownloadTable
    <2>7. /\ u.opening = t.opening \ {d} /\ u.established = t.established \cup {d}
          /\ u.opening_download = t.opening_download \ {d}
          /\ u.read_download = ev /\ u.write_download = W
          /\ u.byclient = t.byclient /\ u.client = t.client /\ u.buffered = t.buffered
      BY <1>1 DEF DownloadTable
    <2> HIDE DEF u
    <2>8. Known(u) = Known(t)
      BY <1>3, <2>7 DEF Known
    <2>9. DownloadsOK(u)
      BY <2>3, <2>5, <2>6, <2>7, <2>8 DEF DownloadsOK
    <2> QED
      BY <2>7, <2>8, <2>9, <2>12 DEF SameDownloads
  <1> QED
    BY <1>2, <1>3

(* At the end of a connection its client has no download any more.         *)
LEMMA ReadDownloadOK ==
    ASSUME NEW t, DownloadsOK(t), NEW d, NEW page, NEW r, r = readDownload(t, d, page)
    PROVE  /\ DownloadsOK(r.dm) /\ Owners(r.dm) \subseteq Owners(t)
           /\ r.client # NoClient => /\ r.client \in Clients
                                     /\ page = "end" => r.client \notin Owners(r.dm)
  <1>1. CASE d \notin t.established
    BY <1>1 DEF readDownload
  <1>2. CASE d \in t.established
    <2>1. d \in Known(t) /\ t.client[d] \in Clients
      BY <1>2 DEF Known, DownloadsOK
    <2>2. /\ r.client = t.client[d]
          /\ r.dm = IF page = "end" THEN _terminate(t, d, t.client[d]) ELSE t
      BY <1>2 DEF readDownload
    <2>3. page = "end" => DownloadsOK(r.dm) /\ Owners(r.dm) = Owners(t) \ {t.client[d]}
      BY <2>1, <2>2, TerminateOK
    <2> QED
      BY <2>1, <2>2, <2>3
  <1> QED
    BY <1>1, <1>2
-----------------------------------------------------------------------------
\* From t to u nothing has changed of the conversation with d, but maybe its buffers.
SameReading(d, t, u) ==
    /\ d \in u.opening <=> d \in t.opening
    /\ d \in u.established <=> d \in t.established
    /\ d \in u.read_download.corked <=> d \in t.read_download.corked

\* From t to u nothing that is kept of the download of a client other than c has changed.
SparesDownloads(c, t, u) ==
    \A k \in Clients \ {c} :
      /\ u.byclient[k] = t.byclient[k]
      /\ t.byclient[k] # NoDownload =>
           /\ SameReading(t.byclient[k], t, u)
           /\ t.byclient[k] \in u.buffered <=> t.byclient[k] \in t.buffered

\* Two clients do not have the same download.
LEMMA Distinct ==
    ASSUME NEW t, DownloadsOK(t), NEW c \in Clients, NEW k \in Clients, k # c,
           t.byclient[k] # NoDownload
    PROVE  t.byclient[k] # t.byclient[c]
  BY DEF DownloadsOK

\* The same for the downloads.
LEMMA SparesDownloadsTwice ==
    ASSUME NEW c, NEW t, NEW u, NEW v, SparesDownloads(c, t, u), SparesDownloads(c, u, v)
    PROVE  SparesDownloads(c, t, v)
  BY DEF SparesDownloads, SameReading

LEMMA SparesDownloadsAll ==
    ASSUME NEW c, NEW t
    PROVE  SparesDownloads(c, t, t)
  BY DEF SparesDownloads, SameReading

\* A download that is terminated is no longer of its client.
LEMMA TerminateSays ==
    ASSUME NEW t, DownloadsOK(t), NEW c \in Clients, NEW d \in Known(t), d = t.byclient[c],
           NEW u, u = _terminate(t, d, c)
    PROVE  SparesDownloads(c, t, u) /\ u.byclient[c] = NoDownload
  <1>1. /\ u.opening = t.opening \ {d} /\ u.established = t.established \ {d}
        /\ u.byclient = [t.byclient EXCEPT ![c] = NoDownload]
        /\ u.read_download = IF d \in t.established THEN removeSocket(t.read_download, d)
                             ELSE t.read_download
        /\ u.buffered = t.buffered \ {d}
    BY DEF _terminate
  <1>2. t \in DownloadTable /\ t.byclient \in [Clients -> Downloads \cup {NoDownload}]
    BY DownloadTypes DEF DownloadsOK
  <1>3. u.read_download.corked \in {t.read_download.corked, t.read_download.corked \ {d}}
    BY <1>1 DEF removeSocket
  <1>4. \A k \in Clients \ {c} : t.byclient[k] # NoDownload => t.byclient[k] # d
    BY Distinct
  <1> QED
    BY <1>1, <1>2, <1>3, <1>4 DEF SparesDownloads, SameReading

\* Nor is one that is ended for its client.
LEMMA EndClientDownloadSays ==
    ASSUME NEW t, DownloadsOK(t), NEW c \in Clients, NEW u, u = endClientDownload(t, c)
    PROVE  SparesDownloads(c, t, u) /\ u.byclient[c] = NoDownload
  <1>1. CASE t.byclient[c] = NoDownload
    BY <1>1, SparesDownloadsAll DEF endClientDownload
  <1>2. CASE t.byclient[c] # NoDownload
    <2>1. u = _terminate(t, t.byclient[c], c) /\ t.byclient[c] \in Known(t)
      BY <1>2 DEF endClientDownload, DownloadsOK
    <2> QED BY <2>1, TerminateSays
  <1> QED BY <1>1, <1>2

\* Only the cork of the download of c changes, if it is connected.
LEMMA DownloadCorkSays ==
    ASSUME NEW t, DownloadsOK(t), NEW c \in Clients,
           NEW u, u \in {corkClientDownload(t, c), uncorkClientDownload(t, c)},
           NEW d, d = t.byclient[c]
    PROVE  /\ SparesDownloads(c, t, u) /\ u.byclient[c] = d
           /\ u.opening = t.opening /\ u.established = t.established
           /\ u.buffered = t.buffered
           /\ u = corkClientDownload(t, c) /\ d \in t.established =>
                d \in u.read_download.corked
           /\ u = uncorkClientDownload(t, c) => d \notin u.read_download.corked
  <1>1. t \in DownloadTable /\ t.read_download \in EventSet(Downloads)
        /\ t.read_download.socks = t.established
        /\ t.read_download.corked \subseteq t.established
        /\ t.established \subseteq Downloads
    BY DownloadTypes DEF DownloadsOK
  <1>2. /\ u.byclient = t.byclient /\ u.opening = t.opening /\ u.established = t.established
        /\ u.buffered = t.buffered
    BY <1>1 DEF corkClientDownload, uncorkClientDownload, DownloadTable
  <1>3. u = corkClientDownload(t, c) =>
          u.read_download.corked = IF d \in t.established
                                   THEN t.read_download.corked \cup {d}
                                   ELSE t.read_download.corked
    BY <1>1, SocketsAssumption DEF corkClientDownload, corkSocket, EventSet, DownloadTable
  <1>4. u = uncorkClientDownload(t, c) =>
          u.read_download.corked = t.read_download.corked \ {d}
    BY <1>1 DEF uncorkClientDownload, uncorkSocket, EventSet, DownloadTable
  <1>5. \A k \in Clients \ {c} : t.byclient[k] # NoDownload => t.byclient[k] # d
    BY Distinct
  <1>6. \A e : e # d => (e \in u.read_download.corked <=> e \in t.read_download.corked)
    BY <1>3, <1>4
  <1> QED
    BY <1>2, <1>3, <1>4, <1>5, <1>6 DEF SparesDownloads, SameReading

\* What a write to the server of client c says of the table: nothing changes but the list
\* `buffered', which holds the download as the answer tells.
Buffers(c, t, r) ==
    /\ SparesDownloads(c, t, r.dm) /\ r.dm.byclient[c] = t.byclient[c]
    /\ SameReading(t.byclient[c], t, r.dm)
    /\ r.change /\ r.status =>
         t.byclient[c] # NoDownload /\ t.byclient[c] \in r.dm.buffered
    /\ ~r.change /\ t.byclient[c] # NoDownload /\ t.byclient[c] \in t.buffered =>
         t.byclient[c] \in r.dm.buffered

\* What is left after a write to a server decides the status that is returned.
LEMMA RebufferSays ==
    ASSUME NEW t, DownloadsOK(t), NEW c \in Clients, NEW d, d = t.byclient[c], d # NoDownload,
           NEW full \in BOOLEAN, NEW sent, NEW again \in BOOLEAN,
           NEW r, r = rebuffer(writeServer(t, d, full, sent), d, again)
    PROVE  Buffers(c, t, r)
  <1>1. t \in DownloadTable
    BY DEF DownloadsOK
  <1>2. PICK w : w = writeServer(t, d, full, sent)
    OBVIOUS
  <1>3. /\ w.dm.opening = t.opening /\ w.dm.established = t.established
        /\ w.dm.byclient = t.byclient /\ w.dm.read_download = t.read_download
        /\ w.dm.buffered = t.buffered /\ w.buffered \in BOOLEAN
        /\ w.dm \in DownloadTable
    <2> DEFINE L == IF full /\ sent # "all" THEN t.w_buffer \cup {d} ELSE t.w_buffer \ {d}
    <2>1. w.dm = [t EXCEPT !.w_buffer = L] /\ w.buffered \in BOOLEAN
      BY <1>2 DEF writeServer
    <2>2. L \in SUBSET Downloads
      BY <1>1, DownloadTypes DEF DownloadsOK, Known
    <2> HIDE DEF L
    <2> QED BY <1>1, <2>1, <2>2 DEF DownloadTable
  <1>4. PICK v : v = w.dm
    OBVIOUS
  <1>5. /\ r.dm \in {v, watchServer(v, d), unwatchServer(v, d)}
        /\ r.change /\ r.status => d \in r.dm.buffered
        /\ ~r.change /\ d \in t.buffered => d \in r.dm.buffered
    <2>1. CASE w.buffered /\ d \notin v.buffered
      <3>1. r = [dm |-> watchServer(v, d), status |-> TRUE, change |-> TRUE]
        BY <1>2, <1>4, <2>1 DEF rebuffer
      <3>2. d \in watchServer(v, d).buffered
        BY <1>3, <1>4 DEF watchServer, DownloadTable
      <3> QED BY <3>1, <3>2
    <2>2. CASE ~w.buffered /\ d \in v.buffered
      <3>1. r = [dm |-> unwatchServer(v, d), status |-> FALSE, change |-> TRUE]
        BY <1>2, <1>4, <2>2 DEF rebuffer
      <3> QED BY <3>1
    <2>3. CASE w.buffered <=> d \in v.buffered
      <3>1. r = [dm |-> v, status |-> w.buffered, change |-> w.buffered /\ again]
        BY <1>2, <1>4, <2>3 DEF rebuffer
      <3> QED BY <1>3, <1>4, <2>3, <3>1
    <2> QED BY <2>1, <2>2, <2>3
  <1>6. /\ r.dm.opening = t.opening /\ r.dm.established = t.established
        /\ r.dm.byclient = t.byclient /\ r.dm.read_download = t.read_download
        /\ r.dm.buffered \in {t.buffered, t.buffered \cup {d}, t.buffered \ {d}}
    BY <1>3, <1>4, <1>5 DEF watchServer, unwatchServer, DownloadTable
  <1>7. \A k \in Clients \ {c} : t.byclient[k] # NoDownload => t.byclient[k] # d
    BY Distinct
  <1> QED
    BY <1>5, <1>6, <1>7 DEF Buffers, SparesDownloads, SameReading

\* Nothing was written.
LEMMA UnchangedSays ==
    ASSUME NEW t, NEW c
    PROVE  Buffers(c, t, Unchanged(t))
  BY SparesDownloadsAll DEF Buffers, Unchanged, SameReading

\* The rest is written when the server has room.
LEMMA SendSocketDataSays ==
    ASSUME NEW t, DownloadsOK(t), NEW d \in t.established, NEW sent,
           NEW r, r = sendSocketData(t, d, sent), NEW c, c = t.client[d]
    PROVE  Buffers(c, t, r)
  <1>1. c \in Clients /\ t.byclient[c] = d /\ d # NoDownload
    BY DownloadTypes, SocketsAssumption DEF DownloadsOK, Known
  <1> DEFINE full == d \in t.w_buffer
  <1>2. r = rebuffer(writeServer(t, d, full, sent), d, FALSE)
    BY DEF sendSocketData
  <1>3. full \in BOOLEAN
    OBVIOUS
  <1> HIDE DEF full
  <1> QED BY <1>1, <1>2, <1>3, RebufferSays

\* Data of the client is written, or kept until the server has room.
LEMMA SendClientDataSays ==
    ASSUME NEW t, DownloadsOK(t), NEW c \in Clients, NEW sent,
           NEW r, r = sendClientData(t, c, sent)
    PROVE  Buffers(c, t, r)
  <1> DEFINE d == t.byclient[c]
  <1>1. t \in DownloadTable
    BY DEF DownloadsOK
  <1>2. CASE d = NoDownload
    BY <1>2, UnchangedSays DEF sendClientData
  <1>3. CASE d # NoDownload /\ d \in t.established
    <2>1. r = rebuffer(writeServer(t, d, TRUE, sent), d, TRUE)
      BY <1>3 DEF sendClientData
    <2> QED BY <1>3, <2>1, RebufferSays
  <1>4. CASE d # NoDownload /\ d \notin t.established
    <2>1. d \in t.opening
      BY <1>4 DEF DownloadsOK, Known
    <2>2. r.dm = [t EXCEPT !.w_buffer = @ \cup {d}, !.buffered = @ \cup {d}]
      BY <1>4, <2>1 DEF sendClientData
    <2>3. /\ r.dm.opening = t.opening /\ r.dm.established = t.established
          /\ r.dm.byclient = t.byclient /\ r.dm.read_download = t.read_download
          /\ r.dm.buffered = t.buffered \cup {d}
      BY <1>1, <2>2 DEF DownloadTable
    <2>4. \A k \in Clients \ {c} : t.byclient[k] # NoDownload => t.byclient[k] # d
      BY Distinct
    <2> QED BY <1>4, <2>3, <2>4 DEF Buffers, SparesDownloads, SameReading
  <1> QED BY <1>2, <1>3, <1>4

\* The connection that answers a decision is the one the client had, or a new one.
LEMMA GetRemoteSays ==
    ASSUME NEW t, DownloadsOK(t), NEW c \in Clients, NEW method, NEW host, NEW d,
           inUse(t, c, host) = NoDownload => d \in Downloads \ Known(t),
           NEW sent, NEW r, r = getRemote(t, c, method, host, d, sent)
    PROVE  /\ SparesDownloads(c, t, r.dm)
           /\ \/ /\ r.dm.byclient[c] = t.byclient[c] /\ t.byclient[c] # NoDownload
                 /\ SameReading(t.byclient[c], t, r.dm)
              \/ /\ inUse(t, c, host) = NoDownload /\ r.dm.byclient[c] = d
                 /\ d \in r.dm.opening /\ d \notin r.dm.established
                 /\ d \notin r.dm.read_download.corked
  <1>1. PICK kept : kept = dropOther(t, c, host)
    OBVIOUS
  <1>2. DownloadsOK(kept) /\ Known(kept) \subseteq Known(t)
    BY <1>1, DropOtherOK
  <1>3. /\ SparesDownloads(c, t, kept)
        /\ kept.byclient[c] # NoDownload => kept = t
    BY <1>1, EndClientDownloadSays, SparesDownloadsAll DEF dropOther
  <1>4. inUse(t, c, host) = kept.byclient[c]
    BY <1>1 DEF inUse
  <1>5. CASE kept.byclient[c] # NoDownload
    <2>1. r = rebuffer(writeServer(t, t.byclient[c], TRUE, sent), t.byclient[c], FALSE)
          /\ t.byclient[c] # NoDownload
      BY <1>1, <1>3, <1>5 DEF getRemote
    <2>2. Buffers(c, t, r)
      BY <2>1, RebufferSays
    <2> QED BY <2>1, <2>2 DEF Buffers
  <1>6. CASE kept.byclient[c] = NoDownload
    <2> DEFINE L == IF CarriesRequest(c, method) THEN kept.w_buffer \cup {d} ELSE kept.w_buffer
    <2>1. r.dm = addDownload(kept, c, method, host, d, L)
      BY <1>1, <1>2, <1>6 DEF getRemote, addDownload, Unchanged, DownloadsOK, DownloadTable
    <2>2. /\ r.dm.opening = kept.opening \cup {d} /\ r.dm.established = kept.established
          /\ r.dm.byclient = [kept.byclient EXCEPT ![c] = d]
          /\ r.dm.read_download = kept.read_download /\ r.dm.buffered = kept.buffered
      BY <1>2, <2>1 DEF DownloadsOK, DownloadTable, addDownload
    <2>3. d \notin Known(kept) /\ d \notin kept.read_download.corked
      BY <1>2, <1>4, <1>6 DEF DownloadsOK, Known
    <2>4. \A k \in Clients \ {c} : kept.byclient[k] # NoDownload => kept.byclient[k] # d
      BY <1>2, <2>3 DEF DownloadsOK
    <2>5. r.dm.byclient[c] = d /\ \A k \in Clients \ {c} : r.dm.byclient[k] = kept.byclient[k]
      BY <1>2, <2>2, DownloadTypes DEF DownloadsOK
    <2>6. SparesDownloads(c, kept, r.dm)
      BY <2>2, <2>4, <2>5 DEF SparesDownloads, SameReading
    <2>7. SparesDownloads(c, t, r.dm)
      BY <1>3, <2>6, SparesDownloadsTwice
    <2> QED BY <1>4, <1>6, <2>2, <2>3, <2>5, <2>7 DEF Known
  <1> QED BY <1>5, <1>6

\* An opening connection is established, and its client is read again.
LEMMA StartDownloadSays ==
    ASSUME NEW t, DownloadsOK(t), NEW d, NEW sent, NEW s, s = startDownload(t, d, sent)
    PROVE  /\ d \notin t.opening => s.dm = t /\ ~s.change /\ ~s.response
           /\ d \in t.opening =>
                /\ s.client = t.client[d] /\ s.client \in Clients /\ t.byclient[s.client] = d
                /\ SparesDownloads(s.client, t, s.dm) /\ s.dm.byclient[s.client] = d
                /\ d \notin s.dm.opening /\ d \in s.dm.established
                /\ d \notin s.dm.read_download.corked
                /\ s.dm.buffered = t.buffered
  <1>1. CASE d \notin t.opening
    BY <1>1 DEF startDownload
  <1>2. CASE d \in t.opening
    <2>1. t \in DownloadTable /\ d \in Downloads
      BY <1>2 DEF DownloadsOK, DownloadTable
    <2>2. /\ s.client = t.client[d] /\ s.client \in Clients /\ t.byclient[s.client] = d
          /\ d \notin t.established /\ d \notin t.read_download.corked
      BY <1>2 DEF startDownload, DownloadsOK, Known
    <2>3. PICK w : w = writeServer(t, d, d \in t.w_buffer, sent).dm
      OBVIOUS
    <2>4. /\ w.opening = t.opening /\ w.established = t.established
          /\ w.byclient = t.byclient /\ w.read_download = t.read_download
          /\ w.buffered = t.buffered /\ w \in DownloadTable
      <3> DEFINE L == IF d \in t.w_buffer /\ sent # "all" THEN t.w_buffer \cup {d}
                      ELSE t.w_buffer \ {d}
      <3>1. w = [t EXCEPT !.w_buffer = L]
        BY <2>3 DEF writeServer
      <3>2. L \in SUBSET Downloads
        BY <2>1, DownloadTypes
      <3> HIDE DEF L
      <3> QED BY <2>1, <3>1, <3>2 DEF DownloadTable
    <2>5. s.dm = [w EXCEPT
                    !.opening = @ \ {d}, !.established = @ \cup {d},
                    !.opening_download = @ \ {d},
                    !.read_download = addSocket(@, d),
                    !.write_download = IF d \in t.buffered THEN @ \cup {d} ELSE @ \ {d}]
      BY <1>2, <2>3, Zenon DEF startDownload
    <2>6. /\ s.dm.opening = t.opening \ {d} /\ s.dm.established = t.established \cup {d}
          /\ s.dm.byclient = t.byclient /\ s.dm.read_download = addSocket(t.read_download, d)
          /\ s.dm.buffered = t.buffered
      BY <2>4, <2>5 DEF DownloadTable
    <2>7. s.dm.read_download.corked = t.read_download.corked
      BY <2>1, <2>6, DownloadTypes DEF addSocket, EventSet
    <2>8. \A k \in Clients \ {s.client} : t.byclient[k] # NoDownload => t.byclient[k] # d
      BY <2>2, Distinct
    <2> QED
      BY <1>2, <2>2, <2>6, <2>7, <2>8 DEF SparesDownloads, SameReading
  <1> QED BY <1>1, <1>2
=============================================================================

--------------------------- MODULE ResolverProofs ---------------------------
(***************************************************************************)
(* What is proved of the resolver, for any number of clients, names,       *)
(* workers, retries and lookups: its tables hold what their readers expect,*)
(* the TCP workers are counted, and, until a lookup times out while a TCP  *)
(* worker has it, nobody is forgotten, nobody is answered twice, the line  *)
(* moves and the process runs.                                             *)
(***************************************************************************)
EXTENDS ResolverProperties, FiniteSetTheorems, WellFoundedInduction, TLAPS

-----------------------------------------------------------------------------
(* The list of timeouts.                                                   *)

\* A non-empty set of numbers has a least one (list.remove takes the first).
LEMMA LeastIndex ==
    ASSUME NEW I \in SUBSET Nat, I # {}
    PROVE  \E i \in I : \A j \in I : i =< j
  <1>1. PICK m \in I : \A k \in I : <<k, m>> \notin OpToRel(<, Nat)
    BY WFMin, NatLessThanWellFounded, Zenon
  <1>2. \A k \in I : ~(k < m)
    BY <1>1, Zenon DEF OpToRel
  <1>3. m \in Nat /\ \A k \in I : k \in Nat
    OBVIOUS
  <1> HIDE <1>1
  <1>4. \A k \in I : m =< k
    BY <1>2, <1>3
  <1> QED BY <1>4

LEMMA Joined ==
    ASSUME NEW S, NEW x \in Seq(S), NEW y \in Seq(S)
    PROVE  /\ x \o y \in Seq(S)
           /\ Len(x \o y) = Len(x) + Len(y)
           /\ \A i \in 1..Len(x) : (x \o y)[i] = x[i]
           /\ \A i \in 1..Len(y) : (x \o y)[i + Len(x)] = y[i]
  OBVIOUS

\* What is left when the first occurrence of an element is removed.
LEMMA Removed ==
    ASSUME NEW S, NEW s \in Seq(S), NEW e, NEW u, u = RemoveFirst(s, e)
    PROVE  \/ u = s /\ \A i \in DOMAIN s : s[i] # e
           \/ \E k \in DOMAIN s :
                /\ s[k] = e
                /\ u \in Seq(S) /\ Len(u) = Len(s) - 1
                /\ \A i \in DOMAIN u : u[i] = IF i < k THEN s[i] ELSE s[i + 1]
  <1> DEFINE I == {i \in 1..Len(s) : s[i] = e}
  <1>1. CASE I = {}
    <2>1. \A i \in 1..Len(s) : s[i] # e
      BY <1>1
    <2>2. DOMAIN s = 1..Len(s)
      OBVIOUS
    <2> QED BY <2>1, <2>2 DEF RemoveFirst
  <1>2. CASE I # {}
    <2>1. I \in SUBSET Nat
      OBVIOUS
    <2>2. u = RemoveAt(s, Min(I))
      BY <1>2 DEF RemoveFirst, SelectInSeq
    <2>3. Min(I) \in I
      BY <1>2, <2>1, LeastIndex DEF Min
    <2> HIDE DEF I
    <2>4. PICK k \in I : k = Min(I)
      BY <2>3
    <2>5. k \in 1..Len(s) /\ s[k] = e
      BY <2>4 DEF I
    <2>6. u = SubSeq(s, 1, k - 1) \o SubSeq(s, k + 1, Len(s))
      BY <2>2, <2>4 DEF RemoveAt
    <2> DEFINE x == SubSeq(s, 1, k - 1)
               y == SubSeq(s, k + 1, Len(s))
    <2>7. x \in Seq(S) /\ Len(x) = k - 1 /\ \A i \in 1..(k - 1) : x[i] = s[i]
      BY <2>5
    <2>8. /\ y \in Seq(S) /\ Len(y) = Len(s) - k
          /\ \A i \in 1..(Len(s) - k) : y[i] = s[i + k]
      BY <2>5
    <2>9. u = x \o y
      BY <2>6
    <2> HIDE DEF x, y
    <2> HIDE <2>6
    <2>10. u \in Seq(S) /\ Len(u) = Len(s) - 1
      <3>0. x \in Seq(S) /\ y \in Seq(S)
        BY <2>7, <2>8
      <3>1. u \in Seq(S) /\ Len(u) = Len(x) + Len(y)
        BY <2>9, <3>0, Joined, Zenon
      <3>2. Len(s) \in Nat
        OBVIOUS
      <3> QED BY <2>5, <2>7, <2>8, <3>1, <3>2
    <2>11. ASSUME NEW i \in DOMAIN u
           PROVE  u[i] = IF i < k THEN s[i] ELSE s[i + 1]
      <3>1. i \in 1..(Len(s) - 1)
        BY <2>10
      <3>2. CASE i < k
        <4>1. i \in 1..Len(x)
          BY <2>5, <2>7, <3>1, <3>2
        <4>2. u[i] = x[i]
          BY <2>7, <2>8, <2>9, <4>1, Joined
        <4> QED BY <2>7, <3>2, <4>1, <4>2
      <3>3. CASE ~(i < k)
        <4> DEFINE j == i - (k - 1)
        <4>1. j \in 1..Len(y) /\ i = j + Len(x) /\ j + k = i + 1
          BY <2>5, <2>7, <2>8, <3>1, <3>3
        <4> HIDE DEF j
        <4>2. u[i] = y[j]
          BY <2>7, <2>8, <2>9, <4>1, Joined
        <4>3. y[j] = s[i + 1]
          BY <2>8, <4>1
        <4> QED BY <3>3, <4>2, <4>3
      <3> QED BY <3>2, <3>3
    <2> QED BY <2>5, <2>10, <2>11
  <1> QED BY <1>1, <1>2

\* The entries of a client are marked, and nothing else is changed.
LEMMA Outdated ==
    ASSUME NEW s \in Seq(Active), NEW c, NEW u, u = outdated(s, c)
    PROVE  /\ u \in Seq(Active) /\ Len(u) = Len(s) /\ DOMAIN u = DOMAIN s
           /\ \A i \in DOMAIN s :
                /\ u[i].client = s[i].client /\ u[i].worker = s[i].worker
                /\ u[i].current <=> s[i].current /\ s[i].client # c
  <1>1. \A i \in DOMAIN s : s[i] \in Active
    OBVIOUS
  <1> DEFINE mark(x) == IF x.client = c THEN [x EXCEPT !.current = FALSE] ELSE x
  <1>2. ASSUME NEW x \in Active
        PROVE  /\ mark(x) \in Active
               /\ mark(x).client = x.client /\ mark(x).worker = x.worker
               /\ mark(x).current <=> x.current /\ x.client # c
    BY DEF Active
  <1>3. u = [i \in 1..Len(s) |-> mark(s[i])]
    BY DEF outdated
  <1> HIDE DEF mark
  <1>4. u \in Seq(Active) /\ Len(u) = Len(s)
    BY <1>1, <1>2, <1>3
  <1> QED BY <1>1, <1>2, <1>3, <1>4

-----------------------------------------------------------------------------
(* The tables hold what their readers expect.                              *)

\* Only the network, the identifiers and the caches may differ.
SameTables(r, t) ==
    /\ t.clients = r.clients /\ t.resolving = r.resolving /\ t.sending = r.sending
    /\ t.active = r.active /\ t.waiting = r.waiting
    /\ t.workers = r.workers /\ t.worker_count = r.worker_count
    /\ t.reading = r.reading /\ t.writing = r.writing

\* A query is sent: only the network changes.
LEMMA SendQueryOK ==
    ASSUME NEW r \in Resolvers, NEW w \in Workers, NEW id \in Ids, NEW host \in Hosts,
           NEW attempt \in Nat, NEW t, t = sendQuery(r, w, id, host, attempt)
    PROVE  t \in Resolvers /\ SameTables(r, t)
  <1>1. [worker |-> w, id |-> id, host |-> host, attempt |-> attempt] \in Query
    BY DEF Query
  <1>2. r.queries \cup {[worker |-> w, id |-> id, host |-> host, attempt |-> attempt]}
          \in SUBSET Query
    BY <1>1 DEF Resolvers
  <1> QED BY <1>2 DEF sendQuery, Resolvers, SameTables

\* Identifiers come round within 1..LastId.
LEMMA NextId ==
    ASSUME NEW i \in Ids
    PROVE  (i % LastId) + 1 \in Ids
  BY ResolverAssumption DEF Ids

LEMMA ResolveHostOK ==
    ASSUME NEW r \in Resolvers, NEW w \in Workers, NEW host \in Hosts,
           NEW t, t = resolveHost(r, w, host)
    PROVE  t \in Resolvers /\ SameTables(r, t)
  <1>1. PICK i \in Ids : i = r.next[w]
    BY DEF Resolvers
  <1>2. PICK s : s = sendQuery(r, w, i, host, 1)
    OBVIOUS
  <1>3. s \in Resolvers /\ SameTables(r, s)
    BY <1>2, SendQueryOK, 1 \in Nat
  <1>4. t = [s EXCEPT !.next[w] = (@ % LastId) + 1]
    BY <1>1, <1>2 DEF resolveHost
  <1>5. s.next[w] \in Ids
    BY <1>3 DEF Resolvers
  <1>6. PICK j \in Ids : j = (s.next[w] % LastId) + 1
    BY <1>5, NextId
  <1>7. t = [s EXCEPT !.next[w] = j]
    BY <1>4, <1>6
  <1>8. t \in Resolvers
    <2>1. s \in Resolvers
      BY <1>3
    <2>2. [s.next EXCEPT ![w] = j] \in [Workers -> Ids]
      BY <2>1 DEF Resolvers
    <2>3. t = [s EXCEPT !.next = [s.next EXCEPT ![w] = j]]
      BY <1>7
    <2> QED BY <2>1, <2>2, <2>3 DEF Resolvers
  <1>9. SameTables(s, t)
    BY <1>3, <1>7 DEF Resolvers, SameTables
  <1> QED BY <1>3, <1>8, <1>9 DEF SameTables

\* The entry of a lookup in the three tables.
LEMMA TrackOK ==
    ASSUME NEW r \in Resolvers, NEW w \in Workers, NEW id \in Ids, NEW data \in Data,
           NEW count \in Nat, NEW sock \in Workers,
           NEW t, t = track(r, w, id, data, count, sock)
    PROVE  t \in Resolvers
  <1> DEFINE c == data.client
             e == [worker |-> w, id |-> id, count |-> count]
             x == [client |-> c, worker |-> sock, current |-> TRUE]
  <1>1. c \in Clients /\ e \in Entry /\ x \in Active
    BY DEF Data, Entry, Active
  <1>2. outdated(r.active, c) \in Seq(Active)
    BY Outdated DEF Resolvers
  <1>3. Append(outdated(r.active, c), x) \in Seq(Active)
    BY <1>1, <1>2
  <1>4. [r.resolving EXCEPT ![<<w, id>>] = data] \in [Workers \X Ids -> Data \cup {None}]
    BY DEF Resolvers
  <1>5. [r.clients EXCEPT ![c] = e] \in [Clients -> Entry \cup {None}]
    BY <1>1 DEF Resolvers
  <1> QED BY <1>3, <1>4, <1>5 DEF track, Resolvers

LEMMA Renewed ==
    ASSUME NEW data \in Data
    PROVE  renewed(data) \in Data /\ renewed(data).client = data.client
           /\ renewed(data).ask = data.ask
  BY DEF renewed, Data

LEMMA NewTCPResolverOK ==
    ASSUME NEW r \in Resolvers, NEW data \in Data, NEW w \in Tcp, NEW sent,
           NEW t, t = newTCPResolver(r, data, w, sent)
    PROVE  t \in Resolvers
  <1>1. PICK begun : begun = [r EXCEPT !.workers = @ \cup {w}, !.next[w] = 1]
    OBVIOUS
  <1>2. w \in Workers /\ 1 \in Ids /\ 1 \in Nat /\ Udp \in Workers
    BY ResolverAssumption DEF Workers, Ids
  <1>3. begun \in Resolvers
    BY <1>1, <1>2 DEF Resolvers
  <1>4. data.original \in Hosts
    BY DEF Data
  <1>5. PICK h : h = resolveHost(begun, w, data.original)
    OBVIOUS
  <1>6. h \in Resolvers
    BY <1>2, <1>3, <1>4, <1>5, ResolveHostOK
  <1>7. PICK asked : asked = track(h, w, 1, renewed(data), 1, Udp)
    OBVIOUS
  <1>8. asked \in Resolvers
    BY <1>2, <1>6, <1>7, Renewed, TrackOK
  <1>9. t = IF sent THEN [asked EXCEPT !.reading = @ \cup {w}]
            ELSE [asked EXCEPT !.writing = @ \cup {w}, !.sending[w] = renewed(data)]
    BY <1>1, <1>5, <1>7 DEF newTCPResolver
  <1>10. [asked EXCEPT !.reading = @ \cup {w}] \in Resolvers
    BY <1>8 DEF Resolvers
  <1>11. PICK d \in Data : d = renewed(data)
    BY Renewed
  <1>12. [asked EXCEPT !.writing = @ \cup {w}, !.sending[w] = d] \in Resolvers
    BY <1>8 DEF Resolvers
  <1> QED BY <1>9, <1>10, <1>11, <1>12

LEMMA RetransmitOK ==
    ASSUME NEW r \in Resolvers, NEW data \in Data, NEW id \in Ids, NEW count \in Nat
    PROVE  retransmit(r, data, id, count) \in Resolvers
  <1>1. Udp \in Workers /\ data.original \in Hosts
    BY DEF Workers, Data
  <1>2. PICK s : s = sendQuery(r, Udp, id, data.original, count)
    OBVIOUS
  <1>3. s \in Resolvers
    BY <1>1, <1>2, SendQueryOK
  <1>4. PICK t : t = track(s, Udp, id, renewed(data), count, Udp)
    OBVIOUS
  <1>5. t \in Resolvers
    BY <1>1, <1>3, <1>4, Renewed, TrackOK
  <1> QED BY <1>2, <1>4, <1>5 DEF retransmit

LEMMA CountOK ==
    ASSUME NEW r \in Resolvers, NEW n \in Int
    PROVE  [r EXCEPT !.worker_count = n] \in Resolvers
  BY DEF Resolvers

LEMMA LineOK ==
    ASSUME NEW r \in Resolvers, NEW s \in Seq(Data)
    PROVE  [r EXCEPT !.waiting = s] \in Resolvers
  BY DEF Resolvers

LEMMA BeginResolvingTCPOK ==
    ASSUME NEW r \in Resolvers, NEW data \in Data, NEW w \in Tcp, NEW sent
    PROVE  beginResolvingTCP(r, data, w, sent) \in Resolvers
  <1>1. PICK n : n = newTCPResolver(r, data, w, sent)
    OBVIOUS
  <1>2. n \in Resolvers
    BY <1>1, NewTCPResolverOK
  <1>3. [n EXCEPT !.worker_count = @ + 1] \in Resolvers
    <2>1. n.worker_count + 1 \in Int
      BY <1>2 DEF Resolvers
    <2> QED BY <1>2, <2>1, CountOK
  <1>4. [r EXCEPT !.waiting = Append(@, data)] \in Resolvers
    <2>1. r.waiting \in Seq(Data)
      BY DEF Resolvers
    <2> QED BY <2>1, LineOK
  <1> QED BY <1>1, <1>3, <1>4 DEF beginResolvingTCP

LEMMA Waiting ==
    ASSUME NEW r \in Resolvers, r.waiting # <<>>
    PROVE  /\ Head(r.waiting) \in Data
           /\ [r EXCEPT !.waiting = Tail(@)] \in Resolvers
  <1>1. r.waiting \in Seq(Data)
    BY DEF Resolvers
  <1>2. Head(r.waiting) \in Data /\ Tail(r.waiting) \in Seq(Data)
    BY <1>1
  <1> QED BY <1>2, LineOK

LEMMA NotifyCloseOK ==
    ASSUME NEW r \in Resolvers, NEW w \in Tcp, NEW sent
    PROVE  notifyClose(r, w, sent) \in Resolvers
  <1>1. [r EXCEPT !.worker_count = @ - 1] \in Resolvers
    <2>1. r.worker_count - 1 \in Int
      BY DEF Resolvers
    <2> QED BY <2>1, CountOK
  <1>2. ASSUME r.waiting # <<>>
        PROVE  newTCPResolver([r EXCEPT !.waiting = Tail(@)], Head(r.waiting), w, sent)
                 \in Resolvers
    <2>1. PICK s : s = [r EXCEPT !.waiting = Tail(@)]
      OBVIOUS
    <2>2. PICK h : h = Head(r.waiting)
      OBVIOUS
    <2>3. s \in Resolvers /\ h \in Data
      BY <1>2, <2>1, <2>2, Waiting
    <2> QED BY <2>1, <2>2, <2>3, NewTCPResolverOK
  <1> QED BY <1>1, <1>2 DEF notifyClose

LEMMA HangUpOK ==
    ASSUME NEW r \in Resolvers, NEW w
    PROVE  hangUp(r, w) \in Resolvers
  BY DEF hangUp, Resolvers

LEMMA CloseWorkerOK ==
    ASSUME NEW r \in Resolvers, NEW w
    PROVE  closeWorker(r, w) \in Resolvers
  <1>1. PICK h : h = hangUp(r, w)
    OBVIOUS
  <1>2. h \in Resolvers
    BY <1>1, HangUpOK
  <1>3. [h EXCEPT !.reading = @ \ {w}, !.writing = @ \ {w}] \in Resolvers
    BY <1>2 DEF Resolvers
  <1> QED BY <1>1, <1>3 DEF closeWorker

LEMMA FinishOK ==
    ASSUME NEW r \in Resolvers, NEW w, NEW new \in Tcp, NEW sent
    PROVE  finish(r, w, new, sent) \in Resolvers
  BY CloseWorkerOK, NotifyCloseOK DEF finish

\* The lookup of an answer leaves the tables.
LEMMA ForgetOK ==
    ASSUME NEW r \in Resolvers, NEW w \in Workers, NEW id \in Ids,
           r.resolving[<<w, id>>] # None
    PROVE  /\ forget(r, w, id) \in Resolvers
           /\ r.resolving[<<w, id>>] \in Data
  <1>1. PICK data \in Data : data = r.resolving[<<w, id>>]
    BY DEF Resolvers
  <1> DEFINE c == data.client
             e == [client |-> c, worker |-> w, current |-> TRUE]
  <1>2. PICK u : u = RemoveFirst(r.active, e)
    OBVIOUS
  <1>3. u \in Seq(Active)
    BY <1>2, Removed DEF Resolvers
  <1>4. PICK v : v = outdated(u, c)
    OBVIOUS
  <1>5. v \in Seq(Active)
    BY <1>3, <1>4, Outdated
  <1>6. [r.resolving EXCEPT ![<<w, id>>] = None] \in [Workers \X Ids -> Data \cup {None}]
    BY DEF Resolvers
  <1>7. [r.clients EXCEPT ![c] = None] \in [Clients -> Entry \cup {None}]
    BY DEF Resolvers
  <1>8. forget(r, w, id) = [r EXCEPT !.resolving = [@ EXCEPT ![<<w, id>>] = None],
                                     !.clients = [@ EXCEPT ![c] = None],
                                     !.active = v]
    BY <1>1, <1>2, <1>4 DEF forget, Resolvers
  <1> QED BY <1>1, <1>5, <1>6, <1>7, <1>8 DEF Resolvers

\* What an operation gives the reactor.
Results == [rs : Resolvers, response : Response \cup {None}]

LEMMA Quietly ==
    ASSUME NEW r \in Resolvers
    PROVE  Quiet(r) \in Results
  BY DEF Quiet, Result, Results

LEMMA Responding ==
    ASSUME NEW r \in Resolvers, NEW data \in Data, NEW kind \in {"address", "page", "error"}
    PROVE  /\ respond(data, kind) \in Response
           /\ respond(data, kind).client = data.client
           /\ respond(data, kind).ask = data.ask
           /\ respond(data, kind).kind = kind
           /\ Result(r, respond(data, kind)) \in Results
  <1>1. respond(data, kind) \in Response
    BY DEF respond, Response, Data
  <1> QED BY <1>1 DEF respond, Result, Results

\* The count of names that were followed.
LEMMA ChainedOK ==
    ASSUME NEW r \in Resolvers, NEW i \in Ids, NEW n \in Nat
    PROVE  [r EXCEPT !.chained[i] = n] \in Resolvers
  BY DEF Resolvers

LEMMA ChaseOK ==
    ASSUME NEW r \in Resolvers, NEW w \in Workers, NEW answer \in Answers
    PROVE  /\ chase(r, w, answer) \in Resolvers
           /\ SameTables(r, chase(r, w, answer))
  <1>1. PICK t : t = [r EXCEPT !.chained[answer.id] = 0]
    OBVIOUS
  <1>2. answer.id \in Ids /\ answer.newhost \in Hosts
    BY DEF Answers
  <1>3. t \in Resolvers
    <2>1. PICK i \in Ids : i = answer.id
      BY <1>2
    <2>2. PICK z \in Nat : z = 0
      OBVIOUS
    <2> QED BY <1>1, <2>1, <2>2, ChainedOK
  <1>4. PICK h : h = resolveHost(t, w, answer.newhost)
    OBVIOUS
  <1>5. h \in Resolvers /\ SameTables(t, h)
    BY <1>2, <1>3, <1>4, ResolveHostOK
  <1>6. PICK i \in Ids : i = r.next[w]
    BY DEF Resolvers
  <1>7. PICK m \in Nat : m = r.chained[answer.id] + 1
    <2>1. r.chained[answer.id] \in Nat
      BY <1>2 DEF Resolvers
    <2> QED BY <2>1
  <1>8. PICK g : g = [h EXCEPT !.chained[i] = m]
    OBVIOUS
  <1>9. g \in Resolvers
    BY <1>5, <1>8, ChainedOK
  <1>10. chase(r, w, answer) = IF Follows(r, answer) THEN g ELSE t
    BY <1>1, <1>4, <1>6, <1>7, <1>8 DEF chase
  <1>11. SameTables(r, t) /\ SameTables(h, g)
    BY <1>1, <1>5, <1>8 DEF Resolvers, SameTables
  <1>12. SameTables(r, g)
    BY <1>5, <1>11 DEF SameTables
  <1> QED BY <1>3, <1>9, <1>10, <1>11, <1>12

LEMMA ContinueOrReadOK ==
    ASSUME NEW r \in Resolvers, NEW w \in Workers, NEW data \in Data, NEW sent
    PROVE  continueOrRead(r, w, data, sent) \in Resolvers
  BY DEF continueOrRead, Resolvers, Workers

LEMMA Asking ==
    ASSUME NEW data \in Data, NEW host \in Hosts
    PROVE  /\ [data EXCEPT !.host = host] \in Data
           /\ [data EXCEPT !.host = host].client = data.client
           /\ [data EXCEPT !.host = host].ask = data.ask
  BY DEF Data

LEMMA CacheOK ==
    ASSUME NEW r \in Resolvers, NEW host \in Hosts
    PROVE  cacheDestination(r, host) \in Resolvers
  BY DEF cacheDestination, Resolvers

LEMMA GetResponseOK ==
    ASSUME NEW r \in Resolvers, NEW w \in Workers, NEW answer \in Answers, NEW new \in Tcp,
           NEW sent
    PROVE  getResponse(r, w, answer, new, sent) \in Results
  <1>1. PICK id \in Ids : id = answer.id
    BY DEF Answers
  <1>2. PICK data : data = r.resolving[<<w, id>>]
    OBVIOUS
  <1>3. PICK chased : chased = chase(r, w, answer)
    OBVIOUS
  <1>4. chased \in Resolvers /\ SameTables(r, chased)
    BY <1>3, ChaseOK
  <1>5. PICK t : t = forget(chased, w, id)
    OBVIOUS
  <1>6. PICK i \in Ids : i = r.next[w]
    BY DEF Resolvers
  <1>7. PICK entry : entry = r.clients[data.client]
    OBVIOUS
  <1>8. getResponse(r, w, answer, new, sent) =
          CASE data = None -> Quiet(chased)
            [] data # None /\ answer.kind = "truncated" ->
                 Quiet(beginResolvingTCP(t, data, new, sent))
            [] data # None /\ answer.kind # "truncated" /\ Follows(r, answer) ->
                 Quiet(continueOrRead(
                   track(t, w, i, [data EXCEPT !.host = answer.newhost], 1, w), w, data, sent))
            [] data # None /\ answer.kind # "truncated" /\ ~Follows(r, answer)
               /\ answer.host # data.host ->
                 IF entry = None THEN Result(t, respond(data, "error"))
                 ELSE Quiet(misread(t, w, id, data, entry.count))
            [] data # None /\ ~Follows(r, answer) /\ answer.host = data.host
               /\ answer.kind = "address" ->
                 Result(finish(cacheDestination(t, data.original), w, new, sent),
                        respond(data, "address"))
            [] data # None /\ ~Follows(r, answer) /\ answer.host = data.host
               /\ answer.kind = "missing" ->
                 Result(finish(t, w, new, sent), respond(data, "page"))
    BY <1>1, <1>2, <1>3, <1>5, <1>6, <1>7 DEF getResponse
  <1>9. answer.kind \in {"address", "missing", "truncated"} /\ answer.newhost \in Hosts
    BY DEF Answers
  <1> SUFFICES ASSUME data # None
               PROVE  getResponse(r, w, answer, new, sent) \in Results
    BY <1>4, <1>8, Quietly
  <1>10. data \in Data /\ t \in Resolvers
    BY <1>2, <1>4, <1>5, ForgetOK DEF SameTables
  <1>11. Quiet(beginResolvingTCP(t, data, new, sent)) \in Results
    BY <1>10, BeginResolvingTCPOK, Quietly
  <1>12. Quiet(continueOrRead(
           track(t, w, i, [data EXCEPT !.host = answer.newhost], 1, w), w, data, sent)) \in Results
    <2>1. PICK d \in Data : d = [data EXCEPT !.host = answer.newhost]
      BY <1>9, <1>10, Asking
    <2>2. PICK u : u = track(t, w, i, d, 1, w)
      OBVIOUS
    <2>3. u \in Resolvers
      BY <1>10, <2>2, TrackOK, 1 \in Nat
    <2>4. continueOrRead(u, w, data, sent) \in Resolvers
      BY <1>10, <2>3, ContinueOrReadOK
    <2> QED BY <2>1, <2>2, <2>4, Quietly
  <1>13. Result(t, respond(data, "error")) \in Results
    BY <1>10, Responding
  <1>14. ASSUME entry # None
         PROVE  Quiet(misread(t, w, id, data, entry.count)) \in Results
    <2>1. entry \in Entry
      BY <1>7, <1>10, <1>14 DEF Resolvers, Data
    <2>2. PICK n \in Nat : n = entry.count
      BY <2>1 DEF Entry
    <2>3. misread(t, w, id, data, n) \in Resolvers
      BY <1>10, TrackOK DEF misread
    <2> QED BY <2>2, <2>3, Quietly
  <1>15. Result(finish(cacheDestination(t, data.original), w, new, sent),
                respond(data, "address")) \in Results
    <2>1. PICK u : u = cacheDestination(t, data.original)
      OBVIOUS
    <2>2. u \in Resolvers
      BY <1>10, <2>1, CacheOK DEF Data
    <2>3. finish(u, w, new, sent) \in Resolvers
      BY <2>2, FinishOK
    <2> QED BY <1>10, <2>1, <2>3, Responding
  <1>16. Result(finish(t, w, new, sent), respond(data, "page")) \in Results
    <2>1. finish(t, w, new, sent) \in Resolvers
      BY <1>10, FinishOK
    <2> QED BY <1>10, <2>1, Responding
  <1> QED BY <1>8, <1>9, <1>11, <1>12, <1>13, <1>14, <1>15, <1>16

LEMMA ContinueSendingOK ==
    ASSUME NEW r \in Resolvers, NEW w \in Tcp
    PROVE  continueSending(r, w) \in Resolvers
  <1>1. PICK t : t = [r EXCEPT !.writing = @ \ {w}]
    OBVIOUS
  <1>2. t \in Resolvers
    BY <1>1 DEF Resolvers
  <1>3. PICK data : data = r.sending[w]
    OBVIOUS
  <1>4. PICK entry : entry = r.clients[data.client]
    OBVIOUS
  <1>5. continueSending(r, w) =
          IF data = None \/ entry = None THEN t
          ELSE [t EXCEPT !.sending[w] = None,
                         !.resolving[<<entry.worker, entry.id>>] = data,
                         !.reading = @ \cup {w}]
    BY <1>1, <1>3, <1>4 DEF continueSending
  <1>6. ASSUME data # None, entry # None
        PROVE  [t EXCEPT !.sending[w] = None,
                         !.resolving[<<entry.worker, entry.id>>] = data,
                         !.reading = @ \cup {w}] \in Resolvers
    <2>1. data \in Data
      BY <1>3, <1>6 DEF Resolvers
    <2>2. entry \in Entry
      BY <1>4, <1>6, <2>1 DEF Resolvers, Data
    <2>3. PICK k \in Workers \X Ids : k = <<entry.worker, entry.id>>
      BY <2>2 DEF Entry
    <2>4. [t.resolving EXCEPT ![k] = data] \in [Workers \X Ids -> Data \cup {None}]
      BY <1>2, <2>1 DEF Resolvers
    <2>5. [t.sending EXCEPT ![w] = None] \in [Tcp -> Data \cup {None}]
      BY <1>2 DEF Resolvers
    <2> QED BY <1>2, <2>3, <2>4, <2>5 DEF Resolvers
  <1> QED BY <1>2, <1>5, <1>6

\* The entry at the head of the list is taken out, and its client's entry.
expired(r) ==
    [r EXCEPT !.active = outdated(Tail(@), Head(r.active).client),
              !.clients[Head(r.active).client] = None]

LEMMA ExpiredOK ==
    ASSUME NEW r \in Resolvers, r.active # <<>>
    PROVE  /\ expired(r) \in Resolvers
           /\ Head(r.active) \in Active
           /\ Tail(r.active) \in Seq(Active)
  <1>1. r.active \in Seq(Active)
    BY DEF Resolvers
  <1>2. Head(r.active) \in Active /\ Tail(r.active) \in Seq(Active)
    BY <1>1
  <1>3. PICK c \in Clients : c = Head(r.active).client
    BY <1>2 DEF Active
  <1>4. PICK s : s = Tail(r.active)
    OBVIOUS
  <1>5. PICK u : u = outdated(s, c)
    OBVIOUS
  <1>6. u \in Seq(Active)
    BY <1>2, <1>4, <1>5, Outdated
  <1>7. [r.clients EXCEPT ![c] = None] \in [Clients -> Entry \cup {None}]
    BY DEF Resolvers
  <1>8. expired(r) = [r EXCEPT !.active = u, !.clients = [r.clients EXCEPT ![c] = None]]
    BY <1>3, <1>4, <1>5 DEF expired, Resolvers
  <1> QED BY <1>2, <1>6, <1>7, <1>8 DEF Resolvers

LEMMA StartResolvingOK ==
    ASSUME NEW r \in Resolvers, NEW data \in Data
    PROVE  startResolving(r, data) \in Results
  <1>1. data.original \in Hosts /\ Udp \in Workers
    BY DEF Data, Workers
  <1>2. PICK i \in Ids : i = r.next[Udp]
    BY <1>1 DEF Resolvers
  <1>3. PICK h : h = resolveHost(r, Udp, data.original)
    OBVIOUS
  <1>4. h \in Resolvers
    BY <1>1, <1>3, ResolveHostOK
  <1>5. PICK t : t = track(h, Udp, i, data, 1, Udp)
    OBVIOUS
  <1>6. t \in Resolvers
    BY <1>1, <1>4, <1>5, TrackOK, 1 \in Nat
  <1>7. startResolving(r, data) =
          CASE data.original \in r.cache -> Result(r, respond(data, "address"))
            [] data.original \in Bad \ r.cache -> Result(r, respond(data, "page"))
            [] OTHER -> Quiet(t)
    BY <1>2, <1>3, <1>5 DEF startResolving
  <1> QED BY <1>6, <1>7, Responding, Quietly

\* The lookup with the entry e of worker w is taken out of the table it is in.
taken(r, t, key, w) ==
    IF r.resolving[key] # None THEN [t EXCEPT !.resolving[key] = None]
    ELSE IF w = Udp THEN t ELSE [t EXCEPT !.sending[w] = None]

found(r, key, w) ==
    IF r.resolving[key] # None THEN r.resolving[key]
    ELSE IF w = Udp THEN None ELSE r.sending[w]

LEMMA TakenOK ==
    ASSUME NEW r \in Resolvers, NEW t \in Resolvers, NEW key \in Workers \X Ids,
           NEW w \in Workers
    PROVE  taken(r, t, key, w) \in Resolvers /\ found(r, key, w) \in Data \cup {None}
  <1>1. [t EXCEPT !.resolving[key] = None] \in Resolvers
    BY DEF Resolvers
  <1>2. w # Udp => [t EXCEPT !.sending[w] = None] \in Resolvers
    BY DEF Resolvers, Workers
  <1>3. found(r, key, w) \in Data \cup {None}
    BY DEF found, Resolvers, Workers
  <1> QED BY <1>1, <1>2, <1>3 DEF taken

LEMMA CleanupOK ==
    ASSUME NEW r \in Resolvers, r.active # <<>>
    PROVE  cleanup(r) \in Results
  <1>1. Head(r.active) \in Active
    BY ExpiredOK
  <1>2. PICK w \in Workers : w = Head(r.active).worker
    BY <1>1 DEF Active
  <1>3. PICK entry : entry = r.clients[Head(r.active).client]
    OBVIOUS
  <1>4. PICK t \in Resolvers : t = expired(r)
    BY ExpiredOK
  <1>5. PICK key : key = <<entry.worker, entry.id>>
    OBVIOUS
  <1>6. PICK u : u = taken(r, t, key, w)
    OBVIOUS
  <1>7. PICK data : data = found(r, key, w)
    OBVIOUS
  <1>8. cleanup(r) =
             IF entry = None THEN Quiet(hangUp(t, w))
             ELSE CASE data = None -> Quiet(hangUp(u, w))
                    [] data # None /\ entry.count < Retries /\ w = Udp ->
                         Quiet(retransmit(u, data, entry.id, entry.count + 1))
                    [] data # None /\ ~(entry.count < Retries /\ w = Udp) ->
                         Result(hangUp(u, w), respond(data, "page"))
    BY <1>2, <1>3, <1>4, <1>5, <1>6, <1>7 DEF cleanup, taken, found, expired
  <1>9. Quiet(hangUp(t, w)) \in Results
    BY HangUpOK, Quietly
  <1> SUFFICES ASSUME entry # None
               PROVE  cleanup(r) \in Results
    BY <1>8, <1>9
  <1>10. entry \in Entry
    BY <1>1, <1>3 DEF Resolvers, Active
  <1>11. key \in Workers \X Ids
    BY <1>5, <1>10 DEF Entry
  <1>12. u \in Resolvers /\ data \in Data \cup {None}
    BY <1>6, <1>7, <1>11, TakenOK
  <1>13. PICK i \in Ids, n \in Nat : i = entry.id /\ n = entry.count + 1
    <2>1. entry.id \in Ids /\ entry.count + 1 \in Nat
      BY <1>10 DEF Entry
    <2> QED BY <2>1
  <1>14. PICK h \in Resolvers : h = hangUp(u, w)
    BY <1>12, HangUpOK
  <1>15. Quiet(h) \in Results
    BY Quietly
  <1>16. data # None => Quiet(retransmit(u, data, i, n)) \in Results
    BY <1>12, RetransmitOK, Quietly
  <1>17. data # None => Result(h, respond(data, "page")) \in Results
    BY <1>12, Responding
  <1> QED BY <1>8, <1>13, <1>14, <1>15, <1>16, <1>17

-----------------------------------------------------------------------------
(* Every step keeps the types.                                             *)

LEMMA Counting ==
    ASSUME NEW g \in [Clients -> [Asks -> Nat]], NEW c \in Clients, NEW n \in Asks
    PROVE  [g EXCEPT ![c][n] = @ + 1] \in [Clients -> [Asks -> Nat]]
  <1>1. g[c][n] + 1 \in Nat
    OBVIOUS
  <1>2. [g[c] EXCEPT ![n] = g[c][n] + 1] \in [Asks -> Nat]
    BY <1>1
  <1> QED BY <1>2

LEMMA TakeOK ==
    ASSUME ResolverOK, NEW result \in Results, Take(result)
    PROVE  /\ rs' \in Resolvers /\ running' \in BOOLEAN
           /\ given' \in [Clients -> [Asks -> Nat]]
  <1>1. PICK r : r = result.response
    OBVIOUS
  <1>2. r \in Response \cup {None} /\ result.rs \in Resolvers
    BY <1>1 DEF Results
  <1>3. rs' = result.rs
    BY DEF Take
  <1>4. running' \in BOOLEAN
    BY DEF Take
  <1>5. given' = IF r = None \/ r.kind = "error" THEN given
                 ELSE [given EXCEPT ![r.client][r.ask] = @ + 1]
    BY <1>1 DEF Take
  <1>6. given \in [Clients -> [Asks -> Nat]]
    BY DEF ResolverOK
  <1>7. r # None => r.client \in Clients /\ r.ask \in Asks
    BY <1>2 DEF Response
  <1>8. given' \in [Clients -> [Asks -> Nat]]
    BY <1>5, <1>6, <1>7, Counting
  <1> QED BY <1>2, <1>3, <1>4, <1>8

\* A new lookup.
LEMMA NewData ==
    ASSUME NEW c \in Clients, NEW n \in Nat, n < MaxAsks, NEW host \in Hosts
    PROVE  [client |-> c, ask |-> n + 1, original |-> host, host |-> host] \in Data
  BY ResolverAssumption DEF Data, Asks

LEMMA beginQueryOK ==
    ASSUME ResolverOK, NEW c \in Clients, beginQuery(c)
    PROVE  ResolverOK'
  <1>1. asks[c] \in Nat /\ asks[c] < MaxAsks /\ rs \in Resolvers
    BY DEF beginQuery, ResolverOK
  <1>2. asks' = [asks EXCEPT ![c] = @ + 1] /\ UNCHANGED tcpTimedOut
    BY DEF beginQuery
  <1>3. PICK host \in Hosts \ Aliases :
          Take(startResolving(rs, [client |-> c, ask |-> asks[c] + 1,
                                   original |-> host, host |-> host]))
    BY DEF beginQuery
  <1>4. PICK data \in Data : data = [client |-> c, ask |-> asks[c] + 1,
                                     original |-> host, host |-> host]
    BY <1>1, NewData
  <1>5. startResolving(rs, data) \in Results
    BY <1>1, StartResolvingOK
  <1>6. /\ rs' \in Resolvers /\ running' \in BOOLEAN
        /\ given' \in [Clients -> [Asks -> Nat]]
    BY <1>3, <1>4, <1>5, TakeOK
  <1>7. asks' \in [Clients -> Nat]
    BY <1>1, <1>2 DEF ResolverOK
  <1> QED BY <1>2, <1>6, <1>7 DEF ResolverOK

\* An answer is read: it leaves the network, whatever becomes of it.
LEMMA ReadOK ==
    ASSUME NEW r \in Resolvers, NEW q
    PROVE  [r EXCEPT !.queries = @ \ {q}] \in Resolvers
  BY DEF Resolvers

LEMMA readAnswerOK ==
    ASSUME ResolverOK, NEW w \in Workers, readAnswer(w)
    PROVE  ResolverOK'
  <1>1. PICK q \in rs.queries, kind \in AnswerKinds(w), follow \in BOOLEAN,
             newhost \in Aliases, sent \in BOOLEAN, new \in FreeTcp :
           Take(getResponse([rs EXCEPT !.queries = @ \ {q}], w,
                            [id |-> q.id, host |-> q.host, kind |-> kind,
                             follow |-> follow, newhost |-> newhost], new, sent))
    BY DEF readAnswer
  <1>2. PICK r \in Resolvers : r = [rs EXCEPT !.queries = @ \ {q}]
    BY ReadOK DEF ResolverOK
  <1>3. PICK answer : answer = [id |-> q.id, host |-> q.host, kind |-> kind,
                                follow |-> follow, newhost |-> newhost]
    OBVIOUS
  <1>4. q \in Query /\ newhost \in Hosts
    BY AliasesAssumption DEF ResolverOK, Resolvers
  <1>5. answer \in Answers
    BY <1>3, <1>4 DEF Answers, AnswerKinds, Query
  <1>6. new \in Tcp
    BY DEF FreeTcp
  <1>7. getResponse(r, w, answer, new, sent) \in Results
    BY <1>5, <1>6, GetResponseOK
  <1>8. /\ rs' \in Resolvers /\ running' \in BOOLEAN
        /\ given' \in [Clients -> [Asks -> Nat]]
    BY <1>1, <1>2, <1>3, <1>7, TakeOK
  <1>9. UNCHANGED <<asks, tcpTimedOut>>
    BY DEF readAnswer
  <1> QED BY <1>8, <1>9 DEF ResolverOK

LEMMA TypesStep ==
    ASSUME ResolverOK, [Next]_vars
    PROVE  ResolverOK'
  <1>1. ASSUME NEW c \in Clients, beginQuery(c)
        PROVE  ResolverOK'
    BY <1>1, beginQueryOK
  <1>2. ASSUME NEW w \in Workers, readAnswer(w)
        PROVE  ResolverOK'
    BY <1>2, readAnswerOK
  <1>3. ASSUME NEW w \in Tcp, readNothing(w)
        PROVE  ResolverOK'
    <2>1. PICK sent \in BOOLEAN, new \in FreeTcp : rs' = finish(rs, w, new, sent)
      BY <1>3 DEF readNothing, unreadable
    <2>2. rs' \in Resolvers
      BY <2>1, FinishOK DEF ResolverOK, FreeTcp
    <2> QED BY <1>3, <2>2 DEF readNothing, ResolverOK
  <1>4. ASSUME NEW w \in Tcp, flushResolver(w)
        PROVE  ResolverOK'
    <2>1. rs' \in Resolvers
      BY <1>4, ContinueSendingOK DEF flushResolver, ResolverOK
    <2> QED BY <1>4, <2>1 DEF flushResolver, ResolverOK
  <1>5. ASSUME timeoutResolver
        PROVE  ResolverOK'
    <2>1. rs \in Resolvers /\ rs.active # <<>>
      BY <1>5 DEF timeoutResolver, ResolverOK
    <2>2. cleanup(rs) \in Results
      BY <2>1, CleanupOK
    <2>3. /\ rs' \in Resolvers /\ running' \in BOOLEAN
          /\ given' \in [Clients -> [Asks -> Nat]]
      BY <1>5, <2>2, TakeOK DEF timeoutResolver
    <2>4. tcpTimedOut' \in BOOLEAN /\ asks' = asks
      BY <1>5 DEF timeoutResolver, ResolverOK
    <2> QED BY <2>3, <2>4 DEF ResolverOK
  <1>6. ASSUME forgetNames
        PROVE  ResolverOK'
    <2>1. rs' \in Resolvers
      BY <1>6 DEF forgetNames, expireCache, ResolverOK, Resolvers
    <2> QED BY <1>6, <2>1 DEF forgetNames, ResolverOK
  <1>7. ASSUME UNCHANGED vars
        PROVE  ResolverOK'
    BY <1>7 DEF vars, ResolverOK
  <1> QED BY <1>1, <1>2, <1>3, <1>4, <1>5, <1>6, <1>7 DEF Next

LEMMA InitOK ==
    ASSUME Init
    PROVE  ResolverOK
  <1>1. 1 \in Ids /\ 0 \in Nat /\ 1 \in Int
    BY ResolverAssumption DEF Ids
  <1>2. <<>> \in Seq(Active) /\ <<>> \in Seq(Data)
    OBVIOUS
  <1>3. NewResolver \in Resolvers
    BY <1>1, <1>2 DEF NewResolver, Resolvers
  <1> QED BY <1>1, <1>3 DEF Init, ResolverOK

\* The tables hold what their readers expect, whatever the network does
\* (startResolving, getResponse, continueSending, cleanup).
THEOREM ResolverTypes == Spec => []ResolverOK
  <1> QED BY InitOK, TypesStep, PTL DEF Spec

-----------------------------------------------------------------------------
(* The TCP workers are counted.                                            *)

\* What the count is about: who has a place and who waits for one.
SamePlaces(r, t) ==
    /\ t.workers = r.workers /\ t.worker_count = r.worker_count /\ t.waiting = r.waiting

\* As WorkersCounted, of any tables; if e, every place is a worker's.
Counted(r, e) ==
    /\ Cardinality(r.workers) + 1 <= r.worker_count
    /\ e => Cardinality(r.workers) + 1 = r.worker_count
    /\ r.worker_count <= MaxWorkers
    /\ r.waiting # <<>> => r.worker_count = MaxWorkers

LEMMA SameCounted ==
    ASSUME NEW r, NEW t, NEW e, SamePlaces(r, t), Counted(r, e)
    PROVE  Counted(t, e)
  BY DEF SamePlaces, Counted

LEMMA SameTablesPlaces ==
    ASSUME NEW r, NEW t, SameTables(r, t)
    PROVE  SamePlaces(r, t)
  BY DEF SameTables, SamePlaces

LEMMA TrackPlaces ==
    ASSUME NEW r \in Resolvers, NEW w, NEW id, NEW data, NEW count, NEW sock
    PROVE  SamePlaces(r, track(r, w, id, data, count, sock))
  BY DEF track, SamePlaces, Resolvers

LEMMA ForgetPlaces ==
    ASSUME NEW r \in Resolvers, NEW w, NEW id
    PROVE  SamePlaces(r, forget(r, w, id))
  BY DEF forget, SamePlaces, Resolvers

LEMMA ContinueOrReadPlaces ==
    ASSUME NEW r \in Resolvers, NEW w, NEW data, NEW sent
    PROVE  SamePlaces(r, continueOrRead(r, w, data, sent))
  BY DEF continueOrRead, SamePlaces, Resolvers

LEMMA CachePlaces ==
    ASSUME NEW r \in Resolvers, NEW host
    PROVE  SamePlaces(r, cacheDestination(r, host))
  BY DEF cacheDestination, SamePlaces, Resolvers

LEMMA ContinueSendingPlaces ==
    ASSUME NEW r \in Resolvers, NEW w
    PROVE  SamePlaces(r, continueSending(r, w))
  BY DEF continueSending, SamePlaces, Resolvers

LEMMA ExpiredPlaces ==
    ASSUME NEW r \in Resolvers
    PROVE  SamePlaces(r, expired(r))
  BY DEF expired, SamePlaces, Resolvers

LEMMA TakenPlaces ==
    ASSUME NEW r, NEW t \in Resolvers, NEW key, NEW w
    PROVE  SamePlaces(t, taken(r, t, key, w))
  BY DEF taken, SamePlaces, Resolvers

LEMMA RetransmitPlaces ==
    ASSUME NEW r \in Resolvers, NEW data \in Data, NEW id \in Ids, NEW count \in Nat
    PROVE  SamePlaces(r, retransmit(r, data, id, count))
  <1>1. Udp \in Workers /\ data.original \in Hosts
    BY DEF Workers, Data
  <1>2. PICK s : s = sendQuery(r, Udp, id, data.original, count)
    OBVIOUS
  <1>3. s \in Resolvers /\ SamePlaces(r, s)
    BY <1>1, <1>2, SendQueryOK, SameTablesPlaces
  <1>4. PICK t : t = track(s, Udp, id, renewed(data), count, Udp)
    OBVIOUS
  <1>5. SamePlaces(s, t)
    BY <1>3, <1>4, TrackPlaces
  <1>6. retransmit(r, data, id, count) = t
    BY <1>2, <1>4 DEF retransmit
  <1> QED BY <1>3, <1>5, <1>6 DEF SamePlaces

\* A new worker takes a place of its own; nobody else's changes.
LEMMA NewTCPResolverPlaces ==
    ASSUME NEW r \in Resolvers, NEW data \in Data, NEW w \in Tcp, NEW sent,
           NEW t, t = newTCPResolver(r, data, w, sent)
    PROVE  /\ t.workers = r.workers \cup {w}
           /\ t.worker_count = r.worker_count /\ t.waiting = r.waiting
  <1>1. PICK begun : begun = [r EXCEPT !.workers = @ \cup {w}, !.next[w] = 1]
    OBVIOUS
  <1>2. w \in Workers /\ 1 \in Ids /\ 1 \in Nat /\ Udp \in Workers
    BY ResolverAssumption DEF Workers, Ids
  <1>3. begun \in Resolvers
    BY <1>1, <1>2 DEF Resolvers
  <1>4. data.original \in Hosts
    BY DEF Data
  <1>5. PICK h : h = resolveHost(begun, w, data.original)
    OBVIOUS
  <1>6. h \in Resolvers /\ SamePlaces(begun, h)
    BY <1>2, <1>3, <1>4, <1>5, ResolveHostOK, SameTablesPlaces
  <1>7. PICK asked : asked = track(h, w, 1, renewed(data), 1, Udp)
    OBVIOUS
  <1>8. asked \in Resolvers /\ SamePlaces(h, asked)
    BY <1>2, <1>6, <1>7, Renewed, TrackOK, TrackPlaces
  <1>9. t = IF sent THEN [asked EXCEPT !.reading = @ \cup {w}]
            ELSE [asked EXCEPT !.writing = @ \cup {w}, !.sending[w] = renewed(data)]
    BY <1>1, <1>5, <1>7 DEF newTCPResolver
  <1>10. SamePlaces(asked, t)
    BY <1>8, <1>9 DEF SamePlaces, Resolvers
  <1>11. /\ begun.workers = r.workers \cup {w}
         /\ begun.worker_count = r.worker_count /\ begun.waiting = r.waiting
    BY <1>1 DEF Resolvers
  <1> QED BY <1>6, <1>8, <1>10, <1>11 DEF SamePlaces

LEMMA WorkersFinite ==
    ASSUME NEW r \in Resolvers, NEW w
    PROVE  /\ IsFiniteSet(r.workers) /\ Cardinality(r.workers) \in Nat
           /\ Cardinality(r.workers \cup {w}) <= Cardinality(r.workers) + 1
           /\ Cardinality(r.workers \cup {w}) \in Nat
           /\ Cardinality(r.workers \ {w}) <= Cardinality(r.workers)
           /\ Cardinality(r.workers \ {w}) \in Nat
           /\ w \in r.workers => Cardinality(r.workers \ {w}) + 1 = Cardinality(r.workers)
           /\ w \notin r.workers =>
                Cardinality(r.workers \cup {w}) = Cardinality(r.workers) + 1
  <1>1. r.workers \in SUBSET Tcp
    BY DEF Resolvers
  <1>2. IsFiniteSet(r.workers) /\ Cardinality(r.workers) \in Nat
    BY <1>1, ResolverAssumption, FS_Subset, FS_CardinalityType
  <1>3. /\ IsFiniteSet(r.workers \cup {w})
        /\ \/ Cardinality(r.workers \cup {w}) = Cardinality(r.workers)
           \/ Cardinality(r.workers \cup {w}) = Cardinality(r.workers) + 1
        /\ w \notin r.workers =>
             Cardinality(r.workers \cup {w}) = Cardinality(r.workers) + 1
    BY <1>2, FS_AddElement
  <1>4. /\ IsFiniteSet(r.workers \ {w})
        /\ w \in r.workers => Cardinality(r.workers \ {w}) = Cardinality(r.workers) - 1
        /\ w \notin r.workers => Cardinality(r.workers \ {w}) = Cardinality(r.workers)
    BY <1>2, FS_RemoveElement
  <1>5. Cardinality(r.workers \cup {w}) \in Nat /\ Cardinality(r.workers \ {w}) \in Nat
    BY <1>3, <1>4, FS_CardinalityType
  <1> QED BY <1>2, <1>3, <1>4, <1>5

LEMMA BeginCounted ==
    ASSUME NEW r \in Resolvers, NEW e, Counted(r, e), NEW data \in Data,
           NEW w \in Tcp, w \notin r.workers, NEW sent
    PROVE  Counted(beginResolvingTCP(r, data, w, sent), e)
  <1>1. PICK n : n = newTCPResolver(r, data, w, sent)
    OBVIOUS
  <1>2. /\ n \in Resolvers
        /\ n.workers = r.workers \cup {w}
        /\ n.worker_count = r.worker_count /\ n.waiting = r.waiting
    BY <1>1, NewTCPResolverOK, NewTCPResolverPlaces
  <1>3. /\ r.worker_count \in Int /\ Cardinality(r.workers) \in Nat
        /\ Cardinality(r.workers \cup {w}) \in Nat
        /\ Cardinality(r.workers \cup {w}) = Cardinality(r.workers) + 1
    BY WorkersFinite DEF Resolvers
  <1>4. CASE r.worker_count < MaxWorkers
    <2>1. PICK t : t = [n EXCEPT !.worker_count = @ + 1]
      OBVIOUS
    <2>2. /\ t.workers = r.workers \cup {w} /\ t.worker_count = r.worker_count + 1
          /\ t.waiting = r.waiting
      BY <1>2, <2>1 DEF Resolvers
    <2>3. r.waiting = <<>>
      BY <1>3, <1>4, ResolverAssumption DEF Counted
    <2>4. Counted(t, e)
      BY <1>3, <1>4, <2>2, <2>3, ResolverAssumption DEF Counted
    <2> QED BY <1>1, <1>4, <2>1, <2>4 DEF beginResolvingTCP
  <1>5. CASE ~(r.worker_count < MaxWorkers)
    <2>1. PICK t : t = [r EXCEPT !.waiting = Append(@, data)]
      OBVIOUS
    <2>2. t.workers = r.workers /\ t.worker_count = r.worker_count
      BY <2>1 DEF Resolvers
    <2>3. r.worker_count = MaxWorkers
      BY <1>3, <1>5, ResolverAssumption DEF Counted
    <2>4. Counted(t, e)
      BY <2>2, <2>3 DEF Counted
    <2> QED BY <1>5, <2>1, <2>4 DEF beginResolvingTCP
  <1> QED BY <1>4, <1>5

\* The worker that is closed was counted.
LEMMA FinishCounted ==
    ASSUME NEW r \in Resolvers, NEW e, Counted(r, e), NEW w, w = Udp \/ w \in r.workers,
           NEW new \in Tcp, new \notin r.workers, NEW sent
    PROVE  Counted(finish(r, w, new, sent), e)
  <1>1. CASE w = Udp
    BY <1>1 DEF finish
  <1>2. CASE w # Udp
    <2>1. PICK t : t = closeWorker(r, w)
      OBVIOUS
    <2>2. t \in Resolvers
      BY <2>1, CloseWorkerOK
    <2>3. /\ t.workers = r.workers \ {w}
          /\ t.worker_count = r.worker_count /\ t.waiting = r.waiting
      BY <1>2, <2>1 DEF closeWorker, hangUp, Resolvers
    <2>4. /\ r.worker_count \in Int /\ Cardinality(r.workers) \in Nat
          /\ Cardinality(t.workers) + 1 = Cardinality(r.workers)
          /\ Cardinality(t.workers) \in Nat
          /\ Cardinality(t.workers \cup {new}) \in Nat
          /\ Cardinality(t.workers \cup {new}) = Cardinality(t.workers) + 1
      BY <1>2, <2>2, <2>3, WorkersFinite DEF Resolvers
    <2>5. CASE t.worker_count >= MaxWorkers /\ t.waiting # <<>>
      <3>1. PICK s : s = [t EXCEPT !.waiting = Tail(@)]
        OBVIOUS
      <3>2. PICK h : h = Head(t.waiting)
        OBVIOUS
      <3>3. s \in Resolvers /\ h \in Data
        BY <2>2, <2>5, <3>1, <3>2, Waiting
      <3>4. s.workers = t.workers /\ s.worker_count = t.worker_count
        BY <2>2, <3>1 DEF Resolvers
      <3>5. PICK n : n = newTCPResolver(s, h, new, sent)
        OBVIOUS
      <3>6. n.workers = t.workers \cup {new} /\ n.worker_count = r.worker_count
        BY <2>3, <3>3, <3>4, <3>5, NewTCPResolverPlaces
      <3>7. r.worker_count = MaxWorkers
        BY <2>3, <2>4, <2>5, ResolverAssumption DEF Counted
      <3>8. Counted(n, e)
        BY <2>4, <3>6, <3>7, ResolverAssumption DEF Counted
      <3>9. finish(r, w, new, sent) = n
        BY <1>2, <2>1, <2>5, <3>1, <3>2, <3>5 DEF finish, notifyClose
      <3> QED BY <3>8, <3>9
    <2>6. CASE ~(t.worker_count >= MaxWorkers /\ t.waiting # <<>>)
      <3>1. PICK n : n = [t EXCEPT !.worker_count = @ - 1]
        OBVIOUS
      <3>2. /\ n.workers = t.workers /\ n.worker_count = r.worker_count - 1
            /\ n.waiting = r.waiting
        BY <2>2, <2>3, <3>1 DEF Resolvers
      <3>3. r.waiting = <<>>
        BY <2>3, <2>4, <2>6, ResolverAssumption DEF Counted
      <3>4. Counted(n, e)
        BY <2>4, <3>2, <3>3, ResolverAssumption DEF Counted
      <3>5. finish(r, w, new, sent) = n
        BY <1>2, <2>1, <2>6, <3>1 DEF finish, notifyClose
      <3> QED BY <3>4, <3>5
    <2> QED BY <2>5, <2>6
  <1> QED BY <1>1, <1>2

\* A TCP worker that is hung up leaves its place to nobody.
LEMMA HangUpCounted ==
    ASSUME NEW r \in Resolvers, NEW e, Counted(r, e), NEW w, e => w = Udp
    PROVE  Counted(hangUp(r, w), e)
  <1>1. CASE w = Udp
    BY <1>1 DEF hangUp
  <1>2. CASE w # Udp
    <2>0. ~e
      BY <1>2
    <2>1. PICK t : t = hangUp(r, w)
      OBVIOUS
    <2>2. /\ t.workers = r.workers \ {w}
          /\ t.worker_count = r.worker_count /\ t.waiting = r.waiting
      BY <1>2, <2>1 DEF hangUp, Resolvers
    <2>3. /\ r.worker_count \in Int /\ Cardinality(r.workers) \in Nat
          /\ Cardinality(t.workers) <= Cardinality(r.workers)
          /\ Cardinality(t.workers) \in Nat
      BY <2>2, WorkersFinite DEF Resolvers
    <2> QED BY <2>0, <2>1, <2>2, <2>3 DEF Counted
  <1> QED BY <1>1, <1>2

LEMMA GetResponseCounted ==
    ASSUME NEW r \in Resolvers, NEW e, Counted(r, e),
           NEW w \in Workers, w = Udp \/ w \in r.workers,
           NEW answer \in Answers, NEW new \in Tcp, new \notin r.workers, NEW sent
    PROVE  Counted(getResponse(r, w, answer, new, sent).rs, e)
  <1>1. PICK id \in Ids : id = answer.id
    BY DEF Answers
  <1>2. PICK data : data = r.resolving[<<w, id>>]
    OBVIOUS
  <1>3. PICK chased : chased = chase(r, w, answer)
    OBVIOUS
  <1>4. chased \in Resolvers /\ SameTables(r, chased)
    BY <1>3, ChaseOK
  <1>5. PICK t : t = forget(chased, w, id)
    OBVIOUS
  <1>6. PICK i \in Ids : i = r.next[w]
    BY DEF Resolvers
  <1>7. PICK entry : entry = r.clients[data.client]
    OBVIOUS
  <1>8. getResponse(r, w, answer, new, sent).rs =
          CASE data = None -> chased
            [] data # None /\ answer.kind = "truncated" ->
                 beginResolvingTCP(t, data, new, sent)
            [] data # None /\ answer.kind # "truncated" /\ Follows(r, answer) ->
                 continueOrRead(
                   track(t, w, i, [data EXCEPT !.host = answer.newhost], 1, w), w, data, sent)
            [] data # None /\ answer.kind # "truncated" /\ ~Follows(r, answer)
               /\ answer.host # data.host ->
                 IF entry = None THEN t ELSE misread(t, w, id, data, entry.count)
            [] data # None /\ ~Follows(r, answer) /\ answer.host = data.host
               /\ answer.kind = "address" ->
                 finish(cacheDestination(t, data.original), w, new, sent)
            [] data # None /\ ~Follows(r, answer) /\ answer.host = data.host
               /\ answer.kind = "missing" -> finish(t, w, new, sent)
    <2>1. getResponse(r, w, answer, new, sent) =
            CASE data = None -> Quiet(chased)
              [] data # None /\ answer.kind = "truncated" ->
                   Quiet(beginResolvingTCP(t, data, new, sent))
              [] data # None /\ answer.kind # "truncated" /\ Follows(r, answer) ->
                   Quiet(continueOrRead(
                     track(t, w, i, [data EXCEPT !.host = answer.newhost], 1, w), w, data, sent))
              [] data # None /\ answer.kind # "truncated" /\ ~Follows(r, answer)
                 /\ answer.host # data.host ->
                   IF entry = None THEN Result(t, respond(data, "error"))
                   ELSE Quiet(misread(t, w, id, data, entry.count))
              [] data # None /\ ~Follows(r, answer) /\ answer.host = data.host
                 /\ answer.kind = "address" ->
                   Result(finish(cacheDestination(t, data.original), w, new, sent),
                          respond(data, "address"))
              [] data # None /\ ~Follows(r, answer) /\ answer.host = data.host
                 /\ answer.kind = "missing" ->
                   Result(finish(t, w, new, sent), respond(data, "page"))
      BY <1>1, <1>2, <1>3, <1>5, <1>6, <1>7 DEF getResponse
    <2>2. answer.kind \in {"address", "missing", "truncated"}
      BY DEF Answers
    <2> QED BY <2>1, <2>2 DEF Quiet, Result
  <1>9. answer.kind \in {"address", "missing", "truncated"} /\ answer.newhost \in Hosts
    BY DEF Answers
  <1>10. Counted(chased, e)
    BY <1>4, SameTablesPlaces, SameCounted
  <1> SUFFICES ASSUME data # None
               PROVE  Counted(getResponse(r, w, answer, new, sent).rs, e)
    BY <1>8, <1>10
  <1>11. data \in Data /\ t \in Resolvers
    BY <1>2, <1>4, <1>5, ForgetOK DEF SameTables
  <1>12. SamePlaces(r, t) /\ Counted(t, e)
    <2>1. SamePlaces(chased, t) /\ SamePlaces(r, chased)
      BY <1>4, <1>5, ForgetPlaces, SameTablesPlaces
    <2>2. SamePlaces(r, t)
      BY <2>1 DEF SamePlaces
    <2> QED BY <2>2, SameCounted
  <1>13. Counted(beginResolvingTCP(t, data, new, sent), e)
    <2>1. new \notin t.workers
      BY <1>12 DEF SamePlaces
    <2> QED BY <1>11, <1>12, <2>1, BeginCounted
  <1>14. Counted(continueOrRead(
           track(t, w, i, [data EXCEPT !.host = answer.newhost], 1, w), w, data, sent), e)
    <2>1. PICK d \in Data : d = [data EXCEPT !.host = answer.newhost]
      BY <1>9, <1>11, Asking
    <2>2. PICK u : u = track(t, w, i, d, 1, w)
      OBVIOUS
    <2>3. u \in Resolvers /\ SamePlaces(t, u)
      BY <1>11, <2>2, TrackOK, TrackPlaces, 1 \in Nat
    <2>4. PICK v : v = continueOrRead(u, w, data, sent)
      OBVIOUS
    <2>5. SamePlaces(u, v)
      BY <2>3, <2>4, ContinueOrReadPlaces
    <2>6. SamePlaces(t, v)
      BY <2>3, <2>5 DEF SamePlaces
    <2> QED BY <1>12, <2>1, <2>2, <2>4, <2>6, SameCounted
  <1>15. Counted(misread(t, w, id, data, entry.count), e)
    <2>1. SamePlaces(t, misread(t, w, id, data, entry.count))
      BY <1>11, TrackPlaces DEF misread
    <2> QED BY <1>12, <2>1, SameCounted
  <1>16. Counted(finish(cacheDestination(t, data.original), w, new, sent), e)
    <2>1. PICK u : u = cacheDestination(t, data.original)
      OBVIOUS
    <2>2. u \in Resolvers /\ SamePlaces(t, u)
      BY <1>11, <2>1, CacheOK, CachePlaces DEF Data
    <2>3. Counted(u, e) /\ (w = Udp \/ w \in u.workers) /\ new \notin u.workers
      BY <1>12, <2>2, SameCounted DEF SamePlaces
    <2> QED BY <2>1, <2>2, <2>3, FinishCounted
  <1>17. Counted(finish(t, w, new, sent), e)
    <2>1. (w = Udp \/ w \in t.workers) /\ new \notin t.workers
      BY <1>12 DEF SamePlaces
    <2> QED BY <1>11, <1>12, <2>1, FinishCounted
  <1> QED BY <1>8, <1>9, <1>12, <1>13, <1>14, <1>15, <1>16, <1>17

LEMMA CleanupCounted ==
    ASSUME NEW r \in Resolvers, r.active # <<>>, NEW e, Counted(r, e),
           e => Head(r.active).worker = Udp
    PROVE  Counted(cleanup(r).rs, e)
  <1>1. Head(r.active) \in Active
    BY ExpiredOK
  <1>2. PICK w \in Workers : w = Head(r.active).worker
    BY <1>1 DEF Active
  <1>3. PICK entry : entry = r.clients[Head(r.active).client]
    OBVIOUS
  <1>4. PICK t \in Resolvers : t = expired(r)
    BY ExpiredOK
  <1>5. PICK key : key = <<entry.worker, entry.id>>
    OBVIOUS
  <1>6. PICK u : u = taken(r, t, key, w)
    OBVIOUS
  <1>7. PICK data : data = found(r, key, w)
    OBVIOUS
  <1>8. cleanup(r).rs =
             IF entry = None THEN hangUp(t, w)
             ELSE CASE data = None -> hangUp(u, w)
                    [] data # None /\ entry.count < Retries /\ w = Udp ->
                         retransmit(u, data, entry.id, entry.count + 1)
                    [] data # None /\ ~(entry.count < Retries /\ w = Udp) -> hangUp(u, w)
    <2>1. cleanup(r) =
               IF entry = None THEN Quiet(hangUp(t, w))
               ELSE CASE data = None -> Quiet(hangUp(u, w))
                      [] data # None /\ entry.count < Retries /\ w = Udp ->
                           Quiet(retransmit(u, data, entry.id, entry.count + 1))
                      [] data # None /\ ~(entry.count < Retries /\ w = Udp) ->
                           Result(hangUp(u, w), respond(data, "page"))
      BY <1>2, <1>3, <1>4, <1>5, <1>6, <1>7 DEF cleanup, taken, found, expired
    <2> QED BY <2>1 DEF Quiet, Result
  <1>9. Counted(t, e)
    BY <1>4, ExpiredPlaces, SameCounted
  <1>10. Counted(hangUp(t, w), e)
    BY <1>2, <1>9, HangUpCounted
  <1> SUFFICES ASSUME entry # None
               PROVE  Counted(cleanup(r).rs, e)
    BY <1>8, <1>10
  <1>11. entry \in Entry
    BY <1>1, <1>3 DEF Resolvers, Active
  <1>12. key \in Workers \X Ids
    BY <1>5, <1>11 DEF Entry
  <1>13. u \in Resolvers /\ data \in Data \cup {None}
    BY <1>6, <1>7, <1>12, TakenOK
  <1>14. Counted(u, e)
    <2>1. SamePlaces(t, u)
      BY <1>6, TakenPlaces
    <2> QED BY <1>9, <2>1, SameCounted
  <1>15. PICK i \in Ids, n \in Nat : i = entry.id /\ n = entry.count + 1
    <2>1. entry.id \in Ids /\ entry.count + 1 \in Nat
      BY <1>11 DEF Entry
    <2> QED BY <2>1
  <1>16. Counted(hangUp(u, w), e)
    BY <1>2, <1>13, <1>14, HangUpCounted
  <1>17. data # None => Counted(retransmit(u, data, i, n), e)
    BY <1>13, <1>14, RetransmitPlaces, SameCounted
  <1> QED BY <1>8, <1>15, <1>16, <1>17

LEMMA StartResolvingPlaces ==
    ASSUME NEW r \in Resolvers, NEW data \in Data
    PROVE  SamePlaces(r, startResolving(r, data).rs)
  <1>1. data.original \in Hosts /\ Udp \in Workers
    BY DEF Data, Workers
  <1>2. PICK i \in Ids : i = r.next[Udp]
    BY <1>1 DEF Resolvers
  <1>3. PICK h : h = resolveHost(r, Udp, data.original)
    OBVIOUS
  <1>4. h \in Resolvers /\ SamePlaces(r, h)
    BY <1>1, <1>3, ResolveHostOK, SameTablesPlaces
  <1>5. PICK t : t = track(h, Udp, i, data, 1, Udp)
    OBVIOUS
  <1>6. SamePlaces(r, t)
    <2>1. SamePlaces(h, t)
      BY <1>4, <1>5, TrackPlaces
    <2> QED BY <1>4, <2>1 DEF SamePlaces
  <1>7. startResolving(r, data).rs =
          CASE data.original \in r.cache -> r
            [] data.original \in Bad \ r.cache -> r
            [] OTHER -> t
    BY <1>2, <1>3, <1>5 DEF startResolving, Result, Quiet
  <1>8. SamePlaces(r, r)
    BY DEF SamePlaces
  <1> QED BY <1>6, <1>7, <1>8

LEMMA CountedStep ==
    ASSUME ResolverOK, NEW CONSTANT e, Counted(rs, e), [Next]_vars,
           e /\ timeoutResolver => Head(rs.active).worker = Udp
    PROVE  Counted(rs', e)
  <1>0. rs \in Resolvers
    BY DEF ResolverOK
  <1>1. ASSUME NEW c \in Clients, beginQuery(c)
        PROVE  Counted(rs', e)
    <2>1. asks[c] \in Nat /\ asks[c] < MaxAsks
      BY <1>1 DEF beginQuery, ResolverOK
    <2>2. PICK host \in Hosts \ Aliases :
            Take(startResolving(rs, [client |-> c, ask |-> asks[c] + 1,
                                     original |-> host, host |-> host]))
      BY <1>1 DEF beginQuery
    <2>3. PICK data \in Data : data = [client |-> c, ask |-> asks[c] + 1,
                                       original |-> host, host |-> host]
      BY <2>1, NewData
    <2>4. rs' = startResolving(rs, data).rs
      BY <2>2, <2>3 DEF Take
    <2> QED BY <1>0, <2>4, StartResolvingPlaces, SameCounted
  <1>2. ASSUME NEW w \in Workers, readAnswer(w)
        PROVE  Counted(rs', e)
    <2>1. PICK q \in rs.queries, kind \in AnswerKinds(w), follow \in BOOLEAN,
               newhost \in Aliases, sent \in BOOLEAN, new \in FreeTcp :
             Take(getResponse([rs EXCEPT !.queries = @ \ {q}], w,
                              [id |-> q.id, host |-> q.host, kind |-> kind,
                               follow |-> follow, newhost |-> newhost], new, sent))
      BY <1>2 DEF readAnswer
    <2>2. PICK r \in Resolvers : r = [rs EXCEPT !.queries = @ \ {q}]
      BY <1>0, ReadOK
    <2>3. PICK answer : answer = [id |-> q.id, host |-> q.host, kind |-> kind,
                                  follow |-> follow, newhost |-> newhost]
      OBVIOUS
    <2>4. q \in Query /\ newhost \in Hosts
      BY <1>0, AliasesAssumption DEF Resolvers
    <2>5. answer \in Answers
      BY <2>3, <2>4 DEF Answers, AnswerKinds, Query
    <2>6. new \in Tcp /\ new \notin rs.workers
      BY DEF FreeTcp
    <2>7. SamePlaces(rs, r)
      BY <1>0, <2>2 DEF SamePlaces, Resolvers
    <2>8. w = Udp \/ w \in r.workers
      BY <1>2, <2>7 DEF readAnswer, Readable, SamePlaces
    <2>9. Counted(r, e)
      BY <2>7, SameCounted
    <2>10. Counted(getResponse(r, w, answer, new, sent).rs, e)
      <3>1. new \notin r.workers
        BY <2>6, <2>7 DEF SamePlaces
      <3> QED BY <2>5, <2>6, <2>8, <2>9, <3>1, GetResponseCounted
    <2> QED BY <2>1, <2>2, <2>3, <2>10 DEF Take
  <1>3. ASSUME NEW w \in Tcp, readNothing(w)
        PROVE  Counted(rs', e)
    <2>1. PICK sent \in BOOLEAN, new \in FreeTcp : rs' = finish(rs, w, new, sent)
      BY <1>3 DEF readNothing, unreadable
    <2>2. new \in Tcp /\ new \notin rs.workers
      BY DEF FreeTcp
    <2>3. w \in rs.workers
      BY <1>3 DEF readNothing, Readable
    <2> QED BY <1>0, <2>1, <2>2, <2>3, FinishCounted
  <1>4. ASSUME NEW w \in Tcp, flushResolver(w)
        PROVE  Counted(rs', e)
    BY <1>0, <1>4, ContinueSendingPlaces, SameCounted DEF flushResolver
  <1>5. ASSUME timeoutResolver
        PROVE  Counted(rs', e)
    BY <1>0, <1>5, CleanupCounted DEF timeoutResolver, Take
  <1>6. ASSUME forgetNames
        PROVE  Counted(rs', e)
    <2>1. SamePlaces(rs, rs')
      BY <1>0, <1>6 DEF forgetNames, expireCache, SamePlaces, Resolvers
    <2> QED BY <2>1, SameCounted
  <1>7. ASSUME UNCHANGED vars
        PROVE  Counted(rs', e)
    BY <1>7 DEF vars
  <1> QED BY <1>1, <1>2, <1>3, <1>4, <1>5, <1>6, <1>7 DEF Next

LEMMA InitCounted ==
    ASSUME Init, NEW CONSTANT e
    PROVE  Counted(rs, e)
  <1>1. Cardinality({}) = 0
    BY FS_EmptySet
  <1> QED BY <1>1, ResolverAssumption DEF Init, NewResolver, Counted

\* No more TCP workers than places, and a lookup waits only while every place is
\* taken, whatever is closed, times out or waits (beginResolvingTCP, notifyClose
\* and the close without it in cleanup).
THEOREM PlacesCounted == Spec => []WorkersCounted
  <1>1. Init => ResolverOK /\ Counted(rs, FALSE)
    BY InitOK, InitCounted
  <1>2. ResolverOK /\ Counted(rs, FALSE) /\ [Next]_vars => ResolverOK' /\ Counted(rs, FALSE)'
    BY TypesStep, CountedStep
  <1>3. Counted(rs, FALSE) => WorkersCounted
    BY DEF Counted, WorkersCounted
  <1> QED BY <1>1, <1>2, <1>3, PTL DEF Spec

-----------------------------------------------------------------------------
(* Nobody is forgotten and nobody is answered twice.                       *)
(*                                                                         *)
(* Of any tables r, lookups a and responses g.  Between two steps of an    *)
(* operation the lookups of the clients H are in hand, in no table, and the*)
(* TCP workers E may have no lookup.                                       *)

\* The n-th lookup of a client is its last one and has no response.
IsOpen(a, g, c, n) == n = a[c] /\ n \in Asks /\ g[c][n] = 0

\* A lookup is filed where its client's entry says.
Filing(r) ==
    \A w \in Workers, i \in Ids : r.resolving[<<w, i>>] # None =>
       /\ r.clients[r.resolving[<<w, i>>].client] # None
       /\ r.clients[r.resolving[<<w, i>>].client].worker = w
       /\ r.clients[r.resolving[<<w, i>>].client].id = i

\* The entry of a client leads to its lookup, which is open and timed.
Tracking(r, a, g) ==
    \A c \in Clients : r.clients[c] # None =>
       \E d \in Data :
          /\ r.resolving[<<r.clients[c].worker, r.clients[c].id>>] = d
          /\ d.client = c /\ IsOpen(a, g, c, d.ask)
          /\ \E i \in DOMAIN r.active : r.active[i].client = c

\* A lookup in the line is open, is nowhere else, and is there once.
Lining(r, a, g, H) ==
    /\ \A i \in DOMAIN r.waiting :
         /\ r.waiting[i].client \notin H
         /\ r.clients[r.waiting[i].client] = None
         /\ IsOpen(a, g, r.waiting[i].client, r.waiting[i].ask)
    /\ \A i, j \in DOMAIN r.waiting : r.waiting[i].client = r.waiting[j].client => i = j

\* The last lookup of a client is answered once, or kept somewhere; those before
\* it are answered once.
Answering(r, a, g, H) ==
    \A c \in Clients :
       /\ a[c] <= MaxAsks
       /\ \A n \in Asks :
            /\ n < a[c] => g[c][n] = 1
            /\ n > a[c] => g[c][n] = 0
            /\ n = a[c] => g[c][n] = 1 \/ g[c][n] = 0
            /\ n = a[c] /\ g[c][n] = 0 =>
                 \/ c \in H
                 \/ r.clients[c] # None
                 \/ \E i \in DOMAIN r.waiting : r.waiting[i].client = c

InHand(r, a, g, H) ==
    \A c \in H : c \in Clients /\ r.clients[c] = None /\ IsOpen(a, g, c, a[c])

\* A client has one entry that is current in the list of timeouts; an entry under
\* the socket of a TCP worker is current, and its lookup is with that worker.
Timing(r) ==
    /\ \A i \in DOMAIN r.active : r.active[i].worker \in Tcp =>
         /\ r.active[i].current
         /\ r.clients[r.active[i].client] # None
         /\ r.clients[r.active[i].client].worker = r.active[i].worker
    /\ \A i, j \in DOMAIN r.active :
         r.active[i].current /\ r.active[j].current
         /\ r.active[i].client = r.active[j].client => i = j

\* What a TCP worker has still to send is the lookup it has.
Writing(r, a) ==
    \A w \in Tcp : r.sending[w] # None =>
       /\ w \in r.workers /\ w \in r.writing
       /\ r.clients[r.sending[w].client] # None
       /\ r.clients[r.sending[w].client].worker = w
       /\ r.sending[w].ask = a[r.sending[w].client]

\* Every TCP worker has a lookup, and has one only.
Busy(r, E) ==
    /\ \A w \in r.workers : w \notin E =>
         \E c \in Clients : r.clients[c] # None /\ r.clients[c].worker = w
    /\ \A c, e \in Clients :
         r.clients[c] # None /\ r.clients[e] # None
         /\ r.clients[c].worker = r.clients[e].worker /\ r.clients[c].worker \in Tcp => c = e

Kept(r, a, g, H, E) ==
    /\ Filing(r) /\ Tracking(r, a, g) /\ Lining(r, a, g, H) /\ Answering(r, a, g, H)
    /\ InHand(r, a, g, H) /\ Timing(r) /\ Writing(r, a) /\ Busy(r, E)

\* A worker that has no lookup.
Idle(r, w) ==
    /\ \A c \in Clients : r.clients[c] # None => r.clients[c].worker # w
    /\ \A i \in Ids : r.resolving[<<w, i>>] = None
    /\ w \in Tcp => r.sending[w] = None

LEMMA KeptSame ==
    ASSUME NEW r, NEW t, NEW a, NEW g, NEW H, NEW E, Kept(r, a, g, H, E),
           t.clients = r.clients, t.resolving = r.resolving, t.sending = r.sending,
           t.active = r.active, t.waiting = r.waiting, t.workers = r.workers,
           r.writing \subseteq t.writing
    PROVE  Kept(t, a, g, H, E)
  <1>1. Filing(t)
    BY DEF Kept, Filing
  <1>2. Tracking(t, a, g)
    BY DEF Kept, Tracking
  <1>3. Lining(t, a, g, H)
    BY DEF Kept, Lining
  <1>4. Answering(t, a, g, H)
    BY DEF Kept, Answering
  <1>5. InHand(t, a, g, H)
    BY DEF Kept, InHand
  <1>6. Timing(t)
    BY DEF Kept, Timing
  <1>7. Writing(t, a)
    BY DEF Kept, Writing
  <1>8. Busy(t, E)
    BY DEF Kept, Busy
  <1> QED BY <1>1, <1>2, <1>3, <1>4, <1>5, <1>6, <1>7, <1>8 DEF Kept

LEMMA KeptSameTables ==
    ASSUME NEW r, NEW t, NEW a, NEW g, NEW H, NEW E, Kept(r, a, g, H, E), SameTables(r, t)
    PROVE  Kept(t, a, g, H, E)
  BY KeptSame DEF SameTables

\* A lookup of a worker that has one is that worker's client's, and an idle worker
\* stays so when nothing changes.
LEMMA IdleSame ==
    ASSUME NEW r, NEW t, NEW w, Idle(r, w), SameTables(r, t)
    PROVE  Idle(t, w)
  BY DEF Idle, SameTables

\* What track() does to each table.
Tracks(r, t, w, id, data, count, sock) ==
    /\ t.resolving = [r.resolving EXCEPT ![<<w, id>>] = data]
    /\ t.clients = [r.clients EXCEPT
                      ![data.client] = [worker |-> w, id |-> id, count |-> count]]
    /\ t.sending = r.sending /\ t.waiting = r.waiting /\ t.workers = r.workers
    /\ t.writing = r.writing /\ t.reading = r.reading
    /\ DOMAIN t.active = 1..(Len(r.active) + 1)
    /\ t.active[Len(r.active) + 1] =
         [client |-> data.client, worker |-> sock, current |-> TRUE]
    /\ \A i \in DOMAIN r.active :
         /\ t.active[i].client = r.active[i].client
         /\ t.active[i].worker = r.active[i].worker
         /\ t.active[i].current <=> r.active[i].current /\ r.active[i].client # data.client

LEMMA TrackFields ==
    ASSUME NEW r \in Resolvers, NEW w \in Workers, NEW id \in Ids, NEW data \in Data,
           NEW count \in Nat, NEW sock \in Workers
    PROVE  Tracks(r, track(r, w, id, data, count, sock), w, id, data, count, sock)
  <1>0. PICK t : t = track(r, w, id, data, count, sock)
    OBVIOUS
  <1>1. PICK u : u = outdated(r.active, data.client)
    OBVIOUS
  <1>2. r.active \in Seq(Active)
    BY DEF Resolvers
  <1>3. /\ u \in Seq(Active) /\ Len(u) = Len(r.active)
        /\ \A i \in DOMAIN r.active :
             /\ u[i].client = r.active[i].client /\ u[i].worker = r.active[i].worker
             /\ u[i].current <=> r.active[i].current /\ r.active[i].client # data.client
    BY <1>1, <1>2, Outdated
  <1>4. PICK x \in Active :
          x = [client |-> data.client, worker |-> sock, current |-> TRUE]
    BY DEF Active, Data
  <1>5. t.active = Append(u, x)
    BY <1>0, <1>1, <1>4 DEF track, Resolvers
  <1>6. /\ DOMAIN t.active = 1..(Len(r.active) + 1)
        /\ t.active[Len(r.active) + 1] = x
        /\ \A i \in DOMAIN r.active : t.active[i] = u[i]
    BY <1>2, <1>3, <1>5
  <1>7. /\ t.resolving = [r.resolving EXCEPT ![<<w, id>>] = data]
        /\ t.clients = [r.clients EXCEPT
                          ![data.client] = [worker |-> w, id |-> id, count |-> count]]
        /\ t.sending = r.sending /\ t.waiting = r.waiting /\ t.workers = r.workers
        /\ t.writing = r.writing /\ t.reading = r.reading
    BY <1>0 DEF track, Resolvers
  <1> QED BY <1>0, <1>3, <1>4, <1>6, <1>7 DEF Tracks

\* What the lists hold.
LEMMA Listed ==
    ASSUME NEW r \in Resolvers
    PROVE  /\ r.active \in Seq(Active) /\ r.waiting \in Seq(Data)
           /\ DOMAIN r.active = 1..Len(r.active) /\ Len(r.active) \in Nat
           /\ DOMAIN r.waiting = 1..Len(r.waiting) /\ Len(r.waiting) \in Nat
           /\ \A i \in DOMAIN r.active :
                /\ r.active[i] \in Active
                /\ r.active[i].client \in Clients /\ r.active[i].worker \in Workers
                /\ r.active[i].current \in BOOLEAN
           /\ \A i \in DOMAIN r.waiting :
                r.waiting[i] \in Data /\ r.waiting[i].client \in Clients
  <1>1. r.active \in Seq(Active) /\ r.waiting \in Seq(Data)
    BY DEF Resolvers
  <1>2. \A i \in DOMAIN r.active : r.active[i] \in Active
    BY <1>1
  <1>3. \A i \in DOMAIN r.waiting : r.waiting[i] \in Data
    BY <1>1
  <1>4. /\ DOMAIN r.active = 1..Len(r.active) /\ Len(r.active) \in Nat
        /\ DOMAIN r.waiting = 1..Len(r.waiting) /\ Len(r.waiting) \in Nat
    BY <1>1
  <1> QED BY <1>1, <1>2, <1>3, <1>4 DEF Active, Data

\* A lookup that was in hand is filed.
LEMMA TrackKept ==
    ASSUME NEW r \in Resolvers, NEW a \in [Clients -> Nat], NEW g, NEW E,
           NEW w \in Workers, NEW id \in Ids, NEW data \in Data, NEW count \in Nat,
           NEW sock \in Workers, sock = Udp \/ sock = w,
           Kept(r, a, g, {data.client}, E), data.ask = a[data.client],
           r.resolving[<<w, id>>] = None, w \in Tcp => Idle(r, w),
           NEW t, t = track(r, w, id, data, count, sock)
    PROVE  Kept(t, a, g, {}, E \ {w})
  <1> DEFINE c == data.client
  <1>0. Tracks(r, t, w, id, data, count, sock)
    BY TrackFields
  <1>1. PICK e \in Entry : e = [worker |-> w, id |-> id, count |-> count]
    BY DEF Entry
  <1>2. e # None /\ data # None /\ c \in Clients
    BY NoneAssumption DEF Data
  <1>3. /\ \A v \in Workers, i \in Ids :
             t.resolving[<<v, i>>] = IF v = w /\ i = id THEN data ELSE r.resolving[<<v, i>>]
        /\ \A k \in Clients : t.clients[k] = IF k = c THEN e ELSE r.clients[k]
        /\ t.sending = r.sending /\ t.waiting = r.waiting /\ t.workers = r.workers
        /\ t.writing = r.writing
    BY <1>0, <1>1 DEF Resolvers, Tracks
  <1>4. /\ DOMAIN r.active = 1..Len(r.active) /\ Len(r.active) \in Nat
        /\ DOMAIN t.active = 1..(Len(r.active) + 1)
        /\ t.active[Len(r.active) + 1].client = c
        /\ t.active[Len(r.active) + 1].worker = sock
        /\ t.active[Len(r.active) + 1].current
        /\ \A i \in DOMAIN r.active :
             /\ t.active[i].client = r.active[i].client
             /\ t.active[i].worker = r.active[i].worker
             /\ t.active[i].current <=> r.active[i].current /\ r.active[i].client # c
    <2>1. /\ DOMAIN r.active = 1..Len(r.active) /\ Len(r.active) \in Nat
      BY Listed
    <2> QED BY <1>0, <2>1 DEF Tracks
  <1>5. r.clients[c] = None /\ IsOpen(a, g, c, data.ask)
    BY DEF Kept, InHand
  <1>6. \A v \in Workers, i \in Ids : r.resolving[<<v, i>>] # None =>
          r.resolving[<<v, i>>] \in Data /\ r.resolving[<<v, i>>].client \in Clients
    BY DEF Resolvers, Data
  <1>7. Filing(t)
    <2> SUFFICES ASSUME NEW v \in Workers, NEW i \in Ids, t.resolving[<<v, i>>] # None
                 PROVE  /\ t.clients[t.resolving[<<v, i>>].client] # None
                        /\ t.clients[t.resolving[<<v, i>>].client].worker = v
                        /\ t.clients[t.resolving[<<v, i>>].client].id = i
      BY DEF Filing
    <2>1. CASE v = w /\ i = id
      BY <1>1, <1>2, <1>3, <2>1
    <2>2. CASE ~(v = w /\ i = id)
      <3>1. t.resolving[<<v, i>>] = r.resolving[<<v, i>>]
        BY <1>3, <2>2
      <3>2. PICK k \in Clients : k = r.resolving[<<v, i>>].client
        BY <1>6, <3>1
      <3>3. r.clients[k] # None /\ r.clients[k].worker = v /\ r.clients[k].id = i
        BY <3>1, <3>2 DEF Kept, Filing
      <3> QED BY <1>3, <1>5, <3>1, <3>2, <3>3
    <2> QED BY <2>1, <2>2
  <1>8. Tracking(t, a, g)
    <2> SUFFICES ASSUME NEW k \in Clients, t.clients[k] # None
                 PROVE  \E d \in Data :
                          /\ t.resolving[<<t.clients[k].worker, t.clients[k].id>>] = d
                          /\ d.client = k /\ IsOpen(a, g, k, d.ask)
                          /\ \E i \in DOMAIN t.active : t.active[i].client = k
      BY DEF Tracking
    <2>1. CASE k = c
      <3>1. t.resolving[<<t.clients[k].worker, t.clients[k].id>>] = data
        BY <1>1, <1>3, <2>1
      <3>2. \E i \in DOMAIN t.active : t.active[i].client = k
        BY <1>4, <2>1
      <3> QED BY <1>5, <2>1, <3>1, <3>2
    <2>2. CASE k # c
      <3>1. t.clients[k] = r.clients[k] /\ r.clients[k] # None
        BY <1>3, <2>2
      <3>2. PICK d \in Data :
              /\ r.resolving[<<r.clients[k].worker, r.clients[k].id>>] = d
              /\ d.client = k /\ IsOpen(a, g, k, d.ask)
              /\ \E i \in DOMAIN r.active : r.active[i].client = k
        BY <3>1 DEF Kept, Tracking
      <3>3. PICK v \in Workers, i \in Ids : v = r.clients[k].worker /\ i = r.clients[k].id
        <4>1. r.clients[k] \in Entry
          BY <3>1 DEF Resolvers
        <4> QED BY <4>1 DEF Entry
      <3>4. ~(v = w /\ i = id)
        BY <3>2, <3>3, NoneAssumption
      <3>5. t.resolving[<<t.clients[k].worker, t.clients[k].id>>] = d
        BY <1>3, <3>1, <3>2, <3>3, <3>4
      <3>6. \E j \in DOMAIN t.active : t.active[j].client = k
        BY <1>4, <3>2
      <3> QED BY <3>2, <3>5, <3>6
    <2> QED BY <2>1, <2>2
  <1>9. Lining(t, a, g, {})
    <2>1. \A i \in DOMAIN r.waiting : r.waiting[i].client \in Clients
      BY Listed
    <2> QED BY <1>3, <2>1 DEF Kept, Lining
  <1>10. Answering(t, a, g, {})
    BY <1>2, <1>3 DEF Kept, Answering
  <1>11. InHand(t, a, g, {})
    BY DEF InHand
  <1>12. Timing(t)
    <2>1. \A i \in DOMAIN r.active : r.active[i].client \in Clients
      BY Listed
    <2>2. ASSUME NEW i \in DOMAIN t.active, t.active[i].worker \in Tcp
          PROVE  /\ t.active[i].current
                 /\ t.clients[t.active[i].client] # None
                 /\ t.clients[t.active[i].client].worker = t.active[i].worker
      <3>1. CASE i = Len(r.active) + 1
        <4>1. sock = w
          BY <1>4, <2>2, <3>1, ResolverAssumption
        <4> QED BY <1>1, <1>2, <1>3, <1>4, <3>1, <4>1
      <3>2. CASE i # Len(r.active) + 1
        <4>1. i \in DOMAIN r.active
          BY <1>4, <3>2
        <4>2. /\ r.active[i].current /\ r.clients[r.active[i].client] # None
              /\ r.clients[r.active[i].client].worker = r.active[i].worker
          BY <1>4, <2>2, <4>1 DEF Kept, Timing
        <4>3. r.active[i].client # c
          BY <1>5, <4>2
        <4>4. PICK k \in Clients : k = r.active[i].client
          BY <2>1, <4>1
        <4>5. t.active[i].client = k /\ t.active[i].worker = r.active[i].worker
          BY <1>4, <4>1, <4>4
        <4>6. t.clients[k] = r.clients[k]
          BY <1>3, <4>3, <4>4
        <4>7. t.active[i].current
          BY <1>4, <4>1, <4>2, <4>3
        <4> QED BY <4>2, <4>4, <4>5, <4>6, <4>7
      <3> QED BY <3>1, <3>2
    <2>3. ASSUME NEW i \in DOMAIN t.active, NEW j \in DOMAIN t.active,
                 t.active[i].current, t.active[j].current,
                 t.active[i].client = t.active[j].client
          PROVE  i = j
      <3>1. CASE i \in DOMAIN r.active /\ j \in DOMAIN r.active
        BY <1>4, <2>3, <3>1 DEF Kept, Timing
      <3>2. CASE i \notin DOMAIN r.active /\ j \in DOMAIN r.active
        BY <1>4, <2>3, <3>2
      <3>3. CASE i \in DOMAIN r.active /\ j \notin DOMAIN r.active
        BY <1>4, <2>3, <3>3
      <3>4. CASE i \notin DOMAIN r.active /\ j \notin DOMAIN r.active
        BY <1>4, <3>4
      <3> QED BY <3>1, <3>2, <3>3, <3>4
    <2> QED BY <2>2, <2>3 DEF Timing
  <1>13. Writing(t, a)
    <2>1. \A v \in Tcp : r.sending[v] # None => r.sending[v].client \in Clients
      BY DEF Resolvers, Data
    <2> QED BY <1>3, <1>5, <2>1 DEF Kept, Writing
  <1>14. Busy(t, E \ {w})
    <2>1. ASSUME NEW v \in t.workers, v \notin E \ {w}
          PROVE  \E k \in Clients : t.clients[k] # None /\ t.clients[k].worker = v
      <3>1. CASE v = w
        BY <1>1, <1>2, <1>3, <3>1
      <3>2. CASE v # w
        <4>1. PICK k \in Clients : r.clients[k] # None /\ r.clients[k].worker = v
          BY <1>3, <2>1, <3>2 DEF Kept, Busy
        <4> QED BY <1>3, <1>5, <4>1
      <3> QED BY <3>1, <3>2
    <2>2. ASSUME NEW k \in Clients, NEW m \in Clients,
                 t.clients[k] # None, t.clients[m] # None,
                 t.clients[k].worker = t.clients[m].worker, t.clients[k].worker \in Tcp
          PROVE  k = m
      <3>1. CASE k # c /\ m # c
        BY <1>3, <2>2, <3>1 DEF Kept, Busy
      <3>2. CASE k = c /\ m # c
        BY <1>1, <1>3, <2>2, <3>2 DEF Idle
      <3>3. CASE k # c /\ m = c
        BY <1>1, <1>3, <2>2, <3>3 DEF Idle
      <3> QED BY <3>1, <3>2, <3>3
    <2> QED BY <2>1, <2>2 DEF Busy
  <1> QED BY <1>7, <1>8, <1>9, <1>10, <1>11, <1>12, <1>13, <1>14 DEF Kept

\* The list without the first occurrence of an entry, as seen from its indices.
Shifted(s, u, e, f) ==
    /\ f \in [DOMAIN u -> DOMAIN s]
    /\ \A i, j \in DOMAIN u : f[i] = f[j] => i = j
    /\ \A i \in DOMAIN u : u[i] = s[f[i]]
    /\ \A i \in DOMAIN s : s[i] # e => \E j \in DOMAIN u : f[j] = i
    /\ (\A i, j \in DOMAIN s : s[i] = e /\ s[j] = e => i = j) => \A i \in DOMAIN u : u[i] # e

LEMMA RemovedShift ==
    ASSUME NEW S, NEW s \in Seq(S), NEW e, NEW u, u = RemoveFirst(s, e)
    PROVE  u \in Seq(S) /\ \E f : Shifted(s, u, e, f)
  <1>1. CASE u = s /\ \A i \in DOMAIN s : s[i] # e
    <2> DEFINE f == [i \in DOMAIN s |-> i]
    <2>1. Shifted(s, u, e, f)
      BY <1>1 DEF Shifted
    <2> QED BY <1>1, <2>1
  <1>2. ASSUME NEW k \in DOMAIN s, s[k] = e, u \in Seq(S), Len(u) = Len(s) - 1,
               \A i \in DOMAIN u : u[i] = IF i < k THEN s[i] ELSE s[i + 1]
        PROVE  \E f : Shifted(s, u, e, f)
    <2> DEFINE f == [i \in DOMAIN u |-> IF i < k THEN i ELSE i + 1]
    <2>1. /\ DOMAIN s = 1..Len(s) /\ Len(s) \in Nat /\ DOMAIN u = 1..(Len(s) - 1)
          /\ k \in 1..Len(s)
      BY <1>2
    <2>2. f \in [DOMAIN u -> DOMAIN s]
      BY <2>1
    <2>3. \A i, j \in DOMAIN u : f[i] = f[j] => i = j
      BY <2>1
    <2>4. \A i \in DOMAIN u : u[i] = s[f[i]]
      BY <1>2, <2>1
    <2>5. \A i \in DOMAIN u : f[i] # k
      BY <2>1
    <2>6. ASSUME NEW i \in DOMAIN s, s[i] # e
          PROVE  \E j \in DOMAIN u : f[j] = i
      <3>1. CASE i < k
        BY <2>1, <3>1
      <3>2. CASE i > k
        <4>1. i - 1 \in DOMAIN u /\ ~(i - 1 < k)
          BY <2>1, <3>2
        <4>2. f[i - 1] = i
          BY <2>1, <4>1
        <4> QED BY <4>1, <4>2
      <3>3. i # k
        BY <1>2, <2>6
      <3> QED BY <2>1, <3>1, <3>2, <3>3
    <2> HIDE DEF f
    <2>7. ASSUME \A i, j \in DOMAIN s : s[i] = e /\ s[j] = e => i = j,
                 NEW i \in DOMAIN u
          PROVE  u[i] # e
      BY <1>2, <2>2, <2>4, <2>5, <2>7
    <2>8. Shifted(s, u, e, f)
      BY <2>2, <2>3, <2>4, <2>6, <2>7 DEF Shifted
    <2> QED BY <2>8
  <1>3. u \in Seq(S)
    BY Removed
  <1> QED BY <1>1, <1>2, <1>3, Removed

\* What forget() does to each table.
Forgets(r, t, w, id, c) ==
    /\ t.resolving = [r.resolving EXCEPT ![<<w, id>>] = None]
    /\ t.clients = [r.clients EXCEPT ![c] = None]
    /\ t.sending = r.sending /\ t.waiting = r.waiting /\ t.workers = r.workers
    /\ t.writing = r.writing /\ t.reading = r.reading
    /\ \E u, f :
         /\ Shifted(r.active, u, [client |-> c, worker |-> w, current |-> TRUE], f)
         /\ DOMAIN t.active = DOMAIN u
         /\ \A i \in DOMAIN u :
              /\ t.active[i].client = u[i].client /\ t.active[i].worker = u[i].worker
              /\ t.active[i].current <=> u[i].current /\ u[i].client # c

LEMMA ForgetFields ==
    ASSUME NEW r \in Resolvers, NEW w, NEW id
    PROVE  Forgets(r, forget(r, w, id), w, id, r.resolving[<<w, id>>].client)
  <1>1. PICK t : t = forget(r, w, id)
    OBVIOUS
  <1>2. PICK c : c = r.resolving[<<w, id>>].client
    OBVIOUS
  <1>3. PICK e : e = [client |-> c, worker |-> w, current |-> TRUE]
    OBVIOUS
  <1>4. PICK u : u = RemoveFirst(r.active, e)
    OBVIOUS
  <1>5. r.active \in Seq(Active)
    BY Listed
  <1>6. u \in Seq(Active) /\ \E f : Shifted(r.active, u, e, f)
    BY <1>4, <1>5, RemovedShift
  <1>7. PICK v : v = outdated(u, c)
    OBVIOUS
  <1>8. /\ DOMAIN v = DOMAIN u
        /\ \A i \in DOMAIN u :
             /\ v[i].client = u[i].client /\ v[i].worker = u[i].worker
             /\ v[i].current <=> u[i].current /\ u[i].client # c
    BY <1>6, <1>7, Outdated
  <1>9. /\ t.resolving = [r.resolving EXCEPT ![<<w, id>>] = None]
        /\ t.clients = [r.clients EXCEPT ![c] = None]
        /\ t.sending = r.sending /\ t.waiting = r.waiting /\ t.workers = r.workers
        /\ t.writing = r.writing /\ t.reading = r.reading
        /\ t.active = v
    BY <1>1, <1>2, <1>3, <1>4, <1>7 DEF forget, Resolvers
  <1> QED BY <1>1, <1>2, <1>3, <1>6, <1>8, <1>9 DEF Forgets

\* The lookup of an answer is in hand, and its TCP worker has none.
LEMMA ForgetKept ==
    ASSUME NEW r \in Resolvers, NEW a \in [Clients -> Nat], NEW g,
           NEW w \in Workers, NEW id \in Ids, r.resolving[<<w, id>>] # None,
           NEW c, c = r.resolving[<<w, id>>].client,
           Kept(r, a, g, {}, {}), w \in Tcp => r.sending[w] = None,
           NEW t, t = forget(r, w, id)
    PROVE  /\ Kept(t, a, g, {c}, {w}) /\ t.resolving[<<w, id>>] = None
           /\ w \in Tcp => Idle(t, w)
           /\ IsOpen(a, g, c, r.resolving[<<w, id>>].ask)
           /\ c \in Clients
  <1>1. Forgets(r, t, w, id, c)
    BY ForgetFields
  <1>2. PICK data \in Data : data = r.resolving[<<w, id>>]
    BY DEF Resolvers
  <1>3. c \in Clients /\ data.client = c
    BY <1>2 DEF Data
  <1>4. r.clients[c] # None /\ r.clients[c].worker = w /\ r.clients[c].id = id
    BY <1>2, <1>3 DEF Kept, Filing
  <1>5. IsOpen(a, g, c, data.ask)
    BY <1>2, <1>3, <1>4 DEF Kept, Tracking
  <1>6. /\ \A v \in Workers, i \in Ids :
             t.resolving[<<v, i>>] = IF v = w /\ i = id THEN None ELSE r.resolving[<<v, i>>]
        /\ \A k \in Clients : t.clients[k] = IF k = c THEN None ELSE r.clients[k]
        /\ t.sending = r.sending /\ t.waiting = r.waiting /\ t.workers = r.workers
        /\ t.writing = r.writing
    BY <1>1, <1>3 DEF Forgets, Resolvers
  <1>7. PICK u, f :
         /\ Shifted(r.active, u, [client |-> c, worker |-> w, current |-> TRUE], f)
         /\ DOMAIN t.active = DOMAIN u
         /\ \A i \in DOMAIN u :
              /\ t.active[i].client = u[i].client /\ t.active[i].worker = u[i].worker
              /\ t.active[i].current <=> u[i].current /\ u[i].client # c
    BY <1>1 DEF Forgets
  <1>8. PICK e : e = [client |-> c, worker |-> w, current |-> TRUE]
    OBVIOUS
  <1>9. /\ f \in [DOMAIN u -> DOMAIN r.active]
        /\ \A i, j \in DOMAIN u : f[i] = f[j] => i = j
        /\ \A i \in DOMAIN u : u[i] = r.active[f[i]]
        /\ \A i \in DOMAIN r.active : r.active[i] # e => \E j \in DOMAIN u : f[j] = i
    BY <1>7, <1>8 DEF Shifted
  <1>10. \A i \in DOMAIN r.active :
           r.active[i] \in Active /\ r.active[i].client \in Clients
    BY Listed
  <1>11. \A i \in DOMAIN u : u[i] # e
    <2>1. \A i, j \in DOMAIN r.active : r.active[i] = e /\ r.active[j] = e => i = j
      BY <1>8 DEF Kept, Timing
    <2> QED BY <1>7, <1>8, <2>1 DEF Shifted
  <1>12. \A v \in Workers, i \in Ids : r.resolving[<<v, i>>] # None =>
           r.resolving[<<v, i>>].client \in Clients
    BY DEF Resolvers, Data
  <1>13. \A k \in Clients : r.clients[k] # None =>
           r.clients[k].worker \in Workers /\ r.clients[k].id \in Ids
    BY DEF Resolvers, Entry
  <1>14. Filing(t)
    <2> SUFFICES ASSUME NEW v \in Workers, NEW i \in Ids, t.resolving[<<v, i>>] # None
                 PROVE  /\ t.clients[t.resolving[<<v, i>>].client] # None
                        /\ t.clients[t.resolving[<<v, i>>].client].worker = v
                        /\ t.clients[t.resolving[<<v, i>>].client].id = i
      BY DEF Filing
    <2>1. t.resolving[<<v, i>>] = r.resolving[<<v, i>>] /\ ~(v = w /\ i = id)
      BY <1>6
    <2>2. PICK k \in Clients : k = r.resolving[<<v, i>>].client
      BY <1>12, <2>1
    <2>3. r.clients[k] # None /\ r.clients[k].worker = v /\ r.clients[k].id = i
      BY <2>1, <2>2 DEF Kept, Filing
    <2>4. k # c
      BY <1>4, <2>1, <2>3
    <2> QED BY <1>6, <2>1, <2>2, <2>3, <2>4
  <1>15. Tracking(t, a, g)
    <2> SUFFICES ASSUME NEW k \in Clients, t.clients[k] # None
                 PROVE  \E d \in Data :
                          /\ t.resolving[<<t.clients[k].worker, t.clients[k].id>>] = d
                          /\ d.client = k /\ IsOpen(a, g, k, d.ask)
                          /\ \E i \in DOMAIN t.active : t.active[i].client = k
      BY DEF Tracking
    <2>1. k # c /\ t.clients[k] = r.clients[k] /\ r.clients[k] # None
      BY <1>6
    <2>2. PICK d \in Data :
            /\ r.resolving[<<r.clients[k].worker, r.clients[k].id>>] = d
            /\ d.client = k /\ IsOpen(a, g, k, d.ask)
            /\ \E i \in DOMAIN r.active : r.active[i].client = k
      BY <2>1 DEF Kept, Tracking
    <2>3. PICK v \in Workers, i \in Ids : v = r.clients[k].worker /\ i = r.clients[k].id
      BY <1>13, <2>1
    <2>4. ~(v = w /\ i = id)
      BY <1>2, <1>3, <2>1, <2>2, <2>3
    <2>5. t.resolving[<<t.clients[k].worker, t.clients[k].id>>] = d
      BY <1>6, <2>1, <2>2, <2>3, <2>4
    <2>6. \E j \in DOMAIN t.active : t.active[j].client = k
      <3>1. PICK j \in DOMAIN r.active : r.active[j].client = k
        BY <2>2
      <3>2. r.active[j] # e
        BY <1>8, <2>1, <3>1
      <3>3. PICK m \in DOMAIN u : f[m] = j
        BY <1>9, <3>2
      <3>4. t.active[m].client = k
        BY <1>7, <1>9, <3>1, <3>3
      <3> QED BY <1>7, <3>4
    <2> QED BY <2>2, <2>5, <2>6
  <1>16. Lining(t, a, g, {c})
    <2>1. \A i \in DOMAIN r.waiting : r.waiting[i].client \in Clients
      BY Listed
    <2> QED BY <1>4, <1>6, <2>1 DEF Kept, Lining
  <1>17. Answering(t, a, g, {c})
    BY <1>6 DEF Kept, Answering
  <1>18. InHand(t, a, g, {c})
    BY <1>3, <1>5, <1>6 DEF InHand, IsOpen
  <1>19. Timing(t)
    <2>1. ASSUME NEW i \in DOMAIN t.active, t.active[i].worker \in Tcp
          PROVE  /\ t.active[i].current
                 /\ t.clients[t.active[i].client] # None
                 /\ t.clients[t.active[i].client].worker = t.active[i].worker
      <3>1. PICK j \in DOMAIN r.active : u[i] = r.active[j]
        BY <1>7, <1>9
      <3>2. t.active[i].client = r.active[j].client /\ t.active[i].worker = r.active[j].worker
        BY <1>7, <3>1
      <3>3. /\ r.active[j].current /\ r.clients[r.active[j].client] # None
            /\ r.clients[r.active[j].client].worker = r.active[j].worker
        BY <2>1, <3>2 DEF Kept, Timing
      <3>4. PICK k \in Clients : k = r.active[j].client
        BY <1>10
      <3>5. k # c
        <4>1. ASSUME k = c
              PROVE  FALSE
          <5>1. r.active[j].worker = w
            BY <1>4, <3>3, <3>4, <4>1
          <5>2. r.active[j] = e
            BY <1>8, <1>10, <3>3, <3>4, <4>1, <5>1 DEF Active
          <5> QED BY <1>7, <1>11, <3>1, <5>2
        <4> QED BY <4>1
      <3>6. t.active[i].current
        BY <1>7, <3>1, <3>3, <3>4, <3>5
      <3> QED BY <1>6, <3>2, <3>3, <3>4, <3>5, <3>6
    <2>2. ASSUME NEW i \in DOMAIN t.active, NEW j \in DOMAIN t.active,
                 t.active[i].current, t.active[j].current,
                 t.active[i].client = t.active[j].client
          PROVE  i = j
      <3>1. /\ f[i] \in DOMAIN r.active /\ f[j] \in DOMAIN r.active
            /\ r.active[f[i]].current /\ r.active[f[j]].current
            /\ r.active[f[i]].client = r.active[f[j]].client
        BY <1>7, <1>9, <2>2
      <3>2. f[i] = f[j]
        BY <3>1 DEF Kept, Timing
      <3> QED BY <1>7, <1>9, <3>2
    <2> QED BY <2>1, <2>2 DEF Timing
  <1>20. Writing(t, a)
    <2> SUFFICES ASSUME NEW v \in Tcp, t.sending[v] # None
                 PROVE  /\ v \in t.workers /\ v \in t.writing
                        /\ t.clients[t.sending[v].client] # None
                        /\ t.clients[t.sending[v].client].worker = v
                        /\ t.sending[v].ask = a[t.sending[v].client]
      BY DEF Writing
    <2>1. PICK k \in Clients : k = r.sending[v].client
      BY <1>6 DEF Resolvers, Data
    <2>2. /\ v \in r.workers /\ v \in r.writing /\ r.clients[k] # None
          /\ r.clients[k].worker = v /\ r.sending[v].ask = a[k]
      BY <1>6, <2>1 DEF Kept, Writing
    <2>3. k # c
      BY <1>4, <1>6, <2>2
    <2> QED BY <1>6, <2>1, <2>2, <2>3
  <1>21. Busy(t, {w})
    <2>1. ASSUME NEW v \in t.workers, v \notin {w}
          PROVE  \E k \in Clients : t.clients[k] # None /\ t.clients[k].worker = v
      <3>1. PICK k \in Clients : r.clients[k] # None /\ r.clients[k].worker = v
        BY <1>6, <2>1 DEF Kept, Busy
      <3> QED BY <1>4, <1>6, <2>1, <3>1
    <2>2. \A k, m \in Clients : t.clients[k] # None /\ t.clients[m] # None
             /\ t.clients[k].worker = t.clients[m].worker /\ t.clients[k].worker \in Tcp => k = m
      BY <1>6 DEF Kept, Busy
    <2> QED BY <2>1, <2>2 DEF Busy
  <1>22. ASSUME w \in Tcp
         PROVE  Idle(t, w)
    <2>1. ASSUME NEW k \in Clients, t.clients[k] # None
          PROVE  t.clients[k].worker # w
      <3>1. k # c /\ t.clients[k] = r.clients[k]
        BY <1>6, <2>1
      <3> QED BY <1>4, <1>3, <1>22, <2>1, <3>1 DEF Kept, Busy
    <2>2. ASSUME NEW i \in Ids, t.resolving[<<w, i>>] # None
          PROVE  FALSE
      <3>1. t.resolving[<<w, i>>].client \in Clients
        BY <1>6, <1>12, <2>2
      <3> QED BY <1>14, <2>1, <2>2, <3>1 DEF Filing
    <2> QED BY <1>6, <1>22, <2>1, <2>2 DEF Idle
  <1>23. t.resolving[<<w, id>>] = None
    BY <1>6
  <1> QED BY <1>2, <1>3, <1>5, <1>14, <1>15, <1>16, <1>17, <1>18, <1>19, <1>20, <1>21,
             <1>22, <1>23 DEF Kept

\* A lookup that was in hand waits for a TCP worker.
LEMMA WaitKept ==
    ASSUME NEW r \in Resolvers, NEW a, NEW g, NEW E, NEW data \in Data,
           Kept(r, a, g, {data.client}, E), data.ask = a[data.client],
           NEW t, t = [r EXCEPT !.waiting = Append(@, data)]
    PROVE  Kept(t, a, g, {}, E)
  <1> DEFINE c == data.client
  <1>1. /\ t.clients = r.clients /\ t.resolving = r.resolving /\ t.sending = r.sending
        /\ t.active = r.active /\ t.workers = r.workers /\ t.writing = r.writing
        /\ t.waiting = Append(r.waiting, data)
    BY DEF Resolvers
  <1>2. /\ DOMAIN r.waiting = 1..Len(r.waiting) /\ Len(r.waiting) \in Nat
        /\ r.waiting \in Seq(Data)
    BY Listed
  <1>3. /\ DOMAIN t.waiting = 1..(Len(r.waiting) + 1)
        /\ t.waiting[Len(r.waiting) + 1] = data
        /\ \A i \in DOMAIN r.waiting : t.waiting[i] = r.waiting[i]
    BY <1>1, <1>2
  <1>4. r.clients[c] = None /\ IsOpen(a, g, c, data.ask) /\ c \in Clients
    BY DEF Kept, InHand
  <1>5. Filing(t) /\ Timing(t) /\ Writing(t, a) /\ Busy(t, E)
    BY <1>1 DEF Kept, Filing, Timing, Writing, Busy
  <1>6. Tracking(t, a, g)
    BY <1>1 DEF Kept, Tracking
  <1>7. Lining(t, a, g, {})
    <2>1. ASSUME NEW i \in DOMAIN t.waiting
          PROVE  /\ t.clients[t.waiting[i].client] = None
                 /\ IsOpen(a, g, t.waiting[i].client, t.waiting[i].ask)
      <3>1. CASE i = Len(r.waiting) + 1
        BY <1>1, <1>3, <1>4, <3>1
      <3>2. CASE i # Len(r.waiting) + 1
        <4>1. i \in DOMAIN r.waiting /\ t.waiting[i] = r.waiting[i]
          BY <1>2, <1>3, <3>2
        <4> QED BY <1>1, <4>1 DEF Kept, Lining
      <3> QED BY <3>1, <3>2
    <2>2. ASSUME NEW i \in DOMAIN t.waiting, NEW j \in DOMAIN t.waiting,
                 t.waiting[i].client = t.waiting[j].client
          PROVE  i = j
      <3>1. \A k \in DOMAIN r.waiting : r.waiting[k].client # c
        BY DEF Kept, Lining
      <3>2. CASE i \in DOMAIN r.waiting /\ j \in DOMAIN r.waiting
        BY <1>3, <2>2, <3>2 DEF Kept, Lining
      <3>3. CASE i \notin DOMAIN r.waiting /\ j \in DOMAIN r.waiting
        <4>1. i = Len(r.waiting) + 1
          BY <1>2, <1>3, <3>3
        <4> QED BY <1>3, <2>2, <3>1, <3>3, <4>1
      <3>4. CASE i \in DOMAIN r.waiting /\ j \notin DOMAIN r.waiting
        <4>1. j = Len(r.waiting) + 1
          BY <1>2, <1>3, <3>4
        <4> QED BY <1>3, <2>2, <3>1, <3>4, <4>1
      <3>5. CASE i \notin DOMAIN r.waiting /\ j \notin DOMAIN r.waiting
        BY <1>2, <1>3, <3>5
      <3> QED BY <3>2, <3>3, <3>4, <3>5
    <2> QED BY <2>1, <2>2 DEF Lining
  <1>8. Answering(t, a, g, {})
    <2> SUFFICES ASSUME NEW k \in Clients, NEW n \in Asks, n = a[k], g[k][n] = 0
                 PROVE  \/ t.clients[k] # None
                        \/ \E i \in DOMAIN t.waiting : t.waiting[i].client = k
      BY DEF Kept, Answering
    <2>1. CASE k = c
      <3>1. Len(r.waiting) + 1 \in DOMAIN t.waiting
        BY <1>2, <1>3
      <3> QED BY <1>3, <2>1, <3>1
    <2>2. CASE k # c
      <3>1. r.clients[k] # None \/ \E i \in DOMAIN r.waiting : r.waiting[i].client = k
        BY <2>2 DEF Kept, Answering
      <3>2. \A i \in DOMAIN r.waiting : i \in DOMAIN t.waiting
        BY <1>2, <1>3
      <3> QED BY <1>1, <1>3, <3>1, <3>2
    <2> QED BY <2>1, <2>2
  <1>9. InHand(t, a, g, {})
    BY DEF InHand
  <1> QED BY <1>5, <1>6, <1>7, <1>8, <1>9 DEF Kept

\* The first lookup of the line is in hand.
LEMMA NextInLine ==
    ASSUME NEW r \in Resolvers, NEW a, NEW g, NEW E, Kept(r, a, g, {}, E),
           r.waiting # <<>>, NEW t, t = [r EXCEPT !.waiting = Tail(@)],
           NEW data, data = Head(r.waiting)
    PROVE  Kept(t, a, g, {data.client}, E) /\ data.ask = a[data.client]
  <1> DEFINE c == data.client
  <1>1. /\ t.clients = r.clients /\ t.resolving = r.resolving /\ t.sending = r.sending
        /\ t.active = r.active /\ t.workers = r.workers /\ t.writing = r.writing
        /\ t.waiting = Tail(r.waiting)
    BY DEF Resolvers
  <1>2. /\ DOMAIN r.waiting = 1..Len(r.waiting) /\ Len(r.waiting) \in Nat
        /\ r.waiting \in Seq(Data)
        /\ \A i \in DOMAIN r.waiting : r.waiting[i].client \in Clients
    BY Listed
  <1>3. /\ Len(r.waiting) >= 1 /\ data = r.waiting[1]
        /\ DOMAIN t.waiting = 1..(Len(r.waiting) - 1)
        /\ \A i \in DOMAIN t.waiting : t.waiting[i] = r.waiting[i + 1]
    BY <1>1, <1>2
  <1>4. r.clients[c] = None /\ IsOpen(a, g, c, data.ask) /\ c \in Clients
    BY <1>2, <1>3 DEF Kept, Lining
  <1>5. Filing(t) /\ Timing(t) /\ Writing(t, a) /\ Busy(t, E)
    BY <1>1 DEF Kept, Filing, Timing, Writing, Busy
  <1>6. Tracking(t, a, g)
    BY <1>1 DEF Kept, Tracking
  <1>7. Lining(t, a, g, {c})
    <2>1. ASSUME NEW i \in DOMAIN t.waiting
          PROVE  /\ t.waiting[i].client # c
                 /\ t.clients[t.waiting[i].client] = None
                 /\ IsOpen(a, g, t.waiting[i].client, t.waiting[i].ask)
      <3>1. /\ i + 1 \in DOMAIN r.waiting /\ 1 \in DOMAIN r.waiting /\ i + 1 # 1
            /\ t.waiting[i] = r.waiting[i + 1]
        BY <1>2, <1>3
      <3> QED BY <1>1, <1>3, <3>1 DEF Kept, Lining
    <2>2. ASSUME NEW i \in DOMAIN t.waiting, NEW j \in DOMAIN t.waiting,
                 t.waiting[i].client = t.waiting[j].client
          PROVE  i = j
      <3>1. /\ i + 1 \in DOMAIN r.waiting /\ j + 1 \in DOMAIN r.waiting
            /\ r.waiting[i + 1].client = r.waiting[j + 1].client
        BY <1>2, <1>3, <2>2
      <3>2. i + 1 = j + 1
        BY <3>1 DEF Kept, Lining
      <3> QED BY <1>2, <1>3, <3>2
    <2> QED BY <2>1, <2>2 DEF Lining
  <1>8. Answering(t, a, g, {c})
    <2> SUFFICES ASSUME NEW k \in Clients, NEW n \in Asks, n = a[k], g[k][n] = 0, k # c
                 PROVE  \/ t.clients[k] # None
                        \/ \E i \in DOMAIN t.waiting : t.waiting[i].client = k
      BY DEF Kept, Answering
    <2>1. r.clients[k] # None \/ \E i \in DOMAIN r.waiting : r.waiting[i].client = k
      BY DEF Kept, Answering
    <2>2. ASSUME NEW i \in DOMAIN r.waiting, r.waiting[i].client = k
          PROVE  \E j \in DOMAIN t.waiting : t.waiting[j].client = k
      <3>1. i # 1
        BY <1>3, <2>2
      <3>2. i - 1 \in DOMAIN t.waiting /\ (i - 1) + 1 = i
        BY <1>2, <1>3, <3>1
      <3>3. t.waiting[i - 1] = r.waiting[i]
        BY <1>3, <3>2
      <3> QED BY <2>2, <3>2, <3>3
    <2> QED BY <1>1, <2>1, <2>2
  <1>9. InHand(t, a, g, {c})
    BY <1>1, <1>4 DEF InHand, IsOpen
  <1> QED BY <1>4, <1>5, <1>6, <1>7, <1>8, <1>9 DEF Kept, IsOpen

\* The lookup that was in hand has its response.
LEMMA RespondedKept ==
    ASSUME NEW r \in Resolvers, NEW a \in [Clients -> Nat],
           NEW g \in [Clients -> [Asks -> Nat]], NEW E, NEW c \in Clients,
           Kept(r, a, g, {c}, E), NEW h, h = [g EXCEPT ![c][a[c]] = @ + 1]
    PROVE  Kept(r, a, h, {}, E)
  <1>1. IsOpen(a, g, c, a[c]) /\ r.clients[c] = None
    BY DEF Kept, InHand
  <1>2. /\ \A k \in Clients, n \in Asks : ~(k = c /\ n = a[c]) => h[k][n] = g[k][n]
        /\ h[c][a[c]] = 1
    BY <1>1 DEF IsOpen
  <1>3. Filing(r) /\ Timing(r) /\ Writing(r, a) /\ Busy(r, E)
    BY DEF Kept
  <1>4. \A k \in Clients, n \in Asks : k # c /\ IsOpen(a, g, k, n) => IsOpen(a, h, k, n)
    BY <1>2 DEF IsOpen
  <1>5. Tracking(r, a, h)
    <2> SUFFICES ASSUME NEW k \in Clients, r.clients[k] # None
                 PROVE  \E d \in Data :
                          /\ r.resolving[<<r.clients[k].worker, r.clients[k].id>>] = d
                          /\ d.client = k /\ IsOpen(a, h, k, d.ask)
                          /\ \E i \in DOMAIN r.active : r.active[i].client = k
      BY DEF Tracking
    <2>1. PICK d \in Data :
            /\ r.resolving[<<r.clients[k].worker, r.clients[k].id>>] = d
            /\ d.client = k /\ IsOpen(a, g, k, d.ask)
            /\ \E i \in DOMAIN r.active : r.active[i].client = k
      BY DEF Kept, Tracking
    <2>2. d.ask \in Asks /\ k # c
      BY <1>1, <2>1 DEF IsOpen
    <2> QED BY <1>4, <2>1, <2>2
  <1>6. Lining(r, a, h, {})
    <2>1. ASSUME NEW i \in DOMAIN r.waiting
          PROVE  /\ r.clients[r.waiting[i].client] = None
                 /\ IsOpen(a, h, r.waiting[i].client, r.waiting[i].ask)
      <3>1. /\ r.waiting[i].client # c /\ r.clients[r.waiting[i].client] = None
            /\ IsOpen(a, g, r.waiting[i].client, r.waiting[i].ask)
        BY DEF Kept, Lining
      <3>2. r.waiting[i].client \in Clients /\ r.waiting[i].ask \in Asks
        BY <3>1, Listed DEF IsOpen
      <3> QED BY <1>4, <3>1, <3>2
    <2> QED BY <2>1 DEF Kept, Lining
  <1>7. Answering(r, a, h, {})
    <2> SUFFICES ASSUME NEW k \in Clients
                 PROVE  /\ a[k] <= MaxAsks
                        /\ \A n \in Asks :
                             /\ n < a[k] => h[k][n] = 1
                             /\ n > a[k] => h[k][n] = 0
                             /\ n = a[k] => h[k][n] = 1 \/ h[k][n] = 0
                             /\ n = a[k] /\ h[k][n] = 0 =>
                                  \/ r.clients[k] # None
                                  \/ \E i \in DOMAIN r.waiting : r.waiting[i].client = k
      BY DEF Answering
    <2>1. a[k] <= MaxAsks
      BY DEF Kept, Answering
    <2>2. ASSUME NEW n \in Asks
          PROVE  /\ n < a[k] => h[k][n] = 1
                 /\ n > a[k] => h[k][n] = 0
                 /\ n = a[k] => h[k][n] = 1 \/ h[k][n] = 0
                 /\ n = a[k] /\ h[k][n] = 0 =>
                      \/ r.clients[k] # None
                      \/ \E i \in DOMAIN r.waiting : r.waiting[i].client = k
      <3>1. CASE k = c /\ n = a[c]
        BY <1>2, <3>1 DEF Asks
      <3>2. CASE ~(k = c /\ n = a[c])
        <4>1. h[k][n] = g[k][n]
          BY <1>2, <3>2
        <4> QED BY <3>2, <4>1 DEF Kept, Answering
      <3> QED BY <3>1, <3>2
    <2> QED BY <2>1, <2>2
  <1>8. InHand(r, a, h, {})
    BY DEF InHand
  <1> QED BY <1>3, <1>5, <1>6, <1>7, <1>8 DEF Kept

\* A new lookup of a client that has none open.
LEMMA QueryKept ==
    ASSUME NEW r \in Resolvers, NEW a \in [Clients -> Nat],
           NEW g \in [Clients -> [Asks -> Nat]], NEW E, NEW c \in Clients,
           Kept(r, a, g, {}, E), {n \in 1..a[c] : g[c][n] = 0} = {}, a[c] < MaxAsks,
           NEW b, b = [a EXCEPT ![c] = @ + 1]
    PROVE  Kept(r, b, g, {c}, E) /\ b[c] = a[c] + 1
  <1>1. /\ b[c] = a[c] + 1 /\ a[c] \in Nat
        /\ \A k \in Clients : k # c => b[k] = a[k]
    OBVIOUS
  <1>2. MaxAsks \in Nat
    BY ResolverAssumption
  <1>3. \A n : ~IsOpen(a, g, c, n)
    BY <1>1 DEF IsOpen, Asks
  <1>4. \A k \in Clients : \A n : IsOpen(a, g, k, n) => k # c /\ IsOpen(b, g, k, n)
    BY <1>1, <1>3 DEF IsOpen
  <1>5. r.clients[c] = None
    BY <1>3 DEF Kept, Tracking
  <1>6. IsOpen(b, g, c, b[c])
    <2>1. b[c] \in Asks
      BY <1>1, <1>2 DEF Asks
    <2>2. g[c][b[c]] = 0
      BY <1>1, <2>1 DEF Kept, Answering
    <2> QED BY <2>1, <2>2 DEF IsOpen
  <1>7. Filing(r) /\ Timing(r) /\ Busy(r, E)
    BY DEF Kept
  <1>8. Tracking(r, b, g)
    BY <1>4 DEF Kept, Tracking
  <1>9. Lining(r, b, g, {c})
    <2>1. \A i \in DOMAIN r.waiting : r.waiting[i].client \in Clients
      BY Listed
    <2> QED BY <1>4, <2>1 DEF Kept, Lining
  <1>10. Answering(r, b, g, {c})
    <2> SUFFICES ASSUME NEW k \in Clients
                 PROVE  /\ b[k] <= MaxAsks
                        /\ \A n \in Asks :
                             /\ n < b[k] => g[k][n] = 1
                             /\ n > b[k] => g[k][n] = 0
                             /\ n = b[k] => g[k][n] = 1 \/ g[k][n] = 0
                             /\ n = b[k] /\ g[k][n] = 0 =>
                                  \/ k \in {c}
                                  \/ r.clients[k] # None
                                  \/ \E i \in DOMAIN r.waiting : r.waiting[i].client = k
      BY DEF Answering
    <2>1. CASE k # c
      BY <1>1, <2>1 DEF Kept, Answering
    <2>2. CASE k = c
      <3>1. b[c] <= MaxAsks
        BY <1>1, <1>2
      <3>2. ASSUME NEW n \in Asks
            PROVE  (n < b[c] => g[c][n] = 1) /\ (n > b[c] => g[c][n] = 0)
        <4>1. n \in Nat /\ n >= 1
          BY DEF Asks
        <4>2. CASE n < a[c]
          BY <1>1, <4>1, <4>2 DEF Kept, Answering
        <4>3. CASE n = a[c]
          <5>1. g[c][n] # 0
            BY <4>1, <4>3
          <5>2. g[c][n] = 1
            BY <4>3, <5>1 DEF Kept, Answering
          <5> QED BY <1>1, <4>3, <5>2
        <4>4. CASE n > a[c]
          <5>1. g[c][n] = 0
            BY <4>4 DEF Kept, Answering
          <5> QED BY <1>1, <4>1, <4>4, <5>1
        <4> QED BY <1>1, <4>1, <4>2, <4>3, <4>4
      <3> QED BY <1>6, <2>2, <3>1, <3>2 DEF IsOpen
    <2> QED BY <2>1, <2>2
  <1>11. InHand(r, b, g, {c})
    BY <1>5, <1>6 DEF InHand
  <1>12. Writing(r, b)
    <2> SUFFICES ASSUME NEW v \in Tcp, r.sending[v] # None
                 PROVE  /\ v \in r.workers /\ v \in r.writing
                        /\ r.clients[r.sending[v].client] # None
                        /\ r.clients[r.sending[v].client].worker = v
                        /\ r.sending[v].ask = b[r.sending[v].client]
      BY DEF Writing
    <2>1. PICK k \in Clients : k = r.sending[v].client
      BY DEF Resolvers, Data
    <2>2. /\ v \in r.workers /\ v \in r.writing /\ r.clients[k] # None
          /\ r.clients[k].worker = v /\ r.sending[v].ask = a[k]
      BY <2>1 DEF Kept, Writing
    <2> QED BY <1>1, <1>5, <2>1, <2>2
  <1> QED BY <1>1, <1>7, <1>8, <1>9, <1>10, <1>11, <1>12 DEF Kept

\* A TCP worker that has nothing to send is closed.
LEMMA CloseKept ==
    ASSUME NEW r \in Resolvers, NEW a, NEW g, NEW H, NEW E, Kept(r, a, g, H, E),
           NEW w \in Tcp, r.sending[w] = None, NEW t, t = closeWorker(r, w)
    PROVE  /\ Kept(t, a, g, H, E \ {w})
           /\ \A v : Idle(r, v) => Idle(t, v)
           /\ t.workers = r.workers \ {w}
  <1>1. /\ t.clients = r.clients /\ t.resolving = r.resolving /\ t.sending = r.sending
        /\ t.active = r.active /\ t.waiting = r.waiting /\ t.workers = r.workers \ {w}
        /\ t.writing = r.writing \ {w}
    <2>1. w # Udp
      BY ResolverAssumption
    <2> QED BY <2>1 DEF closeWorker, hangUp, Resolvers
  <1>2. Filing(t) /\ Tracking(t, a, g) /\ Lining(t, a, g, H)
    BY <1>1 DEF Kept, Filing, Tracking, Lining
  <1>3. Answering(t, a, g, H) /\ InHand(t, a, g, H) /\ Timing(t)
    BY <1>1 DEF Kept, Answering, InHand, Timing
  <1>4. Writing(t, a)
    BY <1>1 DEF Kept, Writing
  <1>5. Busy(t, E \ {w})
    BY <1>1 DEF Kept, Busy
  <1>6. \A v : Idle(r, v) => Idle(t, v)
    BY <1>1 DEF Idle
  <1> QED BY <1>1, <1>2, <1>3, <1>4, <1>5, <1>6 DEF Kept

\* More TCP workers may have no lookup.
LEMMA KeptMore ==
    ASSUME NEW r, NEW a, NEW g, NEW H, NEW E, Kept(r, a, g, H, E),
           NEW F, r.workers \cap E \subseteq F
    PROVE  Kept(r, a, g, H, F)
  <1>1. Busy(r, F)
    BY DEF Kept, Busy
  <1> QED BY <1>1 DEF Kept

\* A TCP worker begins.
begins(r, w) == [r EXCEPT !.workers = @ \cup {w}, !.next[w] = 1]

LEMMA BegunKept ==
    ASSUME NEW r \in Resolvers, NEW a, NEW g, NEW H, NEW E, Kept(r, a, g, H, E),
           NEW w \in Tcp, Idle(r, w), NEW t, t = begins(r, w)
    PROVE  Kept(t, a, g, H, E \cup {w}) /\ Idle(t, w) /\ t \in Resolvers
  <1>1. /\ t.clients = r.clients /\ t.resolving = r.resolving /\ t.sending = r.sending
        /\ t.active = r.active /\ t.waiting = r.waiting /\ t.workers = r.workers \cup {w}
        /\ t.writing = r.writing
    BY DEF begins, Resolvers
  <1>2. Filing(t) /\ Tracking(t, a, g) /\ Lining(t, a, g, H)
    BY <1>1 DEF Kept, Filing, Tracking, Lining
  <1>3. Answering(t, a, g, H) /\ InHand(t, a, g, H) /\ Timing(t)
    BY <1>1 DEF Kept, Answering, InHand, Timing
  <1>4. Writing(t, a)
    BY <1>1 DEF Kept, Writing
  <1>5. Busy(t, E \cup {w})
    BY <1>1 DEF Kept, Busy
  <1>6. Idle(t, w)
    BY <1>1 DEF Idle
  <1>7. t \in Resolvers
    <2>1. w \in Workers /\ 1 \in Ids
      BY ResolverAssumption DEF Workers, Ids
    <2> QED BY <2>1 DEF begins, Resolvers
  <1> QED BY <1>2, <1>3, <1>4, <1>5, <1>6, <1>7 DEF Kept

\* The query of a TCP worker is not sent yet.
LEMMA SendingKept ==
    ASSUME NEW r \in Resolvers, NEW a, NEW g, NEW E, Kept(r, a, g, {}, E),
           NEW w \in Tcp, w \in r.workers, NEW data \in Data,
           r.clients[data.client] # None, r.clients[data.client].worker = w,
           data.ask = a[data.client],
           NEW t, t = [r EXCEPT !.writing = @ \cup {w}, !.sending[w] = data]
    PROVE  Kept(t, a, g, {}, E)
  <1>1. /\ t.clients = r.clients /\ t.resolving = r.resolving
        /\ \A v \in Tcp : t.sending[v] = IF v = w THEN data ELSE r.sending[v]
        /\ t.active = r.active /\ t.waiting = r.waiting /\ t.workers = r.workers
        /\ t.writing = r.writing \cup {w}
    BY DEF Resolvers
  <1>2. Filing(t) /\ Tracking(t, a, g) /\ Lining(t, a, g, {})
    BY <1>1 DEF Kept, Filing, Tracking, Lining
  <1>3. Answering(t, a, g, {}) /\ InHand(t, a, g, {}) /\ Timing(t) /\ Busy(t, E)
    BY <1>1 DEF Kept, Answering, InHand, Timing, Busy
  <1>4. Writing(t, a)
    BY <1>1 DEF Kept, Writing
  <1> QED BY <1>2, <1>3, <1>4 DEF Kept

\* A lookup that was in hand has a TCP worker of its own.
LEMMA NewWorkerKept ==
    ASSUME NEW r \in Resolvers, NEW a \in [Clients -> Nat], NEW g, NEW E,
           NEW data \in Data, Kept(r, a, g, {data.client}, E), data.ask = a[data.client],
           NEW w \in Tcp, Idle(r, w), NEW sent,
           NEW t, t = newTCPResolver(r, data, w, sent)
    PROVE  Kept(t, a, g, {}, E)
  <1>0. PICK c \in Clients : c = data.client
    BY DEF Data
  <1>1. PICK begun : begun = begins(r, w)
    OBVIOUS
  <1>2. w \in Workers /\ 1 \in Ids /\ 1 \in Nat /\ Udp \in Workers
    BY ResolverAssumption DEF Workers, Ids
  <1>3. begun \in Resolvers /\ Kept(begun, a, g, {c}, E \cup {w}) /\ Idle(begun, w)
    <2>1. Kept(r, a, g, {c}, E)
      BY <1>0
    <2> QED BY <1>1, <2>1, BegunKept
  <1>4. data.original \in Hosts /\ c \in Clients
    BY DEF Data
  <1>5. PICK h : h = resolveHost(begun, w, data.original)
    OBVIOUS
  <1>6. h \in Resolvers /\ SameTables(begun, h)
    BY <1>2, <1>3, <1>4, <1>5, ResolveHostOK
  <1>7. Kept(h, a, g, {c}, E \cup {w}) /\ Idle(h, w)
    BY <1>3, <1>6, KeptSameTables, IdleSame
  <1>8. PICK d \in Data : d = renewed(data)
    BY Renewed
  <1>9. d.client = c /\ d.ask = a[d.client]
    BY <1>0, <1>8, Renewed
  <1>10. PICK asked : asked = track(h, w, 1, d, 1, Udp)
    OBVIOUS
  <1>11. asked \in Resolvers
    BY <1>2, <1>6, <1>10, TrackOK
  <1>12. h.resolving[<<w, 1>>] = None
    BY <1>2, <1>7 DEF Idle
  <1>13. Kept(h, a, g, {d.client}, E \cup {w})
    BY <1>7, <1>9
  <1>14. Kept(asked, a, g, {}, (E \cup {w}) \ {w})
    BY <1>2, <1>6, <1>7, <1>9, <1>10, <1>12, <1>13, TrackKept
  <1>15. Kept(asked, a, g, {}, E)
    BY <1>14, KeptMore
  <1>16. Tracks(h, asked, w, 1, d, 1, Udp)
    BY <1>2, <1>6, <1>10, TrackFields
  <1>17. [worker |-> w, id |-> 1, count |-> 1] \in Entry
    BY <1>2 DEF Entry
  <1>18. /\ asked.clients[c] # None /\ asked.clients[c].worker = w /\ w \in asked.workers
    <2>1. asked.clients[c] = [worker |-> w, id |-> 1, count |-> 1]
      BY <1>4, <1>6, <1>9, <1>16 DEF Tracks, Resolvers
    <2>2. w \in asked.workers
      BY <1>1, <1>6, <1>16 DEF begins, Tracks, SameTables, Resolvers
    <2> QED BY <1>17, <2>1, <2>2, NoneAssumption
  <1>19. t = IF sent THEN [asked EXCEPT !.reading = @ \cup {w}]
             ELSE [asked EXCEPT !.writing = @ \cup {w}, !.sending[w] = d]
    BY <1>1, <1>5, <1>8, <1>10 DEF newTCPResolver, begins
  <1>20. Kept([asked EXCEPT !.reading = @ \cup {w}], a, g, {}, E)
    <2>1. PICK u : u = [asked EXCEPT !.reading = @ \cup {w}]
      OBVIOUS
    <2>2. /\ u.clients = asked.clients /\ u.resolving = asked.resolving
          /\ u.sending = asked.sending /\ u.active = asked.active
          /\ u.waiting = asked.waiting /\ u.workers = asked.workers
          /\ u.writing = asked.writing
      BY <1>11, <2>1 DEF Resolvers
    <2> QED BY <1>15, <2>1, <2>2, KeptSame
  <1>21. Kept([asked EXCEPT !.writing = @ \cup {w}, !.sending[w] = d], a, g, {}, E)
    BY <1>9, <1>11, <1>15, <1>18, SendingKept
  <1> QED BY <1>19, <1>20, <1>21

LEMMA CountKept ==
    ASSUME NEW r \in Resolvers, NEW a, NEW g, NEW H, NEW E, Kept(r, a, g, H, E), NEW n,
           NEW t, t = [r EXCEPT !.worker_count = n]
    PROVE  Kept(t, a, g, H, E)
  <1>1. /\ t.clients = r.clients /\ t.resolving = r.resolving /\ t.sending = r.sending
        /\ t.active = r.active /\ t.waiting = r.waiting /\ t.workers = r.workers
        /\ t.writing = r.writing
    BY DEF Resolvers
  <1> QED BY <1>1, KeptSame

\* A lookup whose answer was truncated has a TCP worker, or waits for one.
LEMMA BeginKept ==
    ASSUME NEW r \in Resolvers, NEW a \in [Clients -> Nat], NEW g, NEW E,
           NEW data \in Data, Kept(r, a, g, {data.client}, E), data.ask = a[data.client],
           NEW w \in Tcp, Idle(r, w), NEW sent
    PROVE  Kept(beginResolvingTCP(r, data, w, sent), a, g, {}, E)
  <1>1. PICK n : n = newTCPResolver(r, data, w, sent)
    OBVIOUS
  <1>2. n \in Resolvers /\ Kept(n, a, g, {}, E)
    BY <1>1, NewTCPResolverOK, NewWorkerKept
  <1>3. PICK m : m = n.worker_count + 1
    OBVIOUS
  <1>4. PICK u : u = [n EXCEPT !.worker_count = m]
    OBVIOUS
  <1>5. Kept(u, a, g, {}, E)
    BY <1>2, <1>4, CountKept
  <1>6. PICK v : v = [r EXCEPT !.waiting = Append(@, data)]
    OBVIOUS
  <1>7. Kept(v, a, g, {}, E)
    BY <1>6, WaitKept
  <1>8. beginResolvingTCP(r, data, w, sent) = IF r.worker_count < MaxWorkers THEN u ELSE v
    BY <1>1, <1>3, <1>4, <1>6 DEF beginResolvingTCP
  <1> QED BY <1>5, <1>7, <1>8

\* The place of a worker goes to the first of the line.
LEMMA NotifyCloseKept ==
    ASSUME NEW r \in Resolvers, NEW a \in [Clients -> Nat], NEW g, NEW E,
           Kept(r, a, g, {}, E), NEW w \in Tcp, Idle(r, w), NEW sent
    PROVE  Kept(notifyClose(r, w, sent), a, g, {}, E)
  <1>1. PICK m : m = r.worker_count - 1
    OBVIOUS
  <1>2. PICK u : u = [r EXCEPT !.worker_count = m]
    OBVIOUS
  <1>3. Kept(u, a, g, {}, E)
    BY <1>2, CountKept
  <1>4. PICK s : s = [r EXCEPT !.waiting = Tail(@)]
    OBVIOUS
  <1>5. PICK data : data = Head(r.waiting)
    OBVIOUS
  <1>6. ASSUME r.waiting # <<>>
        PROVE  Kept(newTCPResolver(s, data, w, sent), a, g, {}, E)
    <2>1. s \in Resolvers /\ data \in Data
      BY <1>4, <1>5, <1>6, Waiting
    <2>2. Kept(s, a, g, {data.client}, E) /\ data.ask = a[data.client]
      BY <1>4, <1>5, <1>6, NextInLine
    <2>3. s.clients = r.clients /\ s.resolving = r.resolving /\ s.sending = r.sending
      BY <1>4 DEF Resolvers
    <2>4. Idle(s, w)
      BY <2>3 DEF Idle
    <2> QED BY <2>1, <2>2, <2>4, NewWorkerKept
  <1>7. notifyClose(r, w, sent) =
          IF r.worker_count >= MaxWorkers /\ r.waiting # <<>>
          THEN newTCPResolver(s, data, w, sent) ELSE u
    BY <1>1, <1>2, <1>4, <1>5 DEF notifyClose
  <1> QED BY <1>3, <1>6, <1>7

\* An answer ends the lookup of its worker.
LEMMA FinishKept ==
    ASSUME NEW r \in Resolvers, NEW a \in [Clients -> Nat], NEW g, NEW w \in Workers,
           Kept(r, a, g, {}, {w}), w \in Tcp => r.sending[w] = None,
           NEW new \in Tcp, Idle(r, new), NEW sent
    PROVE  Kept(finish(r, w, new, sent), a, g, {}, {})
  <1>1. CASE w = Udp
    <2>1. r.workers \cap {w} = {}
      BY <1>1, ResolverAssumption DEF Resolvers
    <2>2. Kept(r, a, g, {}, {})
      BY <2>1, KeptMore
    <2> QED BY <1>1, <2>2 DEF finish
  <1>2. CASE w # Udp
    <2>1. w \in Tcp
      BY <1>2 DEF Workers
    <2>2. PICK t : t = closeWorker(r, w)
      OBVIOUS
    <2>3. t \in Resolvers
      BY <2>2, CloseWorkerOK
    <2>4. r.sending[w] = None
      BY <2>1
    <2>5. Kept(t, a, g, {}, {w} \ {w}) /\ Idle(t, new)
      BY <2>1, <2>2, <2>4, CloseKept
    <2>6. Kept(t, a, g, {}, {})
      BY <2>5, KeptMore
    <2>7. Kept(notifyClose(t, new, sent), a, g, {}, {})
      BY <2>3, <2>5, <2>6, NotifyCloseKept
    <2> QED BY <1>2, <2>2, <2>7 DEF finish
  <1> QED BY <1>1, <1>2

\* The responses after another one, or none.
enacted(g, response) ==
    IF response = None \/ response.kind = "error" THEN g
    ELSE [g EXCEPT ![response.client][response.ask] = @ + 1]

\* What an operation leaves behind and what it says.
Answered(x, a, g) ==
    /\ x.response # None => x.response.kind # "error"
    /\ Kept(x.rs, a, enacted(g, x.response), {}, {})

LEMMA QuietKept ==
    ASSUME NEW r, NEW a, NEW g, Kept(r, a, g, {}, {})
    PROVE  Answered(Quiet(r), a, g)
  BY DEF Answered, Quiet, Result, enacted

LEMMA ForgetIdle ==
    ASSUME NEW r \in Resolvers, NEW w \in Workers, NEW id \in Ids, NEW c \in Clients,
           NEW t, Forgets(r, t, w, id, c), NEW v \in Workers, Idle(r, v)
    PROVE  Idle(t, v)
  <1>1. /\ \A u \in Workers, i \in Ids :
             t.resolving[<<u, i>>] = IF u = w /\ i = id THEN None ELSE r.resolving[<<u, i>>]
        /\ \A k \in Clients : t.clients[k] = IF k = c THEN None ELSE r.clients[k]
        /\ t.sending = r.sending
    BY DEF Forgets, Resolvers
  <1> QED BY <1>1 DEF Idle

\* The response to the lookup in hand is given, and its worker ends.
LEMMA LastAnswerKept ==
    ASSUME NEW r \in Resolvers, NEW a \in [Clients -> Nat],
           NEW g \in [Clients -> [Asks -> Nat]], NEW w \in Workers, NEW data \in Data,
           Kept(r, a, g, {data.client}, {w}), data.ask = a[data.client],
           w \in Tcp => r.sending[w] = None, NEW new \in Tcp, Idle(r, new), NEW sent,
           NEW kind \in {"address", "page"}
    PROVE  Answered(Result(finish(r, w, new, sent), respond(data, kind)), a, g)
  <1>1. PICK c \in Clients : c = data.client
    BY DEF Data
  <1>2. PICK y \in Response : y = respond(data, kind)
    BY Responding
  <1>3. y # None /\ y.client = c /\ y.ask = a[c] /\ y.kind = kind
    BY <1>1, <1>2, NoneAssumption DEF respond
  <1>4. PICK h : h = [g EXCEPT ![c][a[c]] = @ + 1]
    OBVIOUS
  <1>5. enacted(g, y) = h
    BY <1>3, <1>4 DEF enacted
  <1>6. Kept(r, a, g, {c}, {w})
    BY <1>1
  <1>7. Kept(r, a, h, {}, {w})
    BY <1>4, <1>6, RespondedKept
  <1>8. PICK u : u = finish(r, w, new, sent)
    OBVIOUS
  <1>9. Kept(u, a, h, {}, {})
    BY <1>7, <1>8, FinishKept
  <1>10. PICK x : x = Result(u, y)
    OBVIOUS
  <1>11. x.rs = u /\ x.response = y
    BY <1>10 DEF Result
  <1>12. Answered(x, a, g)
    BY <1>3, <1>5, <1>9, <1>11 DEF Answered
  <1> QED BY <1>2, <1>8, <1>10, <1>12

\* The worker asks for another name.
LEMMA FollowedKept ==
    ASSUME NEW r \in Resolvers, NEW a \in [Clients -> Nat], NEW g, NEW w \in Workers,
           NEW data \in Data, Kept(r, a, g, {data.client}, {w}),
           data.ask = a[data.client], NEW i \in Ids, r.resolving[<<w, i>>] = None,
           w \in Tcp => Idle(r, w) /\ w \in r.workers, NEW host \in Hosts, NEW sent
    PROVE  Kept(continueOrRead(track(r, w, i, [data EXCEPT !.host = host], 1, w),
                               w, data, sent), a, g, {}, {})
  <1>1. PICK c \in Clients : c = data.client
    BY DEF Data
  <1>2. PICK d \in Data : d = [data EXCEPT !.host = host]
    BY Asking
  <1>3. d.client = c /\ d.ask = a[c]
    BY <1>1, <1>2, Asking
  <1>4. PICK u : u = track(r, w, i, d, 1, w)
    OBVIOUS
  <1>5. u \in Resolvers /\ Tracks(r, u, w, i, d, 1, w)
    BY <1>4, TrackOK, TrackFields, 1 \in Nat
  <1>6. Kept(r, a, g, {d.client}, {w})
    BY <1>1, <1>3
  <1>7. Kept(u, a, g, {}, {w} \ {w})
    BY <1>3, <1>4, <1>6, TrackKept, 1 \in Nat
  <1>8. Kept(u, a, g, {}, {})
    BY <1>7, KeptMore
  <1>9. CASE w = Udp
    BY <1>2, <1>4, <1>8, <1>9 DEF continueOrRead
  <1>10. CASE w # Udp
    <2>1. w \in Tcp
      BY <1>10 DEF Workers
    <2>2. PICK v : v = [u EXCEPT !.reading = @ \cup {w}]
      OBVIOUS
    <2>3. Kept(v, a, g, {}, {})
      <3>1. /\ v.clients = u.clients /\ v.resolving = u.resolving
            /\ v.sending = u.sending /\ v.active = u.active
            /\ v.waiting = u.waiting /\ v.workers = u.workers
            /\ v.writing = u.writing
        BY <1>5, <2>2 DEF Resolvers
      <3> QED BY <1>8, <3>1, KeptSame
    <2>4. PICK e \in Entry : e = [worker |-> w, id |-> i, count |-> 1]
      BY DEF Entry
    <2>5. u.clients[c] = e /\ u.workers = r.workers
      BY <1>3, <1>5, <2>4 DEF Tracks, Resolvers
    <2>6. u.clients[c] # None /\ u.clients[c].worker = w /\ w \in u.workers
      BY <2>1, <2>4, <2>5, NoneAssumption
    <2>7. PICK s : s = [u EXCEPT !.writing = @ \cup {w}, !.sending[w] = data]
      OBVIOUS
    <2>8. Kept(s, a, g, {}, {})
      BY <1>1, <1>5, <1>8, <2>1, <2>6, <2>7, SendingKept
    <2>9. continueOrRead(u, w, data, sent) = IF sent THEN v ELSE s
      BY <1>10, <2>2, <2>7 DEF continueOrRead
    <2> QED BY <1>2, <1>4, <2>3, <2>8, <2>9
  <1> QED BY <1>9, <1>10

\* The worker waits for the answer to the name it asked for.
LEMMA MisreadKept ==
    ASSUME NEW r \in Resolvers, NEW a \in [Clients -> Nat], NEW g, NEW w \in Workers,
           NEW data \in Data, Kept(r, a, g, {data.client}, {w}),
           data.ask = a[data.client], NEW i \in Ids, r.resolving[<<w, i>>] = None,
           w \in Tcp => Idle(r, w), NEW count \in Nat
    PROVE  Kept(misread(r, w, i, data, count), a, g, {}, {})
  <1>1. PICK u : u = track(r, w, i, data, count, w)
    OBVIOUS
  <1>2. Kept(u, a, g, {}, {w} \ {w})
    BY <1>1, TrackKept
  <1>3. Kept(u, a, g, {}, {})
    BY <1>2, KeptMore
  <1> QED BY <1>1, <1>3 DEF misread

\* An answer is read.  A TCP worker that reads has sent its query, and an alias is
\* asked for under an identifier that nothing is filed under.
LEMMA GetResponseKept ==
    ASSUME NEW r \in Resolvers, NEW a \in [Clients -> Nat],
           NEW g \in [Clients -> [Asks -> Nat]], NEW w \in Workers, NEW answer \in Answers,
           Kept(r, a, g, {}, {}), w \in Tcp => w \in r.workers /\ r.sending[w] = None,
           answer.kind = "truncated" => w = Udp,
           r.resolving[<<w, answer.id>>] # None /\ answer.follow /\ w = Udp =>
             r.resolving[<<w, r.next[w]>>] = None,
           NEW new \in Tcp, Idle(r, new), NEW sent
    PROVE  Answered(getResponse(r, w, answer, new, sent), a, g)
  <1>1. PICK id \in Ids : id = answer.id
    BY DEF Answers
  <1>2. PICK data : data = r.resolving[<<w, id>>]
    OBVIOUS
  <1>3. PICK chased : chased = chase(r, w, answer)
    OBVIOUS
  <1>4. chased \in Resolvers /\ SameTables(r, chased)
    BY <1>3, ChaseOK
  <1>5. PICK t : t = forget(chased, w, id)
    OBVIOUS
  <1>6. PICK i \in Ids : i = r.next[w]
    BY DEF Resolvers
  <1>7. PICK entry : entry = r.clients[data.client]
    OBVIOUS
  <1>8. PICK x : x = getResponse(r, w, answer, new, sent)
    OBVIOUS
  <1>9. x =
          CASE data = None -> Quiet(chased)
            [] data # None /\ answer.kind = "truncated" ->
                 Quiet(beginResolvingTCP(t, data, new, sent))
            [] data # None /\ answer.kind # "truncated" /\ Follows(r, answer) ->
                 Quiet(continueOrRead(
                   track(t, w, i, [data EXCEPT !.host = answer.newhost], 1, w), w, data, sent))
            [] data # None /\ answer.kind # "truncated" /\ ~Follows(r, answer)
               /\ answer.host # data.host ->
                 IF entry = None THEN Result(t, respond(data, "error"))
                 ELSE Quiet(misread(t, w, id, data, entry.count))
            [] data # None /\ ~Follows(r, answer) /\ answer.host = data.host
               /\ answer.kind = "address" ->
                 Result(finish(cacheDestination(t, data.original), w, new, sent),
                        respond(data, "address"))
            [] data # None /\ ~Follows(r, answer) /\ answer.host = data.host
               /\ answer.kind = "missing" ->
                 Result(finish(t, w, new, sent), respond(data, "page"))
    BY <1>1, <1>2, <1>3, <1>5, <1>6, <1>7, <1>8 DEF getResponse
  <1>10. answer.kind \in {"address", "missing", "truncated"} /\ answer.newhost \in Hosts
    BY DEF Answers
  <1>11. Kept(chased, a, g, {}, {})
    BY <1>4, KeptSameTables
  <1>12. Answered(Quiet(chased), a, g)
    BY <1>11, QuietKept
  <1> SUFFICES ASSUME data # None
               PROVE  Answered(x, a, g)
    BY <1>8, <1>9, <1>12
  <1>13. data \in Data /\ t \in Resolvers /\ chased.resolving[<<w, id>>] = data
    BY <1>2, <1>4, <1>5, ForgetOK DEF SameTables
  <1>14. PICK c \in Clients : c = data.client
    BY <1>13 DEF Data
  <1>15. w \in Tcp => chased.sending[w] = None
    BY <1>4 DEF SameTables
  <1>16. /\ Kept(t, a, g, {c}, {w}) /\ t.resolving[<<w, id>>] = None
         /\ w \in Tcp => Idle(t, w)
         /\ IsOpen(a, g, c, data.ask)
    BY <1>4, <1>5, <1>11, <1>13, <1>14, <1>15, ForgetKept
  <1>17. data.ask = a[data.client] /\ Kept(t, a, g, {data.client}, {w})
    BY <1>14, <1>16 DEF IsOpen
  <1>18. Forgets(chased, t, w, id, c)
    BY <1>4, <1>5, <1>13, <1>14, ForgetFields
  <1>19. Idle(t, new)
    <2>1. Idle(chased, new) /\ new \in Workers
      BY <1>4, IdleSame DEF Workers
    <2> QED BY <1>4, <1>18, <2>1, ForgetIdle
  <1>20. t.workers = r.workers
    BY <1>4, <1>18 DEF SameTables, Forgets
  <1>21. CASE answer.kind = "truncated"
    <2>1. t.workers \cap {w} = {}
      BY <1>13, <1>21, ResolverAssumption DEF Resolvers
    <2>2. Kept(t, a, g, {data.client}, {})
      BY <1>17, <2>1, KeptMore
    <2>3. PICK b : b = beginResolvingTCP(t, data, new, sent)
      OBVIOUS
    <2>4. Kept(b, a, g, {}, {})
      BY <1>13, <1>17, <1>19, <2>2, <2>3, BeginKept
    <2> QED BY <1>9, <1>21, <2>3, <2>4, QuietKept
  <1>22. CASE answer.kind # "truncated" /\ Follows(r, answer)
    <2>1. t.resolving[<<w, i>>] = None
      <3>1. CASE w = Udp
        <4>1. chased.resolving[<<w, i>>] = None
          BY <1>1, <1>2, <1>4, <1>6, <1>22, <3>1 DEF Follows, SameTables
        <4> QED BY <1>4, <1>18, <4>1 DEF Forgets, Resolvers
      <3>2. CASE w # Udp
        BY <1>16, <3>2 DEF Idle, Workers
      <3> QED BY <3>1, <3>2
    <2>2. PICK host \in Hosts : host = answer.newhost
      BY <1>10
    <2>3. PICK b : b = continueOrRead(track(t, w, i, [data EXCEPT !.host = host], 1, w),
                                      w, data, sent)
      OBVIOUS
    <2>4. w \in Tcp => Idle(t, w) /\ w \in t.workers
      BY <1>16, <1>20
    <2>5. Kept(b, a, g, {}, {})
      BY <1>13, <1>17, <2>1, <2>3, <2>4, FollowedKept
    <2>6. x = Quiet(b)
      BY <1>9, <1>22, <2>2, <2>3
    <2> QED BY <2>5, <2>6, QuietKept
  <1>23. CASE answer.kind # "truncated" /\ ~Follows(r, answer) /\ answer.host # data.host
    <2>1. entry \in Entry
      <3>1. r.resolving[<<w, id>>].client = c /\ r.clients[c] # None
        BY <1>2, <1>14 DEF Kept, Filing
      <3> QED BY <1>7, <1>14, <3>1 DEF Resolvers
    <2>2. PICK n \in Nat : n = entry.count
      BY <2>1 DEF Entry
    <2>3. PICK b : b = misread(t, w, id, data, n)
      OBVIOUS
    <2>4. Kept(b, a, g, {}, {})
      BY <1>13, <1>16, <1>17, <2>3, MisreadKept
    <2>5. entry # None
      BY <2>1, NoneAssumption
    <2>6. x = Quiet(b)
      BY <1>9, <1>23, <2>2, <2>3, <2>5
    <2> QED BY <2>4, <2>6, QuietKept
  <1>24. w \in Tcp => t.sending[w] = None
    BY <1>15, <1>18 DEF Forgets
  <1>25. CASE ~Follows(r, answer) /\ answer.host = data.host /\ answer.kind = "address"
    <2>1. PICK u : u = cacheDestination(t, data.original)
      OBVIOUS
    <2>2. u \in Resolvers
      BY <1>13, <2>1, CacheOK DEF Data
    <2>3. SameTables(t, u)
      BY <1>13, <2>1 DEF cacheDestination, Resolvers, SameTables
    <2>4. Kept(u, a, g, {data.client}, {w}) /\ Idle(u, new)
      BY <1>17, <1>19, <2>3, KeptSameTables, IdleSame
    <2>5. w \in Tcp => u.sending[w] = None
      BY <1>24, <2>3 DEF SameTables
    <2>6. Answered(Result(finish(u, w, new, sent), respond(data, "address")), a, g)
      BY <1>13, <1>17, <2>2, <2>4, <2>5, LastAnswerKept
    <2>7. x = Result(finish(u, w, new, sent), respond(data, "address"))
      BY <1>9, <1>25, <2>1
    <2> QED BY <2>6, <2>7
  <1>26. CASE ~Follows(r, answer) /\ answer.host = data.host /\ answer.kind = "missing"
    <2>1. Answered(Result(finish(t, w, new, sent), respond(data, "page")), a, g)
      BY <1>13, <1>17, <1>19, <1>24, LastAnswerKept
    <2>2. x = Result(finish(t, w, new, sent), respond(data, "page"))
      BY <1>9, <1>26
    <2> QED BY <2>1, <2>2
  <1> QED BY <1>10, <1>21, <1>22, <1>23, <1>25, <1>26

\* The rest of a query is sent: its lookup is filed where it was.
LEMMA ContinueSendingKept ==
    ASSUME NEW r \in Resolvers, NEW a \in [Clients -> Nat], NEW g, Kept(r, a, g, {}, {}),
           NEW w \in Tcp, NEW x, x = continueSending(r, w)
    PROVE  Kept(x, a, g, {}, {})
  <1>1. PICK data : data = r.sending[w]
    OBVIOUS
  <1>2. PICK entry : entry = r.clients[data.client]
    OBVIOUS
  <1>3. CASE data = None
    <2>1. /\ x.clients = r.clients /\ x.resolving = r.resolving /\ x.sending = r.sending
          /\ x.active = r.active /\ x.waiting = r.waiting /\ x.workers = r.workers
          /\ x.writing = r.writing \ {w}
      BY <1>1, <1>3 DEF continueSending, Resolvers
    <2>2. Filing(x) /\ Tracking(x, a, g) /\ Lining(x, a, g, {})
      BY <2>1 DEF Kept, Filing, Tracking, Lining
    <2>3. Answering(x, a, g, {}) /\ InHand(x, a, g, {}) /\ Timing(x) /\ Busy(x, {})
      BY <2>1 DEF Kept, Answering, InHand, Timing, Busy
    <2>4. Writing(x, a)
      BY <1>1, <1>3, <2>1 DEF Kept, Writing
    <2> QED BY <2>2, <2>3, <2>4 DEF Kept
  <1>4. CASE data # None
    <2>1. data \in Data
      BY <1>1, <1>4 DEF Resolvers
    <2>2. PICK c \in Clients : c = data.client
      BY <2>1 DEF Data
    <2>3. /\ entry # None /\ r.clients[c] = entry /\ entry.worker = w
          /\ data.ask = a[c] /\ w \in r.writing
      BY <1>1, <1>2, <1>4, <2>2 DEF Kept, Writing
    <2>4. PICK i \in Ids : i = entry.id
      BY <2>3 DEF Resolvers, Entry
    <2>5. /\ x.clients = r.clients /\ x.active = r.active /\ x.waiting = r.waiting
          /\ x.workers = r.workers /\ x.writing = r.writing \ {w}
          /\ x.sending = [r.sending EXCEPT ![w] = None]
          /\ x.resolving = [r.resolving EXCEPT ![<<w, i>>] = data]
      BY <1>1, <1>2, <1>4, <2>3, <2>4 DEF continueSending, Resolvers
    <2>6. /\ \A v \in Workers, j \in Ids :
               x.resolving[<<v, j>>] = IF v = w /\ j = i THEN data ELSE r.resolving[<<v, j>>]
          /\ \A v \in Tcp : x.sending[v] = IF v = w THEN None ELSE r.sending[v]
      BY <2>5 DEF Resolvers, Workers
    <2>7. Filing(x)
      BY <2>2, <2>3, <2>4, <2>5, <2>6 DEF Kept, Filing
    <2>8. Tracking(x, a, g)
      <3> SUFFICES ASSUME NEW k \in Clients, x.clients[k] # None
                   PROVE  \E d \in Data :
                            /\ x.resolving[<<x.clients[k].worker, x.clients[k].id>>] = d
                            /\ d.client = k /\ IsOpen(a, g, k, d.ask)
                            /\ \E j \in DOMAIN x.active : x.active[j].client = k
        BY DEF Tracking
      <3>1. PICK d \in Data :
              /\ r.resolving[<<r.clients[k].worker, r.clients[k].id>>] = d
              /\ d.client = k /\ IsOpen(a, g, k, d.ask)
              /\ \E j \in DOMAIN r.active : r.active[j].client = k
        BY <2>5 DEF Kept, Tracking
      <3>2. PICK v \in Workers, j \in Ids : v = r.clients[k].worker /\ j = r.clients[k].id
        <4>1. r.clients[k] \in Entry
          BY <2>5 DEF Resolvers
        <4> QED BY <4>1 DEF Entry
      <3>3. CASE k = c
        <4>1. x.resolving[<<x.clients[k].worker, x.clients[k].id>>] = data
          BY <2>3, <2>4, <2>5, <2>6, <3>2, <3>3
        <4>2. IsOpen(a, g, k, data.ask)
          BY <2>3, <3>1, <3>3 DEF IsOpen
        <4> QED BY <2>1, <2>2, <2>5, <3>1, <3>3, <4>1, <4>2
      <3>4. CASE k # c
        <4>1. v # w
          BY <2>3, <2>5, <3>2, <3>4 DEF Kept, Busy
        <4>2. x.resolving[<<x.clients[k].worker, x.clients[k].id>>] = d
          BY <2>5, <2>6, <3>1, <3>2, <4>1
        <4> QED BY <2>5, <3>1, <4>2
      <3> QED BY <3>3, <3>4
    <2>9. Lining(x, a, g, {}) /\ Answering(x, a, g, {}) /\ InHand(x, a, g, {})
      BY <2>5 DEF Kept, Lining, Answering, InHand
    <2>10. Timing(x) /\ Busy(x, {})
      BY <2>5 DEF Kept, Timing, Busy
    <2>11. Writing(x, a)
      BY <2>5, <2>6 DEF Kept, Writing
    <2> QED BY <2>7, <2>8, <2>9, <2>10, <2>11 DEF Kept
  <1> QED BY <1>3, <1>4

\* What cleanup() takes out of the tables when no TCP worker has the lookup.
Expires(r, u, c) ==
    /\ \A k \in Clients : u.clients[k] = IF k = c THEN None ELSE r.clients[k]
    /\ \A v \in Workers, i \in Ids :
         u.resolving[<<v, i>>] =
           IF r.clients[c] # None /\ v = r.clients[c].worker /\ i = r.clients[c].id
           THEN None ELSE r.resolving[<<v, i>>]
    /\ u.sending = r.sending /\ u.waiting = r.waiting /\ u.workers = r.workers
    /\ u.writing = r.writing
    /\ u.active = outdated(Tail(r.active), c)

\* The lookup of the entry that is too old is in hand, if there is one.
LEMMA ExpiresKept ==
    ASSUME NEW r \in Resolvers, NEW a \in [Clients -> Nat], NEW g, Kept(r, a, g, {}, {}),
           r.active # <<>>, NEW c \in Clients, c = Head(r.active).client,
           r.clients[c] # None => r.clients[c].worker = Udp,
           NEW u, Expires(r, u, c),
           NEW H, H = IF r.clients[c] = None THEN {} ELSE {c}
    PROVE  Kept(u, a, g, H, {})
  <1>1. /\ r.active \in Seq(Active) /\ DOMAIN r.active = 1..Len(r.active)
        /\ Len(r.active) \in Nat
        /\ \A i \in DOMAIN r.active : r.active[i].client \in Clients
    BY Listed
  <1>2. PICK s : s = Tail(r.active)
    OBVIOUS
  <1>3. /\ s \in Seq(Active) /\ DOMAIN s = 1..(Len(r.active) - 1)
        /\ Len(r.active) >= 1 /\ Head(r.active) = r.active[1]
        /\ \A i \in DOMAIN s : s[i] = r.active[i + 1]
    BY <1>1, <1>2
  <1>4. /\ DOMAIN u.active = DOMAIN s
        /\ \A i \in DOMAIN s :
             /\ u.active[i].client = s[i].client /\ u.active[i].worker = s[i].worker
             /\ u.active[i].current <=> s[i].current /\ s[i].client # c
    <2>1. PICK o : o = outdated(s, c)
      OBVIOUS
    <2>2. u.active = o
      BY <1>2, <2>1 DEF Expires
    <2>3. /\ o \in Seq(Active) /\ Len(o) = Len(s)
          /\ \A i \in DOMAIN s :
               /\ o[i].client = s[i].client /\ o[i].worker = s[i].worker
               /\ o[i].current <=> s[i].current /\ s[i].client # c
      BY <1>3, <2>1, Outdated
    <2> QED BY <1>3, <2>2, <2>3
  <1>5. \A i \in DOMAIN u.active :
          /\ i + 1 \in DOMAIN r.active
          /\ u.active[i].client = r.active[i + 1].client
          /\ u.active[i].worker = r.active[i + 1].worker
          /\ u.active[i].current <=> r.active[i + 1].current /\ r.active[i + 1].client # c
    BY <1>1, <1>3, <1>4
  <1>6. \A k \in Clients : u.clients[k] = IF k = c THEN None ELSE r.clients[k]
    BY DEF Expires
  <1>7. \A k \in Clients : r.clients[k] # None =>
          r.clients[k].worker \in Workers /\ r.clients[k].id \in Ids
    BY DEF Resolvers, Entry
  <1>8. Filing(u)
    <2> SUFFICES ASSUME NEW v \in Workers, NEW i \in Ids, u.resolving[<<v, i>>] # None
                 PROVE  /\ u.clients[u.resolving[<<v, i>>].client] # None
                        /\ u.clients[u.resolving[<<v, i>>].client].worker = v
                        /\ u.clients[u.resolving[<<v, i>>].client].id = i
      BY DEF Filing
    <2>1. /\ u.resolving[<<v, i>>] = r.resolving[<<v, i>>]
          /\ ~(r.clients[c] # None /\ v = r.clients[c].worker /\ i = r.clients[c].id)
      BY DEF Expires
    <2>2. PICK k \in Clients : k = r.resolving[<<v, i>>].client
      BY <2>1 DEF Resolvers, Data
    <2>3. r.clients[k] # None /\ r.clients[k].worker = v /\ r.clients[k].id = i
      BY <2>1, <2>2 DEF Kept, Filing
    <2>4. k # c
      BY <2>1, <2>3
    <2> QED BY <1>6, <2>1, <2>2, <2>3, <2>4
  <1>9. Tracking(u, a, g)
    <2> SUFFICES ASSUME NEW k \in Clients, u.clients[k] # None
                 PROVE  \E d \in Data :
                          /\ u.resolving[<<u.clients[k].worker, u.clients[k].id>>] = d
                          /\ d.client = k /\ IsOpen(a, g, k, d.ask)
                          /\ \E i \in DOMAIN u.active : u.active[i].client = k
      BY DEF Tracking
    <2>1. k # c /\ u.clients[k] = r.clients[k] /\ r.clients[k] # None
      BY <1>6
    <2>2. PICK d \in Data :
            /\ r.resolving[<<r.clients[k].worker, r.clients[k].id>>] = d
            /\ d.client = k /\ IsOpen(a, g, k, d.ask)
            /\ \E i \in DOMAIN r.active : r.active[i].client = k
      BY <2>1 DEF Kept, Tracking
    <2>3. PICK v \in Workers, i \in Ids : v = r.clients[k].worker /\ i = r.clients[k].id
      BY <1>7, <2>1
    <2>4. ~(r.clients[c] # None /\ v = r.clients[c].worker /\ i = r.clients[c].id)
      <3> SUFFICES ASSUME r.clients[c] # None, v = r.clients[c].worker, i = r.clients[c].id
                   PROVE  FALSE
        OBVIOUS
      <3>1. r.resolving[<<v, i>>].client = c
        BY DEF Kept, Tracking
      <3> QED BY <2>1, <2>2, <2>3, <3>1
    <2>5. u.resolving[<<v, i>>] = r.resolving[<<v, i>>]
      BY <2>4 DEF Expires
    <2>6. PICK j \in DOMAIN r.active : r.active[j].client = k
      BY <2>2
    <2>7. j # 1
      BY <1>3, <2>1, <2>6
    <2>8. j - 1 \in DOMAIN u.active /\ (j - 1) + 1 = j
      BY <1>1, <1>3, <1>4, <2>7
    <2>9. u.active[j - 1].client = k
      BY <1>5, <2>6, <2>8
    <2> QED BY <2>1, <2>2, <2>3, <2>5, <2>8, <2>9
  <1>10. Lining(u, a, g, H)
    <2>1. \A i \in DOMAIN r.waiting : r.waiting[i].client \in Clients
      BY Listed
    <2> QED BY <1>6, <2>1 DEF Kept, Lining, Expires
  <1>11. Answering(u, a, g, H)
    BY <1>6 DEF Kept, Answering, Expires
  <1>12. InHand(u, a, g, H)
    <2> SUFFICES ASSUME r.clients[c] # None
                 PROVE  IsOpen(a, g, c, a[c])
      BY <1>6 DEF InHand
    <2> QED BY DEF Kept, Tracking, IsOpen
  <1>13. Timing(u)
    <2>1. ASSUME NEW i \in DOMAIN u.active, u.active[i].worker \in Tcp
          PROVE  /\ u.active[i].current
                 /\ u.clients[u.active[i].client] # None
                 /\ u.clients[u.active[i].client].worker = u.active[i].worker
      <3>1. PICK j \in DOMAIN r.active : j = i + 1
        BY <1>5
      <3>2. PICK k \in Clients : k = r.active[j].client
        BY <1>1
      <3>3. /\ r.active[j].current /\ r.clients[k] # None
            /\ r.clients[k].worker = r.active[j].worker
        BY <1>5, <2>1, <3>1, <3>2 DEF Kept, Timing
      <3>4. k # c
        BY <1>5, <2>1, <3>1, <3>3, ResolverAssumption
      <3> QED BY <1>5, <1>6, <3>1, <3>2, <3>3, <3>4
    <2>2. ASSUME NEW i \in DOMAIN u.active, NEW j \in DOMAIN u.active,
                 u.active[i].current, u.active[j].current,
                 u.active[i].client = u.active[j].client
          PROVE  i = j
      <3>1. i + 1 = j + 1
        BY <1>5, <2>2 DEF Kept, Timing
      <3> QED BY <1>3, <1>4, <3>1
    <2> QED BY <2>1, <2>2 DEF Timing
  <1>14. Writing(u, a)
    <2> SUFFICES ASSUME NEW v \in Tcp, r.sending[v] # None
                 PROVE  /\ v \in u.workers /\ v \in u.writing
                        /\ u.clients[r.sending[v].client] # None
                        /\ u.clients[r.sending[v].client].worker = v
                        /\ r.sending[v].ask = a[r.sending[v].client]
      BY DEF Writing, Expires
    <2>1. PICK k \in Clients : k = r.sending[v].client
      BY DEF Resolvers, Data
    <2>2. /\ v \in r.workers /\ v \in r.writing /\ r.clients[k] # None
          /\ r.clients[k].worker = v /\ r.sending[v].ask = a[k]
      BY <2>1 DEF Kept, Writing
    <2>3. k # c
      BY <2>2, ResolverAssumption
    <2> QED BY <1>6, <2>1, <2>2, <2>3 DEF Expires
  <1>15. Busy(u, {})
    <2>1. \A v \in u.workers : \E k \in Clients : u.clients[k] # None /\ u.clients[k].worker = v
      <3> SUFFICES ASSUME NEW v \in r.workers
                   PROVE  \E k \in Clients : u.clients[k] # None /\ u.clients[k].worker = v
        BY DEF Expires
      <3>1. PICK k \in Clients : r.clients[k] # None /\ r.clients[k].worker = v
        BY DEF Kept, Busy
      <3>2. k # c
        BY <3>1, ResolverAssumption DEF Resolvers
      <3> QED BY <1>6, <3>1, <3>2
    <2> QED BY <1>6, <2>1 DEF Kept, Busy
  <1> QED BY <1>8, <1>9, <1>10, <1>11, <1>12, <1>13, <1>14, <1>15 DEF Kept

\* The response to the lookup in hand is given.
LEMMA RespondKept ==
    ASSUME NEW r \in Resolvers, NEW a \in [Clients -> Nat],
           NEW g \in [Clients -> [Asks -> Nat]], NEW data \in Data,
           Kept(r, a, g, {data.client}, {}), data.ask = a[data.client],
           NEW kind \in {"address", "page"}
    PROVE  Answered(Result(r, respond(data, kind)), a, g)
  <1>1. PICK c \in Clients : c = data.client
    BY DEF Data
  <1>2. PICK y \in Response : y = respond(data, kind)
    BY Responding
  <1>3. y # None /\ y.client = c /\ y.ask = a[c] /\ y.kind = kind
    BY <1>1, <1>2, NoneAssumption DEF respond
  <1>4. PICK h : h = [g EXCEPT ![c][a[c]] = @ + 1]
    OBVIOUS
  <1>5. enacted(g, y) = h
    BY <1>3, <1>4 DEF enacted
  <1>6. Kept(r, a, g, {c}, {})
    BY <1>1
  <1>7. Kept(r, a, h, {}, {})
    BY <1>4, <1>6, RespondedKept
  <1>8. PICK x : x = Result(r, y)
    OBVIOUS
  <1>9. x.rs = r /\ x.response = y
    BY <1>8 DEF Result
  <1> QED BY <1>2, <1>3, <1>5, <1>7, <1>8, <1>9 DEF Answered

\* A lookup that is too old is asked for again, or there is a page for it.
LEMMA CleanupKept ==
    ASSUME NEW r \in Resolvers, NEW a \in [Clients -> Nat],
           NEW g \in [Clients -> [Asks -> Nat]], Kept(r, a, g, {}, {}), r.active # <<>>,
           r.clients[Head(r.active).client] # None =>
             r.clients[Head(r.active).client].worker = Udp
    PROVE  Answered(cleanup(r), a, g)
  <1>1. Head(r.active) \in Active /\ Head(r.active) = r.active[1] /\ 1 \in DOMAIN r.active
    <2>1. r.active \in Seq(Active)
      BY Listed
    <2> QED BY <2>1
  <1>2. PICK c \in Clients : c = Head(r.active).client
    BY <1>1 DEF Active
  <1>3. Head(r.active).worker = Udp
    BY <1>1, <1>2, ResolverAssumption DEF Kept, Timing, Active, Workers
  <1>4. PICK entry : entry = r.clients[c]
    OBVIOUS
  <1>5. PICK t \in Resolvers : t = expired(r)
    BY ExpiredOK
  <1>6. /\ t.clients = [r.clients EXCEPT ![c] = None] /\ t.resolving = r.resolving
        /\ t.sending = r.sending /\ t.waiting = r.waiting /\ t.workers = r.workers
        /\ t.writing = r.writing /\ t.active = outdated(Tail(r.active), c)
    BY <1>2, <1>5 DEF expired, Resolvers
  <1>7. CASE entry = None
    <2>1. Expires(r, t, c)
      BY <1>4, <1>6, <1>7 DEF Expires, Resolvers
    <2>2. Kept(t, a, g, {}, {})
      BY <1>2, <1>4, <1>7, <2>1, ExpiresKept
    <2>3. cleanup(r) = Quiet(t)
      BY <1>2, <1>3, <1>4, <1>5, <1>7 DEF cleanup, hangUp, expired
    <2> QED BY <2>2, <2>3, QuietKept
  <1>8. CASE entry # None
    <2>1. entry \in Entry /\ entry.worker = Udp /\ Udp \in Workers
      BY <1>2, <1>4, <1>8 DEF Resolvers, Workers
    <2>2. PICK i \in Ids, n \in Nat : i = entry.id /\ n = entry.count + 1
      <3>1. entry.id \in Ids /\ entry.count + 1 \in Nat
        BY <2>1 DEF Entry
      <3> QED BY <3>1
    <2>3. PICK data \in Data :
            /\ r.resolving[<<Udp, i>>] = data /\ data.client = c
            /\ IsOpen(a, g, c, data.ask)
      BY <1>4, <1>8, <2>1, <2>2 DEF Kept, Tracking
    <2>4. data # None
      BY NoneAssumption
    <2>5. PICK u : u = [t EXCEPT !.resolving[<<Udp, i>>] = None]
      OBVIOUS
    <2>6. u \in Resolvers
      BY <2>1, <2>5 DEF Resolvers
    <2>7. Expires(r, u, c)
      BY <1>4, <1>6, <1>8, <2>1, <2>2, <2>5 DEF Expires, Resolvers
    <2>8. Kept(u, a, g, {c}, {})
      BY <1>2, <1>4, <1>8, <2>1, <2>7, ExpiresKept
    <2>9. data.ask = a[c]
      BY <2>3 DEF IsOpen
    <2>10. cleanup(r) = IF entry.count < Retries THEN Quiet(retransmit(u, data, i, n))
                        ELSE Result(u, respond(data, "page"))
      BY <1>2, <1>3, <1>4, <1>5, <1>8, <2>1, <2>2, <2>3, <2>4, <2>5
         DEF cleanup, hangUp, expired
    <2>11. Kept(retransmit(u, data, i, n), a, g, {}, {})
      <3>1. PICK h : h = sendQuery(u, Udp, i, data.original, n)
        OBVIOUS
      <3>2. h \in Resolvers /\ SameTables(u, h)
        BY <2>1, <2>6, <3>1, SendQueryOK DEF Data
      <3>3. PICK d \in Data : d = renewed(data)
        BY Renewed
      <3>4. d.client = c /\ d.ask = a[d.client]
        BY <2>3, <2>9, <3>3, Renewed
      <3>5. Kept(h, a, g, {d.client}, {})
        BY <2>8, <3>2, <3>4, KeptSameTables
      <3>6. h.resolving[<<Udp, i>>] = None /\ Udp \notin Tcp
        BY <2>1, <2>5, <3>2, ResolverAssumption DEF SameTables, Resolvers
      <3>7. PICK v : v = track(h, Udp, i, d, n, Udp)
        OBVIOUS
      <3>8. Kept(v, a, g, {}, {} \ {Udp})
        BY <2>1, <3>2, <3>4, <3>5, <3>6, <3>7, TrackKept
      <3>9. Kept(v, a, g, {}, {})
        BY <3>8, KeptMore
      <3> QED BY <3>1, <3>3, <3>7, <3>9 DEF retransmit
    <2>12. Answered(Result(u, respond(data, "page")), a, g)
      <3>1. Kept(u, a, g, {data.client}, {}) /\ data.ask = a[data.client]
        BY <2>3, <2>8, <2>9
      <3> QED BY <2>6, <3>1, RespondKept
    <2> QED BY <2>10, <2>11, <2>12, QuietKept
  <1> QED BY <1>7, <1>8

\* A new lookup has its response at once, or is asked for.
LEMMA StartResolvingKept ==
    ASSUME NEW r \in Resolvers, NEW a \in [Clients -> Nat],
           NEW g \in [Clients -> [Asks -> Nat]], NEW data \in Data,
           Kept(r, a, g, {data.client}, {}), data.ask = a[data.client],
           r.resolving[<<Udp, r.next[Udp]>>] = None
    PROVE  Answered(startResolving(r, data), a, g)
  <1>1. data.original \in Hosts /\ Udp \in Workers /\ Udp \notin Tcp
    BY ResolverAssumption DEF Data, Workers
  <1>2. PICK i \in Ids : i = r.next[Udp]
    BY <1>1 DEF Resolvers
  <1>3. PICK h : h = resolveHost(r, Udp, data.original)
    OBVIOUS
  <1>4. h \in Resolvers /\ SameTables(r, h)
    BY <1>1, <1>3, ResolveHostOK
  <1>5. Kept(h, a, g, {data.client}, {}) /\ h.resolving[<<Udp, i>>] = None
    BY <1>2, <1>4, KeptSameTables DEF SameTables
  <1>6. PICK t : t = track(h, Udp, i, data, 1, Udp)
    OBVIOUS
  <1>7. Kept(t, a, g, {}, {} \ {Udp})
    BY <1>1, <1>4, <1>5, <1>6, TrackKept, 1 \in Nat
  <1>8. Kept(t, a, g, {}, {})
    BY <1>7, KeptMore
  <1>9. ASSUME NEW kind \in {"address", "page"}
         PROVE  Answered(Result(r, respond(data, kind)), a, g)
    BY RespondKept
  <1>10. startResolving(r, data) =
          CASE data.original \in r.cache -> Result(r, respond(data, "address"))
            [] data.original \in Bad \ r.cache -> Result(r, respond(data, "page"))
            [] OTHER -> Quiet(t)
    BY <1>2, <1>3, <1>6 DEF startResolving
  <1>11. Answered(Quiet(t), a, g)
    BY <1>8, QuietKept
  <1> QED BY <1>9, <1>10, <1>11

-----------------------------------------------------------------------------
(* Until a lookup times out while a TCP worker has it.                     *)

LEMMA TakeKept ==
    ASSUME NEW x, Take(x), NEW a, Answered(x, a, given)
    PROVE  running' /\ Kept(rs', a, given', {}, {})
  BY DEF Take, Answered, enacted

\* No TCP worker has the lookup that is too old, and its entry is not under the
\* socket of one.
LEMMA HeldByUdp ==
    ASSUME ResolverOK, Kept(rs, asks, given, {}, {}), timeoutResolver, ~tcpTimedOut'
    PROVE  /\ rs.clients[Head(rs.active).client] # None =>
                rs.clients[Head(rs.active).client].worker = Udp
           /\ Head(rs.active).worker = Udp
  <1>1. rs \in Resolvers /\ rs.active # <<>> /\ Holder = Udp
    BY DEF ResolverOK, timeoutResolver
  <1>2. rs.clients[Head(rs.active).client] # None =>
          rs.clients[Head(rs.active).client].worker = Udp
    BY <1>1 DEF Holder
  <1>3. Head(rs.active) \in Active /\ Head(rs.active) = rs.active[1] /\ 1 \in DOMAIN rs.active
    <2>1. rs.active \in Seq(Active)
      BY <1>1, Listed
    <2> QED BY <1>1, <2>1
  <1>4. Head(rs.active).worker \notin Tcp
    BY <1>2, <1>3, ResolverAssumption DEF Kept, Timing
  <1> QED BY <1>2, <1>3, <1>4 DEF Active, Workers

\* A name that nothing refers to is an idle worker's.
LEMMA FreeIdle ==
    ASSUME NEW new \in FreeTcp
    PROVE  new \in Tcp /\ new \notin rs.workers /\ Idle(rs, new)
  BY DEF FreeTcp, Idle

LEMMA KeptStep ==
    ASSUME ResolverOK, running, Kept(rs, asks, given, {}, {}), ~tcpTimedOut', [Next]_vars
    PROVE  running' /\ Kept(rs', asks', given', {}, {})
  <1>0. /\ rs \in Resolvers /\ asks \in [Clients -> Nat]
        /\ given \in [Clients -> [Asks -> Nat]]
    BY DEF ResolverOK
  <1>1. ASSUME NEW c \in Clients, beginQuery(c)
        PROVE  running' /\ Kept(rs', asks', given', {}, {})
    <2>1. /\ asks[c] \in Nat /\ asks[c] < MaxAsks /\ {n \in 1..asks[c] : given[c][n] = 0} = {}
          /\ rs.resolving[<<Udp, rs.next[Udp]>>] = None
      BY <1>0, <1>1 DEF beginQuery, Open, FreshId
    <2>2. PICK host \in Hosts \ Aliases :
            Take(startResolving(rs, [client |-> c, ask |-> asks[c] + 1,
                                     original |-> host, host |-> host]))
      BY <1>1 DEF beginQuery
    <2>3. PICK data \in Data : data = [client |-> c, ask |-> asks[c] + 1,
                                       original |-> host, host |-> host]
      BY <2>1, NewData
    <2>4. PICK b \in [Clients -> Nat] : b = [asks EXCEPT ![c] = @ + 1]
      <3>1. asks[c] + 1 \in Nat
        BY <2>1
      <3>2. [asks EXCEPT ![c] = asks[c] + 1] \in [Clients -> Nat]
        BY <1>0, <3>1
      <3> QED BY <3>2
    <2>5. asks' = b
      BY <1>1, <2>4 DEF beginQuery
    <2>6. Kept(rs, b, given, {c}, {}) /\ b[c] = asks[c] + 1
      BY <1>0, <2>1, <2>4, QueryKept
    <2>7. data.client = c /\ data.ask = b[c]
      BY <2>3, <2>6
    <2>8. Kept(rs, b, given, {data.client}, {}) /\ data.ask = b[data.client]
      BY <2>6, <2>7
    <2>9. PICK x : x = startResolving(rs, data)
      OBVIOUS
    <2>10. Answered(x, b, given)
      BY <1>0, <2>1, <2>8, <2>9, StartResolvingKept
    <2> QED BY <2>2, <2>3, <2>5, <2>9, <2>10, TakeKept
  <1>2. ASSUME NEW w \in Workers, readAnswer(w)
        PROVE  running' /\ Kept(rs', asks', given', {}, {})
    <2>1. PICK q \in {x \in rs.queries : x.worker = w}, kind \in AnswerKinds(w),
               follow \in BOOLEAN, newhost \in Aliases, sent \in BOOLEAN, new \in FreeTcp :
            /\ follow => kind = "missing" /\ FreshId /\ rs.resolving[<<w, q.id>>] # None
            /\ sent \/ w # Udp \/ kind = "truncated"
            /\ Take(getResponse([rs EXCEPT !.queries = @ \ {q}], w,
                                [id |-> q.id, host |-> q.host, kind |-> kind,
                                 follow |-> follow, newhost |-> newhost], new, sent))
      BY <1>2, Zenon DEF readAnswer
    <2>2. PICK r \in Resolvers : r = [rs EXCEPT !.queries = @ \ {q}]
      BY <1>0, ReadOK
    <2>3. PICK answer : answer = [id |-> q.id, host |-> q.host, kind |-> kind,
                                  follow |-> follow, newhost |-> newhost]
      OBVIOUS
    <2>4. q \in Query /\ newhost \in Hosts
      BY <1>0, AliasesAssumption DEF Resolvers
    <2>5. answer \in Answers
      BY <2>3, <2>4 DEF Answers, AnswerKinds, Query
    <2>6. SameTables(rs, r) /\ r.next = rs.next
      BY <1>0, <2>2 DEF SameTables, Resolvers
    <2>7. Kept(r, asks, given, {}, {})
      BY <2>6, KeptSameTables
    <2>8. new \in Tcp /\ Idle(r, new)
      BY <2>6, FreeIdle, IdleSame
    <2>9. w \in Tcp => w \in r.workers /\ r.sending[w] = None
      <3> SUFFICES ASSUME w \in Tcp
                   PROVE  w \in r.workers /\ r.sending[w] = None
        OBVIOUS
      <3>1. w \in rs.workers /\ w \notin rs.writing
        BY <1>2, ResolverAssumption DEF readAnswer, Readable
      <3>2. rs.sending[w] = None
        BY <3>1 DEF Kept, Writing
      <3> QED BY <2>6, <3>1, <3>2 DEF SameTables
    <2>10. answer.kind = "truncated" => w = Udp
      BY <2>3 DEF AnswerKinds
    <2>11. r.resolving[<<w, answer.id>>] # None /\ answer.follow /\ w = Udp =>
             r.resolving[<<w, r.next[w]>>] = None
      BY <2>1, <2>3, <2>6 DEF FreshId, SameTables
    <2>12. PICK x : x = getResponse(r, w, answer, new, sent)
      OBVIOUS
    <2>13. Answered(x, asks, given)
      BY <1>0, <2>5, <2>7, <2>8, <2>9, <2>10, <2>11, <2>12, GetResponseKept
    <2>14. Take(x) /\ asks' = asks
      BY <1>2, <2>1, <2>2, <2>3, <2>12 DEF readAnswer
    <2> QED BY <2>13, <2>14, TakeKept
  <1>3. ASSUME NEW w \in Tcp, readNothing(w)
        PROVE  running' /\ Kept(rs', asks', given', {}, {})
    <2>1. PICK sent \in BOOLEAN, new \in FreeTcp : rs' = finish(rs, w, new, sent)
      BY <1>3 DEF readNothing, unreadable
    <2>2. new \in Tcp /\ Idle(rs, new)
      BY FreeIdle
    <2>3. rs.sending[w] = None
      BY <1>3 DEF readNothing, Readable, Kept, Writing
    <2>4. Kept(rs, asks, given, {}, {w}) /\ w \in Workers
      BY KeptMore DEF Workers
    <2>5. Kept(rs', asks, given, {}, {})
      BY <1>0, <2>1, <2>2, <2>3, <2>4, FinishKept
    <2> QED BY <1>3, <2>5 DEF readNothing
  <1>4. ASSUME NEW w \in Tcp, flushResolver(w)
        PROVE  running' /\ Kept(rs', asks', given', {}, {})
    <2>1. Kept(rs', asks, given, {}, {})
      BY <1>0, <1>4, ContinueSendingKept DEF flushResolver
    <2> QED BY <1>4, <2>1 DEF flushResolver
  <1>5. ASSUME timeoutResolver
        PROVE  running' /\ Kept(rs', asks', given', {}, {})
    <2>1. rs.active # <<>> /\ Take(cleanup(rs)) /\ asks' = asks
      BY <1>5 DEF timeoutResolver
    <2>2. rs.clients[Head(rs.active).client] # None =>
            rs.clients[Head(rs.active).client].worker = Udp
      BY <1>5, HeldByUdp
    <2>3. Answered(cleanup(rs), asks, given)
      BY <1>0, <2>1, <2>2, CleanupKept
    <2> QED BY <2>1, <2>3, TakeKept
  <1>6. ASSUME forgetNames
        PROVE  running' /\ Kept(rs', asks', given', {}, {})
    <2>1. SameTables(rs, rs')
      BY <1>0, <1>6 DEF forgetNames, expireCache, SameTables, Resolvers
    <2> QED BY <1>6, <2>1, KeptSameTables DEF forgetNames
  <1>7. ASSUME UNCHANGED vars
        PROVE  running' /\ Kept(rs', asks', given', {}, {})
    BY <1>7 DEF vars
  <1> QED BY <1>1, <1>2, <1>3, <1>4, <1>5, <1>6, <1>7 DEF Next

LEMMA InitKept ==
    ASSUME Init
    PROVE  running /\ Kept(rs, asks, given, {}, {})
  <1>1. rs = NewResolver
    BY DEF Init
  <1>2. /\ \A c \in Clients : rs.clients[c] = None
        /\ \A w \in Workers, i \in Ids : rs.resolving[<<w, i>>] = None
        /\ \A w \in Tcp : rs.sending[w] = None
        /\ rs.active = <<>> /\ rs.waiting = <<>> /\ rs.workers = {}
    BY <1>1 DEF NewResolver
  <1>3. Filing(rs) /\ Tracking(rs, asks, given) /\ Lining(rs, asks, given, {})
    BY <1>2 DEF Filing, Tracking, Lining
  <1>4. Timing(rs) /\ Writing(rs, asks) /\ Busy(rs, {}) /\ InHand(rs, asks, given, {})
    BY <1>2 DEF Timing, Writing, Busy, InHand
  <1>5. Answering(rs, asks, given, {})
    <2>1. \A c \in Clients, n \in Asks : asks[c] = 0 /\ given[c][n] = 0
      BY DEF Init
    <2>2. \A c \in Clients : asks[c] = 0
      BY DEF Init
    <2>3. \A n \in Asks : n \in Nat /\ n # 0 /\ ~(n < 0) /\ n > 0
      BY DEF Asks
    <2>4. MaxAsks \in Nat /\ 0 <= MaxAsks
      BY ResolverAssumption
    <2> QED BY <2>1, <2>2, <2>3, <2>4 DEF Answering
  <1> QED BY <1>3, <1>4, <1>5 DEF Init, Kept

\* What holds until then.
Sound ==
    /\ ResolverOK
    /\ ~tcpTimedOut => /\ running
                       /\ Kept(rs, asks, given, {}, {})
                       /\ Counted(rs, TRUE)

LEMMA SoundStep ==
    ASSUME Sound, [Next]_vars
    PROVE  Sound'
  <1>1. ResolverOK'
    BY TypesStep DEF Sound
  <1>2. ASSUME ~tcpTimedOut'
        PROVE  running' /\ Kept(rs', asks', given', {}, {}) /\ Counted(rs', TRUE)
    <2>1. ~tcpTimedOut
      BY <1>2 DEF Next, beginQuery, readAnswer, readNothing, flushResolver, timeoutResolver,
                  forgetNames, vars
    <2>2. running /\ Kept(rs, asks, given, {}, {}) /\ Counted(rs, TRUE) /\ ResolverOK
      BY <2>1 DEF Sound
    <2>3. running' /\ Kept(rs', asks', given', {}, {})
      BY <1>2, <2>2, KeptStep
    <2>4. timeoutResolver => Head(rs.active).worker = Udp
      BY <1>2, <2>2, HeldByUdp
    <2>5. Counted(rs', TRUE)
      BY <2>2, <2>4, CountedStep
    <2> QED BY <2>3, <2>5
  <1> QED BY <1>1, <1>2 DEF Sound

LEMMA Soundness == Spec => []Sound
  <1>1. Init => Sound
    BY InitOK, InitKept, InitCounted DEF Sound
  <1>2. Sound /\ [Next]_vars => Sound'
    BY SoundStep
  <1> QED BY <1>1, <1>2, PTL DEF Spec

\* A client whose lookup has no response yet is in the list that cleanup() reads or
\* in the line for a TCP worker, until a lookup times out while a TCP worker has it
\* (track and its callers).
THEOREM NobodyIsForgotten == Spec => []NobodyForgotten
  <1>1. Sound => NobodyForgotten
    <2> SUFFICES ASSUME Sound, ~tcpTimedOut, NEW c \in Clients, NEW n \in Open(c)
                 PROVE  Timed(c) \/ InLine(c)
      BY DEF NobodyForgotten
    <2>1. Kept(rs, asks, given, {}, {}) /\ asks \in [Clients -> Nat]
      BY DEF Sound, ResolverOK
    <2>2. n \in 1..asks[c] /\ given[c][n] = 0 /\ asks[c] \in Nat /\ asks[c] <= MaxAsks
      BY <2>1 DEF Open, Kept, Answering
    <2>3. n \in Asks
      BY <2>2, ResolverAssumption DEF Asks
    <2>4. ~(n < asks[c])
      BY <2>1, <2>2, <2>3 DEF Kept, Answering
    <2>5. n = asks[c]
      BY <2>2, <2>4
    <2>6. rs.clients[c] # None \/ InLine(c)
      BY <2>1, <2>2, <2>3, <2>5 DEF Kept, Answering, InLine
    <2> QED BY <2>1, <2>6 DEF Kept, Tracking, Timed
  <1> QED BY <1>1, Soundness, PTL

\* A lookup has one response however often it is asked for, answered late or twice,
\* until a lookup times out while a TCP worker has it (getResponse and cleanup both
\* take the lookup out of `resolving').
THEOREM OneResponse == Spec => []AtMostOneResponse
  <1>1. Sound => AtMostOneResponse
    <2> SUFFICES ASSUME Sound, ~tcpTimedOut, NEW c \in Clients, NEW n \in Asks
                 PROVE  given[c][n] <= 1
      BY DEF AtMostOneResponse
    <2>1. /\ asks[c] \in Nat /\ n \in Nat
          /\ n < asks[c] => given[c][n] = 1
          /\ n > asks[c] => given[c][n] = 0
          /\ n = asks[c] => given[c][n] = 1 \/ given[c][n] = 0
      BY DEF Sound, ResolverOK, Kept, Answering, Asks
    <2> QED BY <2>1
  <1> QED BY <1>1, Soundness, PTL

\* A wrong answer always finds the entry of its client, so the process goes on, until
\* a lookup times out while a TCP worker has it (getResponse, manager.py:303).
THEOREM ProcessRuns == Spec => []KeepsRunning
  <1>1. Sound => KeepsRunning
    BY DEF Sound, KeepsRunning
  <1> QED BY <1>1, Soundness, PTL

\* While lookups wait for a TCP worker, a lookup that has one is timed, if there is a
\* place for one at all and until one times out there (beginResolvingTCP and
\* notifyClose; the places are MaxWorkers - 1).
THEOREM TheLineMoves == ASSUME MaxWorkers > 1
                        PROVE  Spec => []LineMoves
  <1>1. Sound => LineMoves
    <2> SUFFICES ASSUME Sound, ~tcpTimedOut, rs.waiting # <<>>
                 PROVE  \E c \in Clients :
                          /\ rs.clients[c] # None
                          /\ rs.clients[c].worker \in Tcp
                          /\ Timed(c)
      BY DEF LineMoves
    <2>1. rs \in Resolvers /\ Kept(rs, asks, given, {}, {}) /\ Counted(rs, TRUE)
      BY DEF Sound, ResolverOK
    <2>2. rs.workers # {}
      <3>1. rs.worker_count = MaxWorkers /\ Cardinality(rs.workers) + 1 = MaxWorkers
        BY <2>1 DEF Counted
      <3> SUFFICES ASSUME rs.workers = {}
                   PROVE  FALSE
        OBVIOUS
      <3>2. Cardinality(rs.workers) = 0
        BY FS_EmptySet
      <3> QED BY <3>1, <3>2
    <2>3. PICK w \in Tcp : w \in rs.workers
      BY <2>1, <2>2 DEF Resolvers
    <2>4. PICK c \in Clients : rs.clients[c] # None /\ rs.clients[c].worker = w
      BY <2>1, <2>3 DEF Kept, Busy
    <2> QED BY <2>1, <2>3, <2>4 DEF Kept, Tracking, Timed
  <1> QED BY <1>1, Soundness, PTL
=============================================================================

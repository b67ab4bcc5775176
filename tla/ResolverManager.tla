--------------------------- MODULE ResolverManager ---------------------------
(***************************************************************************)
(* Name resolution: reactor/resolver/manager.py and the DNS clients of     *)
(* reactor/resolver/worker.py.  One UDP worker asks for every name; an     *)
(* answer that is truncated is asked for again by a TCP worker of its own, *)
(* of which there are a limited number.                                    *)
(*                                                                         *)
(* The manager is a value; an operation returns it with the response, if   *)
(* there is one, that the reactor enacts.  The list `active' is in the     *)
(* order of time; the time that the code keeps in `clients' to find an     *)
(* entry of the list again is here a mark in that entry.                   *)
(***************************************************************************)
EXTENDS Integers, Sequences, FiniteSets, SequencesExt

CONSTANTS Clients,     \* those names are looked up for
          Hosts,       \* host names
          Bad,         \* those that are refused at once
          Udp, Tcp,    \* the UDP worker and the TCP workers
          MaxWorkers, Retries,
          MaxChain,    \* how many aliases are followed: 10
          LastId,      \* the identifiers of a worker are 1..LastId
          MaxAsks,     \* bound: lookups of each client
          None

ASSUME ResolverAssumption ==
    /\ Bad \subseteq Hosts
    /\ Udp \notin Tcp /\ IsFiniteSet(Tcp)
    /\ MaxWorkers \in Nat \ {0} /\ Retries \in Nat /\ MaxChain \in Nat
    /\ LastId \in Nat \ {0} /\ MaxAsks \in Nat

Workers == Tcp \cup {Udp}
Ids == 1..LastId
Asks == 1..MaxAsks

\* What is kept for a lookup: the decision it is for, the name in it and the
\* name that is now asked for.
Data == [client : Clients, ask : Asks, original : Hosts, host : Hosts]

Entry == [worker : Workers, id : Ids, count : Nat]
Active == [client : Clients, worker : Workers, current : BOOLEAN]
Query == [worker : Workers, id : Ids, host : Hosts, attempt : Nat]

\* What the reactor is told: the name has an address, there is a page that says
\* that it has none, or the process stopped.
Response == [client : Clients, ask : Asks, kind : {"address", "page", "error"}]

ASSUME NoneAssumption == None \notin Data \cup Entry \cup Response

Resolvers ==
    [clients   : [Clients -> Entry \cup {None}],
     resolving : [Workers \X Ids -> Data \cup {None}],
     sending   : [Tcp -> Data \cup {None}],
     active    : Seq(Active),
     waiting   : Seq(Data),
     workers   : SUBSET Tcp,
     worker_count : Int,
     cache     : SUBSET Hosts,
     chained   : [Ids -> Nat],
     next      : [Workers -> Ids],
     reading   : SUBSET Tcp, writing : SUBSET Tcp,
     queries   : SUBSET Query]

NewResolver ==
    [clients |-> [c \in Clients |-> None],
     resolving |-> [k \in Workers \X Ids |-> None],
     sending |-> [w \in Tcp |-> None],
     active |-> <<>>, waiting |-> <<>>, workers |-> {}, worker_count |-> 1,
     cache |-> {}, chained |-> [i \in Ids |-> 0], next |-> [w \in Workers |-> 1],
     reading |-> {}, writing |-> {}, queries |-> {}]

Result(rs, response) == [rs |-> rs, response |-> response]
Quiet(rs) == Result(rs, None)
respond(data, kind) == [client |-> data.client, ask |-> data.ask, kind |-> kind]
-----------------------------------------------------------------------------
(* Asking.                                                                 *)

sendQuery(rs, w, id, host, attempt) ==
    [rs EXCEPT !.queries =
       @ \cup {[worker |-> w, id |-> id, host |-> host, attempt |-> attempt]}]

\* A variant: the identifiers do not come round.
resolveHost_NeverRound(rs, w, host) ==
    [sendQuery(rs, w, rs.next[w], host, 1) EXCEPT !.next[w] = @ + 1]

\* A new query takes the next identifier of its worker; they come round.
resolveHost(rs, w, host) ==
    [sendQuery(rs, w, rs.next[w], host, 1) EXCEPT !.next[w] = (@ % LastId) + 1]

\* The entries of a client in `active' are no longer found from `clients'.
outdated(active, c) ==
    [i \in DOMAIN active |->
       IF active[i].client = c THEN [active[i] EXCEPT !.current = FALSE] ELSE active[i]]

\* A lookup is entered in the three tables; `sock' is the socket it is filed under.
track(rs, w, id, data, count, sock) ==
    [rs EXCEPT
       !.resolving[<<w, id>>] = data,
       !.clients[data.client] = [worker |-> w, id |-> id, count |-> count],
       !.active = Append(outdated(@, data.client),
                         [client |-> data.client, worker |-> sock, current |-> TRUE])]

\* The name of a decision, whatever alias of it was asked for last.
renewed(data) == [data EXCEPT !.host = data.original]

\* A new lookup: cached, refused, or asked for.
startResolving(rs, data) ==
    CASE data.original \in rs.cache -> Result(rs, respond(data, "address"))
      [] data.original \in Bad \ rs.cache -> Result(rs, respond(data, "page"))
      [] OTHER -> Quiet(track(resolveHost(rs, Udp, data.original), Udp, rs.next[Udp],
                              data, 1, Udp))

\* A variant: the query that is sent again is not timed.
retransmit_NotTimed(rs, data, id, count) ==
    [track(sendQuery(rs, Udp, id, data.original, count), Udp, id, renewed(data), count, Udp)
       EXCEPT !.active = rs.active]

\* The query is sent again, by UDP and under the same identifier.
retransmit(rs, data, id, count) ==
    track(sendQuery(rs, Udp, id, data.original, count), Udp, id, renewed(data), count, Udp)

\* A TCP worker asks again; its socket is still connecting unless `sent'.
newTCPResolver(rs, data, w, sent) ==
    LET begun == [rs EXCEPT !.workers = @ \cup {w}, !.next[w] = 1]
        asked == track(resolveHost(begun, w, data.original), w, 1, renewed(data), 1, Udp)
    IN  IF sent THEN [asked EXCEPT !.reading = @ \cup {w}]
        ELSE [asked EXCEPT !.writing = @ \cup {w}, !.sending[w] = renewed(data)]

\* A variant: one worker too many.
beginResolvingTCP_OneTooMany(rs, data, w, sent) ==
    IF rs.worker_count <= MaxWorkers
    THEN [newTCPResolver(rs, data, w, sent) EXCEPT !.worker_count = @ + 1]
    ELSE [rs EXCEPT !.waiting = Append(@, data)]

\* An answer was truncated: another worker asks, at once or when there is a place.
beginResolvingTCP(rs, data, w, sent) ==
    IF rs.worker_count < MaxWorkers
    THEN [newTCPResolver(rs, data, w, sent) EXCEPT !.worker_count = @ + 1]
    ELSE [rs EXCEPT !.waiting = Append(@, data)]

\* A variant: those that wait are left waiting.
notifyClose_ServesNobody(rs, w, sent) == [rs EXCEPT !.worker_count = @ - 1]

\* The worker that is closed leaves its place to the first that waits.
notifyClose(rs, w, sent) ==
    IF rs.worker_count >= MaxWorkers /\ rs.waiting # <<>>
    THEN newTCPResolver([rs EXCEPT !.waiting = Tail(@)], Head(rs.waiting), w, sent)
    ELSE [rs EXCEPT !.worker_count = @ - 1]
-----------------------------------------------------------------------------
(* Answers.                                                                *)

hangUp(rs, w) ==
    IF w = Udp THEN rs
    ELSE [rs EXCEPT !.workers = @ \ {w}, !.queries = {q \in @ : q.worker # w}]

closeWorker(rs, w) == [hangUp(rs, w) EXCEPT !.reading = @ \ {w}, !.writing = @ \ {w}]

\* An answer that ends a lookup, or cannot be parsed, ends its TCP worker.
finish(rs, w, new, sent) ==
    IF w = Udp THEN rs ELSE notifyClose(closeWorker(rs, w), new, sent)

\* A variant: the lookup of an answer stays where a second answer finds it.
forget_KeepsTheLookup(rs, w, id) ==
    LET c == rs.resolving[<<w, id>>].client
    IN  [rs EXCEPT
           !.clients[c] = None,
           !.active = outdated(RemoveFirst(@, [client |-> c, worker |-> w,
                                               current |-> TRUE]), c)]

\* The lookup of an answer leaves the tables, its entry in `active' only if it
\* was filed under the socket of the worker that answered.
forget(rs, w, id) ==
    LET c == rs.resolving[<<w, id>>].client
    IN  [rs EXCEPT
           !.resolving[<<w, id>>] = None,
           !.clients[c] = None,
           !.active = outdated(RemoveFirst(@, [client |-> c, worker |-> w,
                                               current |-> TRUE]), c)]

\* A worker that finds no address in an answer may ask for another name or for
\* another kind of record, unless it did so too often.
Follows(rs, answer) == answer.follow /\ rs.chained[answer.id] < MaxChain

chase(rs, w, answer) ==
    LET t == [rs EXCEPT !.chained[answer.id] = 0]
    IN  IF Follows(rs, answer)
        THEN [resolveHost(t, w, answer.newhost)
                EXCEPT !.chained[rs.next[w]] = rs.chained[answer.id] + 1]
        ELSE t

\* The answer is for another name than the one asked for: wait for the right one.
misread(rs, w, id, data, count) == track(rs, w, id, data, count, w)

\* What is done with the rest of a query that TCP did not take at once.
continueOrRead(rs, w, data, sent) ==
    IF w = Udp THEN rs
    ELSE IF sent THEN [rs EXCEPT !.reading = @ \cup {w}]
    ELSE [rs EXCEPT !.writing = @ \cup {w}, !.sending[w] = data]

cacheDestination(rs, host) == [rs EXCEPT !.cache = @ \cup {host}]

Answers ==
    [id : Ids, host : Hosts, kind : {"address", "missing", "truncated"},
     follow : BOOLEAN, newhost : Hosts]

\* An answer is read from a worker; `new' is the socket of the TCP worker it may
\* lead to.
getResponse(rs, w, answer, new, sent) ==
    LET id    == answer.id
        data  == rs.resolving[<<w, id>>]
        entry == rs.clients[data.client]
        newid == rs.next[w]
        chased == chase(rs, w, answer)
        t     == forget(chased, w, id)
    IN  CASE data = None -> Quiet(chased)
          [] data # None /\ answer.kind = "truncated" ->
               Quiet(beginResolvingTCP(t, data, new, sent))
          [] data # None /\ answer.kind # "truncated" /\ Follows(rs, answer) ->
               Quiet(continueOrRead(
                 track(t, w, newid, [data EXCEPT !.host = answer.newhost], 1, w), w, data, sent))
          [] data # None /\ answer.kind # "truncated" /\ ~Follows(rs, answer)
             /\ answer.host # data.host ->
               IF entry = None THEN Result(t, respond(data, "error"))
               ELSE Quiet(misread(t, w, id, data, entry.count))
          [] data # None /\ ~Follows(rs, answer) /\ answer.host = data.host
             /\ answer.kind = "address" ->
               Result(finish(cacheDestination(t, data.original), w, new, sent),
                      respond(data, "address"))
          [] data # None /\ ~Follows(rs, answer) /\ answer.host = data.host
             /\ answer.kind = "missing" ->
               Result(finish(t, w, new, sent), respond(data, "page"))

\* Nothing can be made of what a worker read, or TCP was closed.
unreadable(rs, w, new, sent) == finish(rs, w, new, sent)

\* The rest of a query is sent.  The client may have another lookup by now.
continueSending(rs, w) ==
    LET data  == rs.sending[w]
        entry == rs.clients[data.client]
        t     == [rs EXCEPT !.writing = @ \ {w}]
    IN  IF data = None \/ entry = None THEN t
        ELSE [t EXCEPT !.sending[w] = None,
                       !.resolving[<<entry.worker, entry.id>>] = data,
                       !.reading = @ \cup {w}]
-----------------------------------------------------------------------------
(* Timeouts.                                                               *)

\* What cleanup() does with the first entry of `active', which is too old.  A
\* TCP worker is closed without a word to notifyClose().
cleanup(rs) ==
    LET first == Head(rs.active)
        w     == first.worker
        entry == rs.clients[first.client]
        key   == <<entry.worker, entry.id>>
        t     == [rs EXCEPT !.active = outdated(Tail(@), first.client),
                            !.clients[first.client] = None]
    IN  IF entry = None THEN Quiet(hangUp(t, w))
        ELSE LET filed == rs.resolving[key] # None
                 data  == IF filed THEN rs.resolving[key]
                          ELSE IF w = Udp THEN None ELSE rs.sending[w]
                 u     == IF filed THEN [t EXCEPT !.resolving[key] = None]
                          ELSE IF w = Udp THEN t ELSE [t EXCEPT !.sending[w] = None]
             IN  CASE data = None -> Quiet(hangUp(u, w))
                   [] data # None /\ entry.count < Retries /\ w = Udp ->
                        Quiet(retransmit(u, data, entry.id, entry.count + 1))
                   [] data # None /\ ~(entry.count < Retries /\ w = Udp) ->
                        Result(hangUp(u, w), respond(data, "page"))

expireCache(rs, hosts) == [rs EXCEPT !.cache = @ \ hosts]
=============================================================================

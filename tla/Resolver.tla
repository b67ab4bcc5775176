------------------------------ MODULE Resolver ------------------------------
(***************************************************************************)
(* The resolver between the reactor, which starts lookups and enacts what  *)
(* comes of them, and a network that loses, delays and repeats datagrams.  *)
(***************************************************************************)
EXTENDS ResolverManager

CONSTANTS Aliases     \* the names that other names are aliases of

ASSUME AliasesAssumption == Aliases \subseteq Hosts \ Bad

VARIABLES rs,
          asks,     \* lookups started so far, per client
          given,    \* responses to each of them
          tcpTimedOut,  \* a lookup timed out while a TCP worker had it
          running

vars == <<rs, asks, given, tcpTimedOut, running>>

Open(c) == {n \in 1..asks[c] : given[c][n] = 0}

Init ==
    /\ rs = NewResolver
    /\ asks = [c \in Clients |-> 0]
    /\ given = [c \in Clients |-> [n \in Asks |-> 0]]
    /\ tcpTimedOut = FALSE
    /\ running = TRUE

\* What the servers answer; nothing is truncated over TCP.
AnswerKinds(w) == {"address", "missing"} \cup IF w = Udp THEN {"truncated"} ELSE {}

\* The tables after an operation, and its response, which the reactor enacts.
\* An exception ends the process.
Take(result) ==
    LET r == result.response
    IN  /\ rs' = result.rs
        /\ running' = ~(r # None /\ r.kind = "error")
        /\ given' = IF r = None \/ r.kind = "error" THEN given
                    ELSE [given EXCEPT ![r.client][r.ask] = @ + 1]

\* No lookup has an identifier that comes round again (there are 65534).
FreshId ==
    /\ rs.resolving[<<Udp, rs.next[Udp]>>] = None
    /\ \A q \in rs.queries : q.worker = Udp => q.id # rs.next[Udp]

beginQuery(c) ==
    /\ running /\ FreshId
    /\ asks[c] < MaxAsks /\ Open(c) = {}
    /\ asks' = [asks EXCEPT ![c] = @ + 1]
    /\ \E host \in Hosts \ Aliases :
         Take(startResolving(rs, [client |-> c, ask |-> asks[c] + 1,
                                  original |-> host, host |-> host]))
    /\ UNCHANGED tcpTimedOut

\* The names of the TCP workers that nothing refers to any more; a new worker
\* takes one of them.
FreeTcp ==
    {w \in Tcp :
       /\ w \notin rs.workers /\ rs.sending[w] = None
       /\ \A i \in Ids : rs.resolving[<<w, i>>] = None
       /\ \A c \in Clients : rs.clients[c] = None \/ rs.clients[c].worker # w
       /\ \A i \in DOMAIN rs.active : rs.active[i].worker # w}

Readable(w) == w = Udp \/ w \in (rs.workers \cap rs.reading) \ rs.writing

\* An answer to a query.  Bound: only a lookup that is still open leads to another
\* name; what came of the others would be ignored.
readAnswer(w) ==
    /\ running /\ Readable(w)
    /\ \E q \in {x \in rs.queries : x.worker = w}, kind \in AnswerKinds(w),
          follow \in BOOLEAN, newhost \in Aliases, sent \in BOOLEAN, new \in FreeTcp :
         /\ follow => kind = "missing" /\ FreshId /\ rs.resolving[<<w, q.id>>] # None
         /\ sent \/ w # Udp \/ kind = "truncated"    \* a datagram is sent at once
         /\ Take(getResponse([rs EXCEPT !.queries = @ \ {q}], w,
                             [id |-> q.id, host |-> q.host, kind |-> kind,
                              follow |-> follow, newhost |-> newhost], new, sent))
    /\ UNCHANGED <<asks, tcpTimedOut>>

\* The server of a TCP worker closes the connection, or writes nonsense.
readNothing(w) ==
    /\ running /\ Readable(w) /\ w # Udp
    /\ \E sent \in BOOLEAN, new \in FreeTcp : rs' = unreadable(rs, w, new, sent)
    /\ UNCHANGED <<asks, given, tcpTimedOut, running>>

flushResolver(w) ==
    /\ running /\ w \in rs.workers \cap rs.writing
    /\ rs' = continueSending(rs, w)
    /\ UNCHANGED <<asks, given, tcpTimedOut, running>>

\* The worker that has the lookup which is now too old.
Holder ==
    LET entry == rs.clients[Head(rs.active).client]
    IN  IF entry = None THEN Udp ELSE entry.worker

timeoutResolver ==
    /\ running /\ rs.active # <<>>
    /\ Take(cleanup(rs))
    /\ tcpTimedOut' = (tcpTimedOut \/ Holder # Udp)
    /\ UNCHANGED asks

\* The names that were cached together are forgotten together.
forgetNames ==
    /\ running /\ rs.cache # {}
    /\ \E hosts \in SUBSET rs.cache \ {{}} : rs' = expireCache(rs, hosts)
    /\ UNCHANGED <<asks, given, tcpTimedOut, running>>

Next ==
    \/ \E c \in Clients : beginQuery(c)
    \/ \E w \in Workers : readAnswer(w)
    \/ \E w \in Tcp : readNothing(w) \/ flushResolver(w)
    \/ timeoutResolver
    \/ forgetNames

Spec == Init /\ [][Next]_vars

\* The reactor looks for lookups that are too old each time it runs.
FairSpec == Spec /\ WF_vars(timeoutResolver)
=============================================================================

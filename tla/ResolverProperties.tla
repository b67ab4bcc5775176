------------------------- MODULE ResolverProperties -------------------------
(***************************************************************************)
(* What the resolver must guarantee.  Everything about a lookup holds until*)
(* one times out while a TCP worker has it: TCP lookups are filed under    *)
(* the UDP socket (manager.py:227), the timeout asks again by UDP under the*)
(* identifier of the TCP worker, always 1 at first, and two such lookups   *)
(* take each other's place in the tables, so that a client may be          *)
(* forgotten and another one be answered twice.                            *)
(***************************************************************************)
EXTENDS Resolver

\* The tables hold what their readers expect.
ResolverOK ==
    /\ rs \in Resolvers
    /\ asks \in [Clients -> Nat]
    /\ given \in [Clients -> [Asks -> Nat]]
    /\ tcpTimedOut \in BOOLEAN /\ running \in BOOLEAN

\* No more TCP workers than places, whatever is closed, times out or waits, and a
\* lookup waits only while every place is taken (beginResolvingTCP, notifyClose
\* and the close without it in cleanup, manager.py:115).
WorkersCounted ==
    /\ Cardinality(rs.workers) + 1 <= rs.worker_count
    /\ rs.worker_count <= MaxWorkers
    /\ rs.waiting # <<>> => rs.worker_count = MaxWorkers

Timed(c) == \E i \in DOMAIN rs.active : rs.active[i].client = c
InLine(c) == \E i \in DOMAIN rs.waiting : rs.waiting[i].client = c

\* A client whose lookup has no response yet is in the list that cleanup() reads
\* or in the line for a TCP worker: nothing else would ever answer it if the
\* network does not (track and its callers; manager.py:184-186, 285-287, 305-307).
NobodyForgotten ==
    ~tcpTimedOut => \A c \in Clients : Open(c) # {} => Timed(c) \/ InLine(c)

\* Lookups in the line have no timeout of their own, so a lookup that has a TCP
\* worker, and that will be answered or time out, is ahead of them (notifyClose).
LineMoves ==
    ~tcpTimedOut /\ rs.waiting # <<>> =>
      \E c \in Clients :
        /\ rs.clients[c] # None
        /\ rs.clients[c].worker \in Tcp
        /\ Timed(c)

\* A lookup has one response however often it is asked for, answered late or
\* twice: a second one would be taken for the client's next request
\* (getResponse and cleanup both take the lookup out of `resolving').
AtMostOneResponse ==
    ~tcpTimedOut => \A c \in Clients, n \in Asks : given[c][n] <= 1

\* A wrong answer always finds the entry of its client, which getResponse takes
\* apart without a look (manager.py:303); it would not if a client could have two
\* lookups at a time, as one has that sends two requests in one packet, or whose
\* lookup is asked again while a TCP worker is still connecting for it.
KeepsRunning == ~tcpTimedOut => running
=============================================================================

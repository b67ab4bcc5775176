------------------------------- MODULE Server -------------------------------
(***************************************************************************)
(* The listening side of the proxy: the Server objects of                  *)
(* network/server.py, one per source.  A server counts its clients and     *)
(* stops watching its listening sockets while it has max_clients of them.  *)
(* It may be told to stop listening and to listen again.                   *)
(***************************************************************************)
EXTENDS Sockets

ServerTable ==
    [client_count : [Sources -> Int],
     socks   : SUBSET Listeners,     \* those that are bound
     watched : SUBSET Listeners,     \* those the poller watches
     serving : SUBSET Sources]

ListenersOf(source) == {l \in Listeners : ListenerOf[l] = source}

Free(srv, source) == srv.client_count[source] < MaxClients[source]

\* The sockets that could be bound are watched unless their server is full.
listen(srv, bound) ==
    [srv EXCEPT !.socks = @ \cup bound,
                !.watched = @ \cup {l \in bound : Free(srv, ListenerOf[l])}]

\* Each configured address is bound when the program starts.
NewServers ==
    listen([client_count |-> [s \in Sources |-> 0], socks |-> {}, watched |-> {},
            serving |-> Sources], Listeners)

stop(srv, source) ==
    [srv EXCEPT !.socks = @ \ ListenersOf(source), !.watched = @ \ ListenersOf(source)]

rejecting(srv, source) ==
    IF source \in srv.serving
    THEN [stop(srv, source) EXCEPT !.serving = @ \ {source}] ELSE srv

\* A variant: the listening sockets are watched whatever the number of clients.
accepting_Watched(srv, source, bound) ==
    IF source \in srv.serving THEN srv
    ELSE [srv EXCEPT !.socks = @ \cup bound, !.watched = @ \cup bound,
                     !.serving = @ \cup {source}]

\* An address that cannot be bound again is passed over: listen() has no exception
\* for it, so that the answer is always that all is well.
accepting(srv, source, bound) ==
    IF source \in srv.serving THEN srv
    ELSE [listen(srv, bound) EXCEPT !.serving = @ \cup {source}]

\* A variant: a server is full with one client more.
pause_OneTooMany(srv, source) ==
    IF srv.client_count[source] > MaxClients[source]
    THEN [srv EXCEPT !.watched = @ \ (ListenersOf(source) \cap srv.socks)] ELSE srv

\* What accept() does in its `finally' clause.
pause(srv, source) ==
    IF Free(srv, source) THEN srv
    ELSE [srv EXCEPT !.watched = @ \ (ListenersOf(source) \cap srv.socks)]

\* accept() counts the connection once the caller has registered the client.
accepted(srv, source) ==
    pause([srv EXCEPT !.client_count[source] = @ + 1], source)

notifyClose(srv, source, count) ==
    LET left == [srv EXCEPT !.client_count[source] = @ - count]
    IN  IF Free(left, source) /\ ~Free(srv, source)
        THEN [left EXCEPT !.watched = @ \cup (ListenersOf(source) \cap srv.socks)]
        ELSE left
=============================================================================

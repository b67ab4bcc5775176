------------------------------- MODULE Poller -------------------------------
(***************************************************************************)
(* What the reactor's components need of one event name of the epoll       *)
(* poller (network/async/epoll.py): the sockets subscribed to the event    *)
(* and, among them, the corked ones, which are not watched for now.  An    *)
(* event set is a value; the operators return the set after the call.      *)
(* Registration errors on closed descriptors are left out: the components  *)
(* always remove a socket before they close it.                            *)
(***************************************************************************)

EventSet(S) == [socks : SUBSET S, corked : SUBSET S]

NoSockets == [socks |-> {}, corked |-> {}]

\* Adding a subscribed socket changes nothing: a corked one stays corked.
addSocket(ev, s) == [ev EXCEPT !.socks = @ \cup {s}]

removeSocket(ev, s) == [socks |-> ev.socks \ {s}, corked |-> ev.corked \ {s}]

\* Corking a socket that is not subscribed is ignored.
corkSocket(ev, s) ==
    [ev EXCEPT !.corked = IF s \in ev.socks THEN @ \cup {s} ELSE @]

uncorkSocket(ev, s) ==
    [ev EXCEPT !.corked = IF s \in ev.socks THEN @ \ {s} ELSE @]

\* The sockets that poll() may return for the event.
Watched(ev) == ev.socks \ ev.corked
=============================================================================

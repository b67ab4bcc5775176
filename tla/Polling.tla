------------------------------- MODULE Polling -------------------------------
(***************************************************************************)
(* What a poller promises (network/async/interface.py): a poll reports the *)
(* ready sockets among those that are watched for an event, and sockets    *)
(* that could not be watched until they are removed.  epoll, kqueue and    *)
(* select implement it in EpollPoller, KQueuePoller and SelectPoller.      *)
(***************************************************************************)
EXTENDS Poller

CONSTANTS ReadEvents, WriteEvents,   \* the names sockets are subscribed under
          Socks

VARIABLES events,    \* the sockets of each event
          failed,    \* those that could not be watched
          polled     \* what a poll has just found ready, and what it reported

vars == <<events, failed, polled>>

Events == ReadEvents \cup WriteEvents
NotPolled == [ready |-> {}, reported |-> [e \in Events |-> {}]]
Ready == SUBSET (Socks \X {"in", "out"})
Interest(e) == IF e \in ReadEvents THEN "in" ELSE "out"

Init ==
    /\ events = [e \in Events |-> NoSockets]
    /\ failed = [e \in Events |-> {}]
    /\ polled = NotPolled

(* Every call is made after the result of the last poll was dealt with.     *)

Add(e, s) ==
    /\ events' = [events EXCEPT ![e] = addSocket(@, s)]
    /\ UNCHANGED failed
    /\ polled' = NotPolled

\* A socket may be reported for one event only.
Fail(e, s) ==
    /\ events' = [events EXCEPT ![e] = removeSocket(@, s)]
    /\ failed' = IF \E x \in Events : s \in failed[x] THEN failed
                 ELSE [failed EXCEPT ![e] = @ \cup {s}]
    /\ polled' = NotPolled

Remove(e, s) ==
    /\ events' = [events EXCEPT ![e] = removeSocket(@, s)]
    /\ failed' = [x \in Events |-> failed[x] \ {s}]
    /\ polled' = NotPolled

Cork(e, s) ==
    /\ events' = [events EXCEPT ![e] = corkSocket(@, s)]
    /\ UNCHANGED failed
    /\ polled' = NotPolled

Uncork(e, s) ==
    /\ events' = [events EXCEPT ![e] = uncorkSocket(@, s)]
    /\ UNCHANGED failed
    /\ polled' = NotPolled

Clear(e) ==
    /\ events' = [events EXCEPT ![e] = NoSockets]
    /\ UNCHANGED failed
    /\ polled' = NotPolled

\* Sockets are opened and closed.
Proceed ==
    /\ polled' = NotPolled
    /\ UNCHANGED <<events, failed>>

Reports(ready) ==
    [e \in Events |->
       {s \in Watched(events[e]) : <<s, Interest(e)>> \in ready} \cup failed[e]]

Poll(ready) ==
    /\ polled' = [ready |-> ready, reported |-> Reports(ready)]
    /\ UNCHANGED <<events, failed>>

Next ==
    \/ \E e \in Events : Clear(e)
    \/ \E e \in Events, s \in Socks :
         Add(e, s) \/ Fail(e, s) \/ Remove(e, s) \/ Cork(e, s) \/ Uncork(e, s)
    \/ Proceed
    \/ \E ready \in Ready : Poll(ready)

Spec == Init /\ [][Next]_vars
=============================================================================

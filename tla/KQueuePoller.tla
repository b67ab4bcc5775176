---------------------------- MODULE KQueuePoller ----------------------------
(***************************************************************************)
(* The poller made of kernel queues (network/async/kqueue.py).  It differs *)
(* from the epoll poller where descriptors meet sockets: it asserts that a *)
(* descriptor it is given has no socket yet, drops a socket that the       *)
(* kernel says is broken, and has no error for one that is closed.         *)
(***************************************************************************)
EXTENDS Naturals, FiniteSets

CONSTANTS ReadEvents, WriteEvents, Socks,
          Fds,                  \* descriptors
          MaxReady,             \* bound: sockets and interests ready at once
          NoFd, NoSock, NoEvent

VARIABLES fd,          \* the descriptor of each socket, while it is open
          sockets, corked, fdtosock, errors,
          filters,     \* what the kernel queue of each event waits for
          polled, raised

vars == <<fd, sockets, corked, fdtosock, errors, filters, polled, raised>>

Events == ReadEvents \cup WriteEvents
NotPolled == [ready |-> {}, reported |-> [e \in Events |-> {}]]
Interest(e) == IF e \in ReadEvents THEN "in" ELSE "out"

Init ==
    /\ fd = [s \in Socks |-> NoFd]
    /\ sockets = [e \in Events |-> {}]
    /\ corked = [e \in Events |-> {}]
    /\ fdtosock = [e \in Events |-> [f \in Fds |-> NoSock]]
    /\ errors = [s \in Socks |-> NoEvent]
    /\ filters = [e \in Events |-> {}]
    /\ polled = NotPolled
    /\ raised = FALSE

\* A new socket object, which no table holds, with a free descriptor.
open(s) ==
    /\ fd[s] = NoFd /\ errors[s] = NoEvent
    /\ \A e \in Events : s \notin sockets[e] /\ \A f \in Fds : fdtosock[e][f] # s
    /\ \E f \in Fds :
         /\ \A t \in Socks : fd[t] # f
         /\ fd' = [fd EXCEPT ![s] = f]
    /\ UNCHANGED <<sockets, corked, fdtosock, errors, filters, raised>>
    /\ polled' = NotPolled

\* The program does not close a socket that is subscribed.
close(s) ==
    /\ fd[s] # NoFd
    /\ \A e \in Events : s \notin sockets[e]
    /\ fd' = [fd EXCEPT ![s] = NoFd]
    /\ UNCHANGED <<sockets, corked, fdtosock, errors, filters, raised>>
    /\ polled' = NotPolled
-----------------------------------------------------------------------------
(* The calls, which are given open sockets.                                *)

\* The assertion has no handler.
add(e, s, interest) ==
    /\ s \notin sockets[e] /\ fd[s] # NoFd
    /\ sockets' = [sockets EXCEPT ![e] = @ \cup {s}]
    /\ IF fdtosock[e][fd[s]] # NoSock
       THEN /\ raised' = TRUE
            /\ UNCHANGED <<fdtosock, filters>>
       ELSE /\ fdtosock' = [fdtosock EXCEPT ![e][fd[s]] = s]
            /\ filters' = [filters EXCEPT ![e] = @ \cup {<<fd[s], interest>>}]
            /\ UNCHANGED raised
    /\ UNCHANGED <<fd, corked, errors>>
    /\ polled' = NotPolled

\* A variant: the descriptor of a corked socket is kept for its return.
remove_KeepsCorked(e, s, interest) ==
    /\ fd[s] # NoFd
    /\ IF s \in sockets[e] \ corked[e]
       THEN /\ fdtosock' = [fdtosock EXCEPT ![e][fd[s]] = NoSock]
            /\ filters' = [filters EXCEPT ![e] = @ \ {<<fd[s], interest>>}]
       ELSE UNCHANGED <<fdtosock, filters>>
    /\ sockets' = [sockets EXCEPT ![e] = @ \ {s}]
    /\ corked' = [corked EXCEPT ![e] = @ \ {s}]
    /\ errors' = [errors EXCEPT ![s] = NoEvent]
    /\ UNCHANGED <<fd, raised>>
    /\ polled' = NotPolled

remove(e, s, interest) ==
    /\ fd[s] # NoFd
    /\ IF s \in sockets[e]
       THEN /\ fdtosock' = [fdtosock EXCEPT ![e][fd[s]] = NoSock]
            /\ filters' = [filters EXCEPT ![e] = @ \ {<<fd[s], interest>>}]
       ELSE UNCHANGED <<fdtosock, filters>>
    /\ sockets' = [sockets EXCEPT ![e] = @ \ {s}]
    /\ corked' = [corked EXCEPT ![e] = @ \ {s}]
    /\ errors' = [errors EXCEPT ![s] = NoEvent]
    /\ UNCHANGED <<fd, raised>>
    /\ polled' = NotPolled

cork(e, s, interest) ==
    /\ s \in sockets[e] \ corked[e]
    /\ corked' = [corked EXCEPT ![e] = @ \cup {s}]
    /\ filters' = [filters EXCEPT ![e] = @ \ {<<fd[s], interest>>}]
    /\ UNCHANGED <<fd, sockets, fdtosock, errors, raised>>
    /\ polled' = NotPolled

uncork(e, s, interest) ==
    /\ s \in corked[e]
    /\ corked' = [corked EXCEPT ![e] = @ \ {s}]
    /\ filters' = [filters EXCEPT ![e] = @ \cup {<<fd[s], interest>>}]
    /\ UNCHANGED <<fd, sockets, fdtosock, errors, raised>>
    /\ polled' = NotPolled

clear(e) ==
    /\ sockets[e] # {}
    /\ sockets' = [sockets EXCEPT ![e] = {}]
    /\ corked' = [corked EXCEPT ![e] = {}]
    /\ fdtosock' = [fdtosock EXCEPT ![e] = [f \in Fds |-> NoSock]]
    /\ filters' = [filters EXCEPT ![e] = {}]
    /\ UNCHANGED <<fd, errors, raised>>
    /\ polled' = NotPolled

addReadSocket(e, s) == e \in ReadEvents /\ add(e, s, "in")
removeReadSocket(e, s) == e \in ReadEvents /\ remove(e, s, "in")
corkReadSocket(e, s) == e \in ReadEvents /\ cork(e, s, "in")
uncorkReadSocket(e, s) == e \in ReadEvents /\ uncork(e, s, "in")
clearRead(e) == e \in ReadEvents /\ clear(e)

addWriteSocket(e, s) == e \in WriteEvents /\ add(e, s, "out")
removeWriteSocket(e, s) == e \in WriteEvents /\ remove(e, s, "out")
corkWriteSocket(e, s) == e \in WriteEvents /\ cork(e, s, "out")
uncorkWriteSocket(e, s) == e \in WriteEvents /\ uncork(e, s, "out")
clearWrite(e) == e \in WriteEvents /\ clear(e)
-----------------------------------------------------------------------------
(* A poll.                                                                 *)

Ready ==
    {ready \in SUBSET ({s \in Socks : fd[s] # NoFd} \X {"in", "out"}) :
       Cardinality(ready) <= MaxReady}

polledFds(e, ready) ==
    {f \in Fds :
       \E s \in Socks, i \in {"in", "out"} :
          fd[s] = f /\ <<s, i>> \in ready /\ <<f, i>> \in filters[e]}

\* Descriptors without a socket are logged and passed over.
polledSockets(e, ready) == {fdtosock[e][f] : f \in polledFds(e, ready)} \ {NoSock}

poll(ready) ==
    /\ polled' = [ready |-> ready,
                  reported |-> [e \in Events |->
                     polledSockets(e, ready) \cup {s \in Socks : errors[s] = e}]]
    /\ UNCHANGED <<fd, sockets, corked, fdtosock, errors, filters, raised>>

\* One of the sockets is reported as broken: it is not waited for any more, but
\* reported by the polls to come.
pollBroken(e, s, interest) ==
    /\ <<fd[s], interest>> \in filters[e] /\ fdtosock[e][fd[s]] = s
    /\ filters' = [filters EXCEPT ![e] = @ \ {<<fd[s], interest>>}]
    /\ fdtosock' = [fdtosock EXCEPT ![e][fd[s]] = NoSock]
    /\ sockets' = [sockets EXCEPT ![e] = @ \ {s}]
    /\ errors' = [errors EXCEPT ![s] = IF @ = NoEvent THEN e ELSE @]
    /\ UNCHANGED <<fd, corked, raised>>
    /\ polled' = NotPolled
-----------------------------------------------------------------------------
Calls(e, s) ==
    \/ addReadSocket(e, s) \/ removeReadSocket(e, s)
    \/ corkReadSocket(e, s) \/ uncorkReadSocket(e, s)
    \/ addWriteSocket(e, s) \/ removeWriteSocket(e, s)
    \/ corkWriteSocket(e, s) \/ uncorkWriteSocket(e, s)

Next ==
    \/ \E s \in Socks : open(s) \/ close(s)
    \/ \E e \in Events : clearRead(e) \/ clearWrite(e)
    \/ \E e \in Events, s \in Socks : Calls(e, s)
    \/ \E e \in Events, s \in Socks : pollBroken(e, s, Interest(e))
    \/ \E ready \in Ready : poll(ready)

Spec == Init /\ [][Next]_vars
-----------------------------------------------------------------------------
\* The assertion that a descriptor that is given to the poller has no socket in the
\* table, after any sequence of calls about sockets that used it before and were
\* unsubscribed before they were closed (network/async/kqueue.py:46, 149).
NeverRaises == ~raised
-----------------------------------------------------------------------------
(* The refinement.                                                         *)

Abstract == INSTANCE Polling WITH
    events <- [e \in Events |-> [socks |-> sockets[e], corked |-> corked[e]]],
    failed <- [e \in Events |-> {s \in Socks : errors[s] = e}]

Implements == Abstract!Spec
=============================================================================

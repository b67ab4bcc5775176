----------------------------- MODULE EpollPoller -----------------------------
(***************************************************************************)
(* The poller made of epoll descriptors (network/async/epoll.py): one for  *)
(* each event, watched by a master.  The kernel knows descriptors, the     *)
(* program knows sockets: fdtosock must relate the two, although a          *)
(* descriptor is given to another socket once it is closed.                *)
(***************************************************************************)
EXTENDS Naturals, FiniteSets

CONSTANTS ReadEvents, WriteEvents, Socks,
          Fds,                  \* descriptors
          MaxReady,             \* bound: sockets and interests ready at once
          NoFd, NoSock, NoEvent

VARIABLES fd,          \* the descriptor of each socket, while it is open
          sockets, corked, fdtosock, errors,
          registered,  \* the interests the kernel keeps for each event
          polled

vars == <<fd, sockets, corked, fdtosock, errors, registered, polled>>

Events == ReadEvents \cup WriteEvents
NotPolled == [ready |-> {}, reported |-> [e \in Events |-> {}]]
Interest(e) == IF e \in ReadEvents THEN "in" ELSE "out"

Init ==
    /\ fd = [s \in Socks |-> NoFd]
    /\ sockets = [e \in Events |-> {}]
    /\ corked = [e \in Events |-> {}]
    /\ fdtosock = [e \in Events |-> [f \in Fds |-> NoSock]]
    /\ errors = [s \in Socks |-> NoEvent]
    /\ registered = [e \in Events |-> {}]
    /\ polled = NotPolled
-----------------------------------------------------------------------------
(* The kernel.                                                             *)

\* A new socket object, which no table holds, with a free descriptor.
open(s) ==
    /\ fd[s] = NoFd /\ errors[s] = NoEvent
    /\ \A e \in Events : s \notin sockets[e] /\ \A f \in Fds : fdtosock[e][f] # s
    /\ \E f \in Fds :
         /\ \A t \in Socks : fd[t] # f
         /\ fd' = [fd EXCEPT ![s] = f]
    /\ UNCHANGED <<sockets, corked, fdtosock, errors, registered>>
    /\ polled' = NotPolled

\* The program does not close a socket that is watched, but may close one that is
\* corked; the kernel forgets a descriptor that is closed.
close(s) ==
    /\ fd[s] # NoFd
    /\ \A e \in Events : s \in sockets[e] => s \in corked[e]
    /\ fd' = [fd EXCEPT ![s] = NoFd]
    /\ UNCHANGED <<sockets, corked, fdtosock, errors, registered>>
    /\ polled' = NotPolled
-----------------------------------------------------------------------------
(* The calls.  Those for reading and those for writing are alike.          *)

\* A socket that cannot be registered is reported by the polls to come.
report(e, s) ==
    errors' = [errors EXCEPT ![s] = IF @ = NoEvent THEN e ELSE @]

\* A variant: the table of descriptors keeps an earlier socket.
add_KeepsDescriptor(e, s, interest) ==
    /\ s \notin sockets[e] /\ fd[s] # NoFd
    /\ sockets' = [sockets EXCEPT ![e] = @ \cup {s}]
    /\ registered' = [registered EXCEPT ![e] = @ \cup {<<fd[s], interest>>}]
    /\ fdtosock' = [fdtosock EXCEPT ![e][fd[s]] = IF @ = NoSock THEN s ELSE @]
    /\ UNCHANGED <<fd, corked, errors>>
    /\ polled' = NotPolled

add(e, s, interest) ==
    /\ s \notin sockets[e]
    /\ IF fd[s] = NoFd
       THEN /\ report(e, s)
            /\ UNCHANGED <<sockets, registered, fdtosock>>
       ELSE /\ sockets' = [sockets EXCEPT ![e] = @ \cup {s}]
            /\ registered' = [registered EXCEPT ![e] = @ \cup {<<fd[s], interest>>}]
            /\ fdtosock' = [fdtosock EXCEPT ![e][fd[s]] = s]
            /\ UNCHANGED errors
    /\ UNCHANGED <<fd, corked>>
    /\ polled' = NotPolled

\* The descriptor of a closed socket cannot be looked up any more.
remove(e, s, interest) ==
    /\ IF s \in sockets[e]
       THEN /\ fdtosock' = IF fd[s] = NoFd THEN fdtosock
                           ELSE [fdtosock EXCEPT ![e][fd[s]] = NoSock]
            /\ registered' = [registered EXCEPT ![e] = @ \ {<<fd[s], interest>>}]
       ELSE UNCHANGED <<fdtosock, registered>>
    /\ sockets' = [sockets EXCEPT ![e] = @ \ {s}]
    /\ corked' = [corked EXCEPT ![e] = @ \ {s}]
    /\ errors' = [errors EXCEPT ![s] = NoEvent]
    /\ UNCHANGED fd
    /\ polled' = NotPolled

cork(e, s, interest) ==
    /\ s \in sockets[e] \ corked[e]
    /\ corked' = [corked EXCEPT ![e] = @ \cup {s}]
    /\ registered' = [registered EXCEPT ![e] = @ \ {<<fd[s], interest>>}]
    /\ UNCHANGED <<fd, sockets, fdtosock, errors>>
    /\ polled' = NotPolled

uncork(e, s, interest) ==
    /\ s \in corked[e]
    /\ corked' = [corked EXCEPT ![e] = @ \ {s}]
    /\ IF fd[s] = NoFd
       THEN /\ sockets' = [sockets EXCEPT ![e] = @ \ {s}]
            /\ report(e, s)
            /\ UNCHANGED registered
       ELSE /\ registered' = [registered EXCEPT ![e] = @ \cup {<<fd[s], interest>>}]
            /\ UNCHANGED <<sockets, errors>>
    /\ UNCHANGED <<fd, fdtosock>>
    /\ polled' = NotPolled

\* The event gets another epoll descriptor.
clear(e) ==
    /\ sockets[e] # {}
    /\ sockets' = [sockets EXCEPT ![e] = {}]
    /\ corked' = [corked EXCEPT ![e] = {}]
    /\ fdtosock' = [fdtosock EXCEPT ![e] = [f \in Fds |-> NoSock]]
    /\ registered' = [registered EXCEPT ![e] = {}]
    /\ UNCHANGED <<fd, errors>>
    /\ polled' = NotPolled

addReadSocket(e, s) == e \in ReadEvents /\ add(e, s, "in")
removeReadSocket(e, s) == e \in ReadEvents /\ remove(e, s, "in")
corkReadSocket(e, s) == e \in ReadEvents /\ cork(e, s, "in")
uncorkReadSocket(e, s) == e \in ReadEvents /\ uncork(e, s, "in")
clearRead(e) == e \in ReadEvents /\ clear(e)

addWriteSocket(e, s) == e \in WriteEvents /\ add(e, s, "out")
removeWriteSocket(e, s) == e \in WriteEvents /\ remove(e, s, "out")
corkWriteSocket(e, s) == e \in WriteEvents /\ cork(e, s, "out")
uncorkWriteSocket(e, s) == e \in WriteEvents /\ uncork(e, s, "out")
clearWrite(e) == e \in WriteEvents /\ clear(e)
-----------------------------------------------------------------------------
(* A poll.                                                                 *)

\* The registered descriptors that are ready, with the sockets fdtosock has for them.
polledSockets(e, ready) ==
    {fdtosock[e][f] : f \in {f \in Fds :
        \E s \in Socks, i \in {"in", "out"} :
          fd[s] = f /\ <<s, i>> \in ready /\ <<f, i>> \in registered[e]}}

Ready ==
    {ready \in SUBSET ({s \in Socks : fd[s] # NoFd} \X {"in", "out"}) :
       Cardinality(ready) <= MaxReady}

poll(ready) ==
    /\ polled' = [ready |-> ready,
                  reported |-> [e \in Events |->
                     polledSockets(e, ready) \cup {s \in Socks : errors[s] = e}]]
    /\ UNCHANGED <<fd, sockets, corked, fdtosock, errors, registered>>
-----------------------------------------------------------------------------
Calls(e, s) ==
    \/ addReadSocket(e, s) \/ removeReadSocket(e, s)
    \/ corkReadSocket(e, s) \/ uncorkReadSocket(e, s)
    \/ addWriteSocket(e, s) \/ removeWriteSocket(e, s)
    \/ corkWriteSocket(e, s) \/ uncorkWriteSocket(e, s)

Next ==
    \/ \E s \in Socks : open(s) \/ close(s)
    \/ \E e \in Events : clearRead(e) \/ clearWrite(e)
    \/ \E e \in Events, s \in Socks : Calls(e, s)
    \/ \E ready \in Ready : poll(ready)

Spec == Init /\ [][Next]_vars
-----------------------------------------------------------------------------
(* The refinement.                                                         *)

Abstract == INSTANCE Polling WITH
    events <- [e \in Events |-> [socks |-> sockets[e], corked |-> corked[e]]],
    failed <- [e \in Events |-> {s \in Socks : errors[s] = e}]

Implements == Abstract!Spec
=============================================================================

---------------------------- MODULE SelectPoller ----------------------------
(***************************************************************************)
(* The poller made of select() (network/async/selectpoll.py).  To cork a   *)
(* socket is to remove it and to uncork it is to add it, so that it keeps  *)
(* the promise of Polling to a caller that uncorks what it corked, and     *)
(* does not add it meanwhile.  It waits on a list of all the sockets,      *)
(* which it makes again only if some event was modified.                   *)
(***************************************************************************)
EXTENDS Naturals, FiniteSets

CONSTANTS ReadEvents, WriteEvents, Socks,
          MaxReady              \* bound: sockets and interests ready at once

VARIABLES read_sockets, write_sockets, read_modified, write_modified,
          read_all, write_all,
          waiting,              \* poll() has nothing to report and waits
          parked,               \* history: the sockets the caller has corked
          polled

tables == <<read_sockets, write_sockets>>
modified == <<read_modified, write_modified>>
all == <<read_all, write_all>>
vars == <<tables, modified, all, waiting, parked, polled>>

Events == ReadEvents \cup WriteEvents
NotPolled == [ready |-> {}, reported |-> [e \in Events |-> {}]]
Union(table) == UNION {table[e] : e \in DOMAIN table}

Init ==
    /\ read_sockets = [e \in ReadEvents |-> {}]
    /\ write_sockets = [e \in WriteEvents |-> {}]
    /\ read_modified = {} /\ write_modified = {}
    /\ read_all = {} /\ write_all = {}
    /\ waiting = FALSE
    /\ parked = [e \in Events |-> {}]
    /\ polled = NotPolled
-----------------------------------------------------------------------------
addReadSocket(e, s) ==
    /\ read_sockets' = [read_sockets EXCEPT ![e] = @ \cup {s}]
    /\ read_modified' = IF s \in read_sockets[e] THEN read_modified ELSE read_modified \cup {e}

removeReadSocket(e, s) ==
    /\ read_sockets' = [read_sockets EXCEPT ![e] = @ \ {s}]
    /\ read_modified' = IF s \in read_sockets[e] THEN read_modified \cup {e} ELSE read_modified

addWriteSocket(e, s) ==
    /\ write_sockets' = [write_sockets EXCEPT ![e] = @ \cup {s}]
    /\ write_modified' = IF s \in write_sockets[e] THEN write_modified ELSE write_modified \cup {e}

removeWriteSocket(e, s) ==
    /\ write_sockets' = [write_sockets EXCEPT ![e] = @ \ {s}]
    /\ write_modified' = IF s \in write_sockets[e] THEN write_modified \cup {e} ELSE write_modified

add(e, s) ==
    \/ e \in ReadEvents /\ addReadSocket(e, s) /\ UNCHANGED <<write_sockets, write_modified>>
    \/ e \in WriteEvents /\ addWriteSocket(e, s) /\ UNCHANGED <<read_sockets, read_modified>>

remove(e, s) ==
    \/ e \in ReadEvents /\ removeReadSocket(e, s) /\ UNCHANGED <<write_sockets, write_modified>>
    \/ e \in WriteEvents /\ removeWriteSocket(e, s) /\ UNCHANGED <<read_sockets, read_modified>>

Call(e) == ~waiting /\ polled' = NotPolled /\ UNCHANGED <<all, waiting>>

Add(e, s) ==
    /\ Call(e) /\ s \notin parked[e]
    /\ add(e, s)
    /\ UNCHANGED parked

Remove(e, s) ==
    /\ Call(e) /\ remove(e, s)
    /\ parked' = [parked EXCEPT ![e] = @ \ {s}]

cork(e, s) ==
    /\ Call(e) /\ s \notin parked[e]
    /\ s \in IF e \in ReadEvents THEN read_sockets[e] ELSE write_sockets[e]
    /\ remove(e, s)
    /\ parked' = [parked EXCEPT ![e] = @ \cup {s}]

uncork(e, s) ==
    /\ Call(e) /\ s \in parked[e]
    /\ add(e, s)
    /\ parked' = [parked EXCEPT ![e] = @ \ {s}]
-----------------------------------------------------------------------------
(* A poll: at first without waiting, then waiting for any of the sockets,  *)
(* and a last time to see which.                                           *)

Ready == {ready \in SUBSET (Socks \X {"in", "out"}) : Cardinality(ready) <= MaxReady}

Sockets(e) == IF e \in ReadEvents THEN read_sockets[e] ELSE write_sockets[e]
Interest(e) == IF e \in ReadEvents THEN "in" ELSE "out"
Polled(ready) == [e \in Events |-> {s \in Sockets(e) : <<s, Interest(e)>> \in ready}]

report(ready) == polled' = [ready |-> ready, reported |-> Polled(ready)]

pollNow(ready) ==
    /\ ~waiting
    /\ IF \E e \in Events : Polled(ready)[e] # {}
       THEN /\ report(ready)
            /\ UNCHANGED <<modified, all, waiting>>
       ELSE /\ read_all' = IF read_modified # {} THEN Union(read_sockets) ELSE read_all
            /\ write_all' = IF write_modified # {} THEN Union(write_sockets) ELSE write_all
            /\ read_modified' = {} /\ write_modified' = {}
            /\ waiting' = TRUE
            /\ polled' = NotPolled
    /\ UNCHANGED <<tables, parked>>

\* The wait ends with what it waits for, or after a time.
pollWaited(ready) ==
    /\ waiting /\ waiting' = FALSE
    /\ report(ready)
    /\ UNCHANGED <<tables, modified, all, parked>>
-----------------------------------------------------------------------------
Next ==
    \/ \E e \in Events, s \in Socks : Add(e, s) \/ Remove(e, s) \/ cork(e, s) \/ uncork(e, s)
    \/ \E ready \in Ready : pollNow(ready) \/ pollWaited(ready)

Spec == Init /\ [][Next]_vars

\* A poll that waits wakes up for every socket that is watched: the lists of all the
\* sockets, which are kept from one poll to the next, are those of the events
\* (network/async/selectpoll.py:137-147).
WaitsForAll ==
    waiting => read_all = Union(read_sockets) /\ write_all = Union(write_sockets)
-----------------------------------------------------------------------------
(* The refinement.                                                         *)

Abstract == INSTANCE Polling WITH
    events <- [e \in Events |-> [socks |-> Sockets(e) \cup parked[e], corked |-> parked[e]]],
    failed <- [e \in Events |-> {}]

Implements == Abstract!Spec
=============================================================================

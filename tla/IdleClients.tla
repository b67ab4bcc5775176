----------------------------- MODULE IdleClients -----------------------------
(***************************************************************************)
(* The clients that have not sent a request yet: the TimeCache of          *)
(* util/cache.py, as the manager of the clients uses it                    *)
(* (reactor/client/manager.py).  A batch of them is expired each round.    *)
(* The first one found too young is kept aside in `last' until the next.   *)
(***************************************************************************)
EXTENDS Integers, Sequences, SequencesExt

CONSTANTS Keys,        \* client sockets, each used once
          Timeout,     \* seconds without a request
          Batch,       \* how many are expired in a round, at most
          MaxTime      \* bound: the clock

VARIABLES now,         \* the clock
          norequest,   \* the keys of the cache
          time,        \* the pairs <<key, time>>, oldest first
          last,        \* the pair kept aside: a sequence of at most one
          arrived,     \* history: when each key came, or -1
          gone         \* history: those the last round expired

vars == <<now, norequest, time, last, arrived, gone>>

Init ==
    /\ now = 0
    /\ norequest = {} /\ time = <<>> /\ last = <<>>
    /\ arrived = [k \in Keys |-> -1]
    /\ gone = {}

tick ==
    /\ now < MaxTime /\ now' = now + 1
    /\ UNCHANGED <<norequest, time, last, arrived, gone>>

connect(k) ==
    /\ arrived[k] = -1
    /\ arrived' = [arrived EXCEPT ![k] = now]
    /\ norequest' = norequest \cup {k}
    /\ time' = Append(time, <<k, now>>)
    /\ UNCHANGED <<now, last, gone>>

\* A key is in the queue once, if at all.
Without(k) == RemoveFirstMatch(time, LAMBDA pair : pair[1] = k)

\* The client sends its request, or leaves.
pop(k) ==
    /\ k \in norequest
    /\ norequest' = norequest \ {k}
    /\ time' = Without(k)
    /\ UNCHANGED <<now, last, arrived, gone>>
-----------------------------------------------------------------------------
Expired(pair) == pair[2] <= now - Timeout

\* Whom the queue gives up, at most `maximum' of them: the length of its longest
\* prefix of pairs that have expired.  None of them has left: pop() sees to it.
Taken(maximum) ==
    CHOOSE n \in 0..Len(time) :
      /\ n <= maximum
      /\ \A i \in 1..n : Expired(time[i])
      /\ n = maximum \/ n = Len(time) \/ ~Expired(time[n + 1])

\* The pair after them is taken off the queue as well, to be kept, if it is too young.
Kept(n, maximum) ==
    IF n < maximum /\ n < Len(time) THEN <<time[n + 1]>> ELSE <<>>

\* A variant: the age of the pair that was kept is not looked at again.
expired_LastIsOld ==
    LET first == {last[i][1] : i \in DOMAIN last} \cap norequest
        maximum == IF first = {} THEN Batch ELSE Batch - 1
        n == Taken(maximum)
        kept == Kept(n, maximum)
    IN  /\ gone' = first \cup {time[i][1] : i \in 1..n}
        /\ time' = SubSeq(time, n + Len(kept) + 1, Len(time))
        /\ last' = kept

expired ==
    IF last # <<>> /\ ~Expired(last[1])
    THEN gone' = {} /\ UNCHANGED <<time, last>>
    ELSE LET first == {last[i][1] : i \in DOMAIN last} \cap norequest
             maximum == IF first = {} THEN Batch ELSE Batch - 1
             n == Taken(maximum)
             kept == Kept(n, maximum)
         IN  /\ gone' = first \cup {time[i][1] : i \in 1..n}
             /\ time' = SubSeq(time, n + Len(kept) + 1, Len(time))
             /\ last' = kept

\* The clients of the batch are cleaned up.
expire ==
    /\ expired
    /\ norequest' = norequest \ gone'
    /\ UNCHANGED <<now, arrived>>
-----------------------------------------------------------------------------
Next ==
    \/ tick
    \/ \E k \in Keys : connect(k) \/ pop(k)
    \/ expire

Spec == Init /\ [][Next]_vars
-----------------------------------------------------------------------------
\* No client is expired before its time, nor any that has sent its request, although
\* one is kept aside from one round to the next (util/cache.py:38-57).
NeverEarly ==
    [][gone' # gone => \A k \in gone' : k \in norequest /\ arrived[k] + Timeout <= now]_vars

\* Every client that sends nothing is still in the queue, or kept aside, and is not
\* forgotten there for ever (util/cache.py:34-57).
NobodyOverlooked ==
    \A k \in norequest : \E pair \in {time[i] : i \in DOMAIN time}
                                     \cup {last[i] : i \in DOMAIN last} : pair[1] = k

\* Clients are expired in the order they came: one is passed over only if it has
\* sent its request (the queue keeps its order, and `last' is older than all of it).
OldestFirst ==
    [][\A k \in gone' \ gone : \A other \in norequest \ gone' : arrived[k] <= arrived[other]]_vars
=============================================================================

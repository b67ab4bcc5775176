------------------------ MODULE RedirectorProperties ------------------------
(* What the redirector process must guarantee.                             *)
EXTENDS RedirectorProcess

PoolOK(p) ==
    /\ p \in Pools
    /\ p.worker = p.available \cup Active(p)
    /\ p.available \cap Active(p) = {}
    /\ p.stopping \subseteq Active(p)
    /\ \A w \in Workers \ p.worker : p.child[w] = "absent"

(* Every worker is either available or busy, never both nor neither, and a *)
(* worker told to stop is busy: otherwise nothing would ever give it work  *)
(* or drop it (the sets of reactor/redirector/manager.py:27-31).           *)
PoolTables == PoolOK(pool)

(* The process is a set of questions answered once each and in any order,  *)
(* as the reactor of the proxy takes it to be: no request is lost or       *)
(* answered twice when workers fail, are respawned or are stopped.         *)
Abstract == INSTANCE Questions WITH asked <- Unanswered, answered <- Answered

AnsweredOnce == Abstract!Spec

(* Each client is answered after all, although workers die, unless the     *)
(* process hangs reading a worker that closed its output.                  *)
EveryoneAnswered ==
    \A c \in Clients : Unanswered[c] > 0 ~> Unanswered[c] = 0 \/ at = "hung"

(* The workers that are not told to stop exceed the maximum by one at most *)
(* (provision() counts before it adds).                                    *)
AlmostMaximum == Cardinality(pool.worker \ pool.stopping) <= pool.high + 1

(* The maximum number of concurrent workers (manager.py:20).               *)
AtMostMaximum == Cardinality(pool.worker) <= pool.high
=============================================================================

----------------------------- MODULE WorkerPool -----------------------------
(***************************************************************************)
(* The workers of the redirector process: reactor/redirector/manager.py,   *)
(* with what it needs of reactor/redirector/worker.py and of the program   *)
(* (the child) that each worker runs.                                      *)
(*                                                                         *)
(* A pool is a value.  An operation that may go several ways (which worker *)
(* is taken, whether its child is alive) returns a set of results, each    *)
(* the pool after the call and the clients answered by it.                 *)
(***************************************************************************)
EXTENDS Integers, Sequences, FiniteSetsExt

CONSTANTS Clients,    \* those who ask
          Workers,    \* names of workers
          Low, High,  \* the configured minimum and maximum of workers
          NoJob

ASSUME PoolAssumption ==
    /\ Low \in Nat /\ High \in Nat
    /\ IsFiniteSet(Workers)
    /\ NoJob \notin [client : Clients, tainted : BOOLEAN]

\* A request; tainted when a worker failed on it already.
Jobs == [client : Clients, tainted : BOOLEAN]

\* The program: never started; waiting; given a request; has answered it; its
\* output is closed but it has not exited; gone.
ChildStates == {"absent", "idle", "busy", "answered", "closing", "dead"}

Pools ==
    [worker    : SUBSET Workers,
     available : SUBSET Workers,
     active    : [Workers -> Jobs \cup {NoJob}],
     stopping  : SUBSET Workers,
     child     : [Workers -> ChildStates],
     queue     : Seq(Jobs),
     low : Int, high : Int]

NoWorkers ==
    [worker |-> {}, available |-> {}, active |-> [w \in Workers |-> NoJob],
     stopping |-> {}, child |-> [w \in Workers |-> "absent"],
     queue |-> <<>>, low |-> Low, high |-> High]

Active(p) == {w \in Workers : p.active[w] # NoJob}
-----------------------------------------------------------------------------
(* Starting and stopping workers.                                          *)

join(p, new, started) ==
    [p EXCEPT !.worker = @ \cup new, !.available = @ \cup new,
              !.child = [w \in Workers |-> IF w \in started THEN "idle" ELSE @[w]]]

\* A program that cannot be started leaves an available worker without one.
spawn(p, number) ==
    UNION {{join(p, new, started) : started \in SUBSET new} :
             new \in kSubset(number, Workers \ p.worker)}

reap(p, w) ==
    IF w \notin p.worker THEN p
    ELSE [p EXCEPT !.worker = @ \ {w}, !.available = @ \ {w}, !.active[w] = NoJob,
                   !.stopping = @ \ {w}, !.child[w] = "absent"]

\* An active worker is stopped when it is released.
stopWorker(p, w) ==
    IF p.active[w] = NoJob THEN reap(p, w) ELSE [p EXCEPT !.stopping = @ \cup {w}]

\* The oldest worker not told to stop, if there is one: any of them, for the
\* clock may have been set, but not to before all of them were created
\* (_oldest would then find none).
stopOldest(p) ==
    IF p.worker \subseteq p.stopping THEN {p}
    ELSE {stopWorker(p, w) : w \in p.worker \ p.stopping}

release_KeepsStopping(p, w) ==
    IF w \notin p.worker THEN p ELSE [p EXCEPT !.available = @ \cup {w}]

release(p, w) ==
    IF w \notin p.worker THEN p
    ELSE IF w \in p.stopping THEN reap(p, w)
    ELSE [p EXCEPT !.available = @ \cup {w}]
-----------------------------------------------------------------------------
(* Requests.                                                               *)

Result(p, answers) == [pool |-> p, answers |-> answers]

give(p, w, job) ==
    [p EXCEPT !.available = @ \ {w}, !.active[w] = job,
              !.child[w] = IF @ = "idle" THEN "busy" ELSE @]

\* The available workers whose program seems to run: decide() may hand it the
\* request, or answer without it.
Willing(p) == {w \in p.available : p.child[w] \in {"idle", "closing"}}

\* A request meets an available worker that does not fail, or there is none.
try(p, job) ==
    IF p.available = {} THEN {Result([p EXCEPT !.queue = Append(@, job)], <<>>)}
    ELSE {Result(give(p, w, job), <<>>) : w \in Willing(p)}
         \cup {Result(release([p EXCEPT !.available = @ \ {w}], w), <<job.client>>) :
                 w \in Willing(p)}

\* A request meets a worker that fails, as any may: the worker is dropped.
failures(p) == {reap(p, w) : w \in p.available}

taint(job) == [job EXCEPT !.tainted = TRUE]

\* The last chance of a request: then the client is told to close.
retry(p, job) ==
    try(p, job) \cup {Result(q, <<job.client>>) : q \in failures(p)}

\* A request that fails goes back to the queue as if it were new.
request_Requeues(p, job) ==
    try(p, job)
    \cup {Result([q EXCEPT !.queue = Append(@, job)], <<>>) : q \in failures(p)}

\* A request is tried twice.
request(p, job) ==
    IF job.tainted THEN retry(p, job)
    ELSE try(p, job) \cup UNION {retry(q, taint(job)) : q \in failures(p)}

doqueue_AlwaysPops(p) ==
    IF p.queue = <<>> THEN {Result(p, <<>>)}
    ELSE IF p.available = {} THEN {Result([p EXCEPT !.queue = Tail(@)], <<>>)}
    ELSE request([p EXCEPT !.queue = Tail(@)], Head(p.queue))

doqueue(p) ==
    IF p.available = {} \/ p.queue = <<>> THEN {Result(p, <<>>)}
    ELSE request([p EXCEPT !.queue = Tail(@)], Head(p.queue))

\* The output of a worker is readable.  A worker that holds no request has lost
\* its program.  Otherwise `answered' says whether an answer could be made of
\* what the program wrote; the worker is dropped if not.
getDecision(p, w, answered) ==
    IF w \notin p.worker THEN {Result(p, <<>>)}
    ELSE IF p.active[w] = NoJob THEN {Result(reap(p, w), <<>>)}
    ELSE LET job  == p.active[w]
             free == [p EXCEPT !.active[w] = NoJob,
                               !.child[w] = IF @ = "answered" THEN "idle" ELSE @]
             done == release(free, w)
         IN  IF answered THEN {Result(done, <<job.client>>)}
             ELSE IF job.tainted THEN {Result(reap(done, w), <<job.client>>)}
             ELSE retry(reap(done, w), taint(job))
-----------------------------------------------------------------------------
(* The size of the pool.                                                   *)

provision_NoCeiling(p) ==
    LET number == Cardinality(p.worker)
    IN  spawn(p, Max({0, p.low - number}) + (IF Len(p.queue) >= number THEN 1 ELSE 0))

\* The shortage is counted before the missing workers are added.
provision(p) ==
    LET number  == Cardinality(p.worker)
        missing == Max({0, p.low - number})
        growth  == Min({Max({1, Min({p.low, (p.high - p.low) \div 4})}), p.high - number})
    IN  spawn(p, missing + IF Len(p.queue) >= number /\ number < p.high THEN growth ELSE 0)

deprovision(p) ==
    IF p.queue = <<>> /\ Cardinality(p.worker) > p.low THEN stopOldest(p) ELSE {p}

\* Every worker is stopped, the busy ones when they are released.
respawn(p) ==
    LET number == Max({Min({Cardinality(p.worker), p.high}), p.low})
        busy   == p.worker \cap Active(p)
    IN  spawn([p EXCEPT !.worker = busy, !.available = {}, !.stopping = busy,
                        !.child = [w \in Workers |->
                                     IF w \in busy THEN @[w] ELSE "absent"]],
              number)

increase(p) ==
    LET low  == p.low + 1
        high == Max({low, p.high})
        q    == [p EXCEPT !.low = low, !.high = high]
    IN  IF Cardinality(p.worker) < high THEN spawn(q, 1) ELSE {q}

decrease(p) ==
    LET high == Max({1, p.high - 1})
        low  == Min({high, p.low})
        q    == [p EXCEPT !.low = low, !.high = high]
    IN  IF low < Cardinality(p.worker) THEN stopOldest(q) ELSE {q}
=============================================================================

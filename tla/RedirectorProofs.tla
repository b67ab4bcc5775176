-------------------------- MODULE RedirectorProofs --------------------------
(***************************************************************************)
(* The tables of the worker pool agree in every reachable state.  First,   *)
(* the operations of WorkerPool: each takes a pool whose tables agree      *)
(* (PoolOK) to such pools.  Then the steps of the process.                 *)
(***************************************************************************)
EXTENDS RedirectorProperties, TLAPS

LEMMA PoolTypes ==
    ASSUME NEW p \in Pools
    PROVE  /\ p.worker \in SUBSET Workers /\ p.available \in SUBSET Workers
           /\ p.active \in [Workers -> Jobs \cup {NoJob}]
           /\ p.stopping \in SUBSET Workers
           /\ p.child \in [Workers -> ChildStates]
           /\ p.queue \in Seq(Jobs) /\ p.low \in Int /\ p.high \in Int
           /\ p = [worker |-> p.worker, available |-> p.available,
                   active |-> p.active, stopping |-> p.stopping,
                   child |-> p.child, queue |-> p.queue,
                   low |-> p.low, high |-> p.high]
  BY DEF Pools

\* While worker w changes hands it is neither available nor active.
Between(p, w) ==
    /\ p \in Pools
    /\ w \in p.worker /\ w \notin p.available /\ w \notin Active(p)
    /\ p.worker = p.available \cup Active(p) \cup {w}
    /\ p.available \cap Active(p) = {}
    /\ p.stopping \subseteq Active(p) \cup {w}
    /\ \A v \in Workers \ p.worker : p.child[v] = "absent"

LEMMA ReapFields ==
    ASSUME NEW p \in Pools, NEW w \in p.worker, NEW q, q = reap(p, w)
    PROVE  /\ q \in Pools
           /\ q.worker = p.worker \ {w} /\ q.available = p.available \ {w}
           /\ q.active = [p.active EXCEPT ![w] = NoJob]
           /\ q.stopping = p.stopping \ {w}
           /\ q.child = [p.child EXCEPT ![w] = "absent"]
  <1>1. /\ q.worker = p.worker \ {w} /\ q.available = p.available \ {w}
        /\ q.active = [p.active EXCEPT ![w] = NoJob]
        /\ q.stopping = p.stopping \ {w}
        /\ q.child = [p.child EXCEPT ![w] = "absent"]
    BY DEF reap, Pools
  <1>2. q \in Pools
    BY PoolTypes DEF reap, Pools, ChildStates
  <1> QED
    BY <1>1, <1>2

LEMMA ReapedOK ==
    ASSUME NEW p, NEW w, w \in p.worker, PoolOK(p) \/ Between(p, w),
           NEW q, q = reap(p, w)
    PROVE  PoolOK(q)
  <1>1. p \in Pools /\ w \in Workers
    BY PoolTypes DEF PoolOK, Between
  <1>2. /\ q \in Pools
        /\ q.worker = p.worker \ {w} /\ q.available = p.available \ {w}
        /\ q.active = [p.active EXCEPT ![w] = NoJob]
        /\ q.stopping = p.stopping \ {w}
        /\ q.child = [p.child EXCEPT ![w] = "absent"]
    BY <1>1, ReapFields
  <1>3. Active(q) = Active(p) \ {w}
    BY <1>1, <1>2, PoolTypes DEF Active
  <1>4. /\ p.worker = p.available \cup Active(p) \cup {w}
        /\ p.available \cap Active(p) = {}
        /\ p.stopping \subseteq Active(p) \cup {w}
        /\ \A v \in Workers \ p.worker : p.child[v] = "absent"
    BY DEF PoolOK, Between
  <1>5. \A v \in Workers \ q.worker : q.child[v] = "absent"
    BY <1>1, <1>2, <1>4, PoolTypes
  <1> QED
    BY <1>2, <1>3, <1>4, <1>5 DEF PoolOK

LEMMA ReapOK ==
    ASSUME NEW p, PoolOK(p), NEW w, NEW q, q = reap(p, w)
    PROVE  PoolOK(q)
  <1>1. CASE w \in p.worker
    BY <1>1, ReapedOK
  <1>2. CASE w \notin p.worker
    BY <1>2 DEF reap
  <1> QED
    BY <1>1, <1>2

LEMMA ReleaseOK ==
    ASSUME NEW p, NEW w, Between(p, w), NEW q, q = release(p, w)
    PROVE  PoolOK(q)
  <1>1. p \in Pools /\ w \in p.worker /\ w \in Workers
    BY PoolTypes DEF Between
  <1>2. CASE w \in p.stopping
    BY <1>1, <1>2, ReapedOK DEF release
  <1>3. CASE w \notin p.stopping
    <2>1. q = [p EXCEPT !.available = @ \cup {w}]
      BY <1>1, <1>3 DEF release
    <2>2. q \in Pools
      BY <1>1, <2>1, PoolTypes DEF Pools
    <2>3. /\ q.worker = p.worker /\ q.stopping = p.stopping /\ q.active = p.active
          /\ q.available = p.available \cup {w} /\ q.child = p.child
      BY <1>1, <2>1 DEF Pools
    <2>4. Active(q) = Active(p)
      BY <2>3 DEF Active
    <2> QED
      BY <1>3, <2>2, <2>3, <2>4 DEF PoolOK, Between
  <1> QED
    BY <1>2, <1>3
-----------------------------------------------------------------------------
(* Requests.                                                               *)

LEMMA QueueOK ==
    ASSUME NEW p, PoolOK(p), NEW s \in Seq(Jobs), NEW q, q = [p EXCEPT !.queue = s]
    PROVE  PoolOK(q)
  <1>1. p \in Pools
    BY DEF PoolOK
  <1>2. q \in Pools
    BY <1>1, PoolTypes DEF Pools
  <1>3. /\ q.worker = p.worker /\ q.stopping = p.stopping /\ q.active = p.active
        /\ q.available = p.available /\ q.child = p.child
    BY <1>1 DEF Pools
  <1>4. Active(q) = Active(p)
    BY <1>3 DEF Active
  <1> QED
    BY <1>2, <1>3, <1>4 DEF PoolOK

LEMMA EnqueueOK ==
    ASSUME NEW p, PoolOK(p), NEW job \in Jobs,
           NEW q, q = [p EXCEPT !.queue = Append(@, job)]
    PROVE  PoolOK(q)
  <1>1. Append(p.queue, job) \in Seq(Jobs)
    BY PoolTypes DEF PoolOK
  <1>2. q = [p EXCEPT !.queue = Append(p.queue, job)]
    OBVIOUS
  <1> QED
    BY <1>1, <1>2, QueueOK

LEMMA GiveOK ==
    ASSUME NEW p, PoolOK(p), NEW w \in p.available, NEW job \in Jobs,
           NEW q, q = give(p, w, job)
    PROVE  PoolOK(q)
  <1>1. /\ p \in Pools /\ w \in Workers /\ w \in p.worker /\ job # NoJob
        /\ p.child[w] \in ChildStates
    BY PoolTypes, PoolAssumption DEF PoolOK, Jobs
  <1>2. q \in Pools
    BY <1>1, PoolTypes DEF give, Pools, ChildStates
  <1>3. /\ q.worker = p.worker /\ q.stopping = p.stopping
        /\ q.active = [p.active EXCEPT ![w] = job]
        /\ q.available = p.available \ {w}
        /\ q.child = [p.child EXCEPT ![w] = IF @ = "idle" THEN "busy" ELSE @]
    BY <1>1 DEF give, Pools
  <1>4. Active(q) = Active(p) \cup {w}
    BY <1>1, <1>3, PoolTypes DEF Active
  <1>5. \A v \in Workers \ q.worker : q.child[v] = "absent"
    BY <1>1, <1>3, PoolTypes DEF PoolOK
  <1> QED
    BY <1>1, <1>2, <1>3, <1>4, <1>5 DEF PoolOK

\* An available worker that answers without its program is released.
LEMMA AnswerOK ==
    ASSUME NEW p, PoolOK(p), NEW w \in p.available,
           NEW q, q = release([p EXCEPT !.available = @ \ {w}], w)
    PROVE  PoolOK(q)
  <1>1. PICK u : u = [p EXCEPT !.available = @ \ {w}]
    OBVIOUS
  <1>2. p \in Pools /\ w \in p.worker
    BY DEF PoolOK
  <1>3. u \in Pools
    BY <1>1, <1>2, PoolTypes DEF Pools
  <1>4. /\ u.worker = p.worker /\ u.stopping = p.stopping /\ u.active = p.active
        /\ u.available = p.available \ {w} /\ u.child = p.child
    BY <1>1, <1>2 DEF Pools
  <1>5. Active(u) = Active(p)
    BY <1>4 DEF Active
  <1>6. Between(u, w)
    BY <1>2, <1>3, <1>4, <1>5 DEF PoolOK, Between
  <1> QED
    BY <1>1, <1>6, ReleaseOK

LEMMA TryOK ==
    ASSUME NEW p, PoolOK(p), NEW job \in Jobs, NEW r \in try(p, job)
    PROVE  PoolOK(r.pool)
  <1>1. CASE p.available = {}
    <2>1. r.pool = [p EXCEPT !.queue = Append(@, job)]
      BY <1>1 DEF try, Result
    <2> QED
      BY <2>1, EnqueueOK
  <1>2. CASE p.available # {}
    <2>1. PICK w \in p.available :
            \/ r = Result(give(p, w, job), <<>>)
            \/ r = Result(release([p EXCEPT !.available = @ \ {w}], w), <<job.client>>)
      BY <1>2 DEF try, Willing
    <2>2. CASE r = Result(give(p, w, job), <<>>)
      BY <2>2, GiveOK DEF Result
    <2>3. CASE r = Result(release([p EXCEPT !.available = @ \ {w}], w), <<job.client>>)
      BY <2>3, AnswerOK DEF Result
    <2> QED
      BY <2>1, <2>2, <2>3
  <1> QED
    BY <1>1, <1>2

LEMMA FailuresOK ==
    ASSUME NEW p, PoolOK(p), NEW q \in failures(p)
    PROVE  PoolOK(q)
  BY ReapOK DEF failures

LEMMA TaintOK ==
    ASSUME NEW job \in Jobs
    PROVE  taint(job) \in Jobs
  BY DEF taint, Jobs

LEMMA RetryOK ==
    ASSUME NEW p, PoolOK(p), NEW job \in Jobs, NEW r \in retry(p, job)
    PROVE  PoolOK(r.pool)
  <1>1. CASE r \in try(p, job)
    BY <1>1, TryOK
  <1>2. CASE \E q \in failures(p) : r = Result(q, <<job.client>>)
    BY <1>2, FailuresOK DEF Result
  <1> QED
    BY <1>1, <1>2 DEF retry

LEMMA RequestOK ==
    ASSUME NEW p, PoolOK(p), NEW job \in Jobs, NEW r \in request(p, job)
    PROVE  PoolOK(r.pool)
  <1>1. CASE r \in retry(p, job)
    BY <1>1, RetryOK
  <1>2. CASE r \in try(p, job)
    BY <1>2, TryOK
  <1>3. CASE \E q \in failures(p) : r \in retry(q, taint(job))
    BY <1>3, FailuresOK, RetryOK, TaintOK
  <1> QED
    BY <1>1, <1>2, <1>3 DEF request

LEMMA DoqueueOK ==
    ASSUME NEW p, PoolOK(p), NEW r \in doqueue(p)
    PROVE  PoolOK(r.pool)
  <1>1. CASE p.available = {} \/ p.queue = <<>>
    BY <1>1 DEF doqueue, Result
  <1>2. CASE ~(p.available = {} \/ p.queue = <<>>)
    <2>1. PICK q : q = [p EXCEPT !.queue = Tail(@)]
      OBVIOUS
    <2>2. p.queue \in Seq(Jobs) /\ p.queue # <<>>
      BY <1>2, PoolTypes DEF PoolOK
    <2>3. Tail(p.queue) \in Seq(Jobs) /\ Head(p.queue) \in Jobs
      BY <2>2
    <2>4. q = [p EXCEPT !.queue = Tail(p.queue)]
      BY <2>1
    <2>5. PoolOK(q)
      BY <2>3, <2>4, QueueOK
    <2>6. r \in request(q, Head(p.queue))
      BY <1>2, <2>1 DEF doqueue
    <2> QED
      BY <2>3, <2>5, <2>6, RequestOK
  <1> QED
    BY <1>1, <1>2

\* The pool once progress() has taken the request of worker w.
LEMMA ProgressOK ==
    ASSUME NEW p, PoolOK(p), NEW w \in Active(p),
           NEW u, u = [p EXCEPT !.active[w] = NoJob,
                                !.child[w] = IF @ = "answered" THEN "idle" ELSE @]
    PROVE  Between(u, w)
  <1>1. /\ p \in Pools /\ w \in Workers /\ w \in p.worker
        /\ w \notin p.available /\ p.child[w] \in ChildStates
    BY PoolTypes DEF PoolOK, Active
  <1>2. u \in Pools
    BY <1>1, PoolTypes DEF Pools, ChildStates
  <1>3. /\ u.worker = p.worker /\ u.stopping = p.stopping
        /\ u.active = [p.active EXCEPT ![w] = NoJob] /\ u.available = p.available
        /\ u.child = [p.child EXCEPT ![w] = IF @ = "answered" THEN "idle" ELSE @]
    BY <1>1 DEF Pools
  <1>4. Active(u) = Active(p) \ {w}
    BY <1>1, <1>3, PoolTypes DEF Active
  <1>5. \A v \in Workers \ u.worker : u.child[v] = "absent"
    BY <1>1, <1>3, PoolTypes DEF PoolOK
  <1> QED
    BY <1>1, <1>2, <1>3, <1>4, <1>5 DEF PoolOK, Between

LEMMA GetDecisionOK ==
    ASSUME NEW p, PoolOK(p), NEW w, NEW answered, NEW r \in getDecision(p, w, answered)
    PROVE  PoolOK(r.pool)
  <1>1. CASE w \notin p.worker
    BY <1>1 DEF getDecision, Result
  <1>2. CASE w \in p.worker /\ p.active[w] = NoJob
    BY <1>2, ReapOK DEF getDecision, Result
  <1>3. CASE w \in p.worker /\ p.active[w] # NoJob
    <2>1. PICK u, done :
            /\ u = [p EXCEPT !.active[w] = NoJob,
                             !.child[w] = IF @ = "answered" THEN "idle" ELSE @]
            /\ done = release(u, w)
      OBVIOUS
    <2>2. w \in Active(p) /\ p.active[w] \in Jobs
      BY <1>3, PoolTypes DEF PoolOK, Active
    <2>3. PoolOK(done)
      BY <2>1, <2>2, ProgressOK, ReleaseOK
    <2>4. PICK dropped : dropped = reap(done, w)
      OBVIOUS
    <2>5. PoolOK(dropped)
      BY <2>3, <2>4, ReapOK
    <2>6. \/ r.pool = done \/ r.pool = dropped
          \/ r \in retry(dropped, taint(p.active[w]))
      BY <1>3, <2>1, <2>4 DEF getDecision, Result
    <2> QED
      BY <2>2, <2>3, <2>5, <2>6, RetryOK, TaintOK
  <1> QED
    BY <1>1, <1>2, <1>3
-----------------------------------------------------------------------------
(* The size of the pool.                                                   *)

LEMMA MaxOfTwo ==
    ASSUME NEW a \in Int, NEW b \in Int
    PROVE  Max({a, b}) \in Int /\ Min({a, b}) \in Int
  <1>1. /\ \E x \in {a, b} : \A y \in {a, b} : x >= y
        /\ \E x \in {a, b} : \A y \in {a, b} : x =< y
    OBVIOUS
  <1>2. Max({a, b}) \in {a, b} /\ Min({a, b}) \in {a, b}
    BY <1>1 DEF Max, Min
  <1> QED
    BY <1>2

LEMMA JoinOK ==
    ASSUME NEW p, PoolOK(p), NEW new \in SUBSET (Workers \ p.worker),
           NEW started \in SUBSET new, NEW q, q = join(p, new, started)
    PROVE  PoolOK(q)
  <1>1. p \in Pools
    BY DEF PoolOK
  <1>2. q \in Pools
    BY <1>1, PoolTypes DEF join, Pools, ChildStates
  <1>3. /\ q.worker = p.worker \cup new /\ q.available = p.available \cup new
        /\ q.active = p.active /\ q.stopping = p.stopping
        /\ q.child = [w \in Workers |-> IF w \in started THEN "idle" ELSE p.child[w]]
    BY <1>1 DEF join, Pools
  <1>4. Active(q) = Active(p)
    BY <1>3 DEF Active
  <1>5. \A v \in Workers \ q.worker : q.child[v] = "absent"
    BY <1>3 DEF PoolOK
  <1>6. q.available \cap Active(q) = {}
    BY <1>3, <1>4 DEF PoolOK
  <1> QED
    BY <1>2, <1>3, <1>4, <1>5, <1>6 DEF PoolOK

LEMMA SpawnOK ==
    ASSUME NEW p, PoolOK(p), NEW number, NEW q \in spawn(p, number)
    PROVE  PoolOK(q)
  <1>1. PICK new \in kSubset(number, Workers \ p.worker) :
          q \in {join(p, new, started) : started \in SUBSET new}
    BY DEF spawn
  <1>2. new \in SUBSET (Workers \ p.worker)
    BY DEF kSubset
  <1> QED
    BY <1>1, <1>2, JoinOK

LEMMA StopWorkerOK ==
    ASSUME NEW p, PoolOK(p), NEW w \in p.worker, NEW q, q = stopWorker(p, w)
    PROVE  PoolOK(q)
  <1>1. CASE p.active[w] = NoJob
    BY <1>1, ReapOK DEF stopWorker
  <1>2. CASE p.active[w] # NoJob
    <2>1. p \in Pools /\ w \in Workers /\ w \in Active(p)
      BY <1>2, PoolTypes DEF PoolOK, Active
    <2>2. q = [p EXCEPT !.stopping = @ \cup {w}]
      BY <1>2 DEF stopWorker
    <2>3. q \in Pools
      BY <2>1, <2>2, PoolTypes DEF Pools
    <2>4. /\ q.worker = p.worker /\ q.available = p.available /\ q.active = p.active
          /\ q.stopping = p.stopping \cup {w} /\ q.child = p.child
      BY <2>1, <2>2 DEF Pools
    <2>5. Active(q) = Active(p)
      BY <2>4 DEF Active
    <2> QED
      BY <2>1, <2>3, <2>4, <2>5 DEF PoolOK
  <1> QED
    BY <1>1, <1>2

LEMMA StopOldestOK ==
    ASSUME NEW p, PoolOK(p), NEW q \in stopOldest(p)
    PROVE  PoolOK(q)
  BY StopWorkerOK DEF stopOldest

LEMMA ProvisionOK ==
    ASSUME NEW p, PoolOK(p), NEW q \in provision(p)
    PROVE  PoolOK(q)
  BY SpawnOK DEF provision

LEMMA DeprovisionOK ==
    ASSUME NEW p, PoolOK(p), NEW q \in deprovision(p)
    PROVE  PoolOK(q)
  BY StopOldestOK DEF deprovision

\* The pool once every worker has been stopped or is to be.
stopAll(p, busy) ==
    [p EXCEPT !.worker = busy, !.available = {}, !.stopping = busy,
              !.child = [w \in Workers |-> IF w \in busy THEN @[w] ELSE "absent"]]

LEMMA StopAllOK ==
    ASSUME NEW p, PoolOK(p), NEW q, q = stopAll(p, p.worker \cap Active(p))
    PROVE  PoolOK(q)
  <1>1. p \in Pools /\ p.worker \cap Active(p) = Active(p) /\ Active(p) \subseteq Workers
    BY DEF PoolOK, Active
  <1>2. q = stopAll(p, Active(p))
    BY <1>1
  <1>3. q \in Pools
    <2>1. PICK child : child = [w \in Workers |-> IF w \in Active(p) THEN p.child[w]
                                                 ELSE "absent"]
      OBVIOUS
    <2>2. child \in [Workers -> ChildStates]
      BY <1>1, <2>1, PoolTypes DEF ChildStates
    <2>3. q = [p EXCEPT !.worker = Active(p), !.available = {}, !.stopping = Active(p),
                        !.child = child]
      BY <1>2, <2>1 DEF stopAll
    <2> QED
      BY <1>1, <2>2, <2>3, PoolTypes DEF Pools
  <1>4. /\ q.worker = Active(p) /\ q.available = {} /\ q.active = p.active
        /\ q.stopping = Active(p)
        /\ q.child = [w \in Workers |-> IF w \in Active(p) THEN p.child[w] ELSE "absent"]
    BY <1>1, <1>2 DEF stopAll, Pools
  <1>5. Active(q) = Active(p)
    BY <1>4 DEF Active
  <1> QED
    BY <1>3, <1>4, <1>5 DEF PoolOK

LEMMA RespawnOK ==
    ASSUME NEW p, PoolOK(p), NEW q \in respawn(p)
    PROVE  PoolOK(q)
  <1>1. PICK u, number : u = stopAll(p, p.worker \cap Active(p)) /\ q \in spawn(u, number)
    BY DEF respawn, stopAll
  <1> QED
    BY <1>1, StopAllOK, SpawnOK

LEMMA LimitsOK ==
    ASSUME NEW p, PoolOK(p), NEW low \in Int, NEW high \in Int,
           NEW q, q = [p EXCEPT !.low = low, !.high = high]
    PROVE  PoolOK(q)
  <1>1. p \in Pools
    BY DEF PoolOK
  <1>2. q \in Pools
    BY <1>1, PoolTypes DEF Pools
  <1>3. /\ q.worker = p.worker /\ q.stopping = p.stopping /\ q.active = p.active
        /\ q.available = p.available /\ q.child = p.child
    BY <1>1 DEF Pools
  <1>4. Active(q) = Active(p)
    BY <1>3 DEF Active
  <1> QED
    BY <1>2, <1>3, <1>4 DEF PoolOK

LEMMA IncreaseOK ==
    ASSUME NEW p, PoolOK(p), NEW q \in increase(p)
    PROVE  PoolOK(q)
  <1>1. p.low + 1 \in Int /\ p.high \in Int
    BY PoolTypes DEF PoolOK
  <1>2. PICK low, high, u : /\ low = p.low + 1 /\ high = Max({low, p.high})
                            /\ u = [p EXCEPT !.low = low, !.high = high]
    OBVIOUS
  <1>3. low \in Int /\ high \in Int
    BY <1>1, <1>2, MaxOfTwo
  <1>4. PoolOK(u)
    BY <1>2, <1>3, LimitsOK
  <1>5. q \in spawn(u, 1) \/ q = u
    BY <1>2 DEF increase
  <1> QED
    BY <1>4, <1>5, SpawnOK

LEMMA DecreaseOK ==
    ASSUME NEW p, PoolOK(p), NEW q \in decrease(p)
    PROVE  PoolOK(q)
  <1>1. p.low \in Int /\ p.high - 1 \in Int
    BY PoolTypes DEF PoolOK
  <1>2. PICK low, high, u : /\ high = Max({1, p.high - 1}) /\ low = Min({high, p.low})
                            /\ u = [p EXCEPT !.low = low, !.high = high]
    OBVIOUS
  <1>3. low \in Int /\ high \in Int
    <2>1. high \in Int
      BY <1>1, <1>2, MaxOfTwo
    <2> QED
      BY <1>1, <1>2, <2>1, MaxOfTwo
  <1>4. PoolOK(u)
    BY <1>2, <1>3, LimitsOK
  <1>5. q \in stopOldest(u) \/ q = u
    BY <1>2 DEF decrease
  <1> QED
    BY <1>4, <1>5, StopOldestOK
-----------------------------------------------------------------------------
(* The process.  A request that is read is one that some client asked, and *)
(* the loop reads one only if there is one.                                *)
PipeOK ==
    /\ inbox \in Seq(Clients)
    /\ at = "request" => inbox # <<>>

IInv == PoolTables /\ PipeOK

LEMMA InitPool == Init => IInv
  <1> SUFFICES ASSUME Init PROVE IInv
    OBVIOUS
  <1>1. PoolOK(NoWorkers)
    <2>1. NoWorkers \in Pools
      BY PoolAssumption DEF NoWorkers, Pools, ChildStates
    <2>2. Active(NoWorkers) = {}
      BY DEF Active, NoWorkers
    <2> QED
      BY <2>1, <2>2 DEF PoolOK, NoWorkers
  <1>2. PoolOK(pool)
    BY <1>1, SpawnOK DEF Init
  <1>3. PipeOK
    BY DEF Init, PipeOK
  <1> QED
    BY <1>2, <1>3 DEF IInv, PoolTables

LEMMA BecomesOK ==
    ASSUME IInv, NEW w \in Workers, NEW from, NEW to \in ChildStates,
           from \subseteq ChildStates \ {"absent"}, becomes(w, from, to)
    PROVE  IInv'
  <1>1. PoolOK(pool) /\ pool \in Pools
    BY DEF IInv, PoolTables, PoolOK
  <1>2. PICK q : q = pool' /\ q = [pool EXCEPT !.child[w] = to]
    BY DEF becomes
  <1>3. q \in Pools
    BY <1>1, <1>2, PoolTypes DEF Pools
  <1>4. /\ q.worker = pool.worker /\ q.stopping = pool.stopping
        /\ q.active = pool.active /\ q.available = pool.available
        /\ q.child = [pool.child EXCEPT ![w] = to]
    BY <1>1, <1>2 DEF Pools
  <1>5. Active(q) = Active(pool)
    BY <1>4 DEF Active
  <1>6. w \in pool.worker
    BY <1>1 DEF becomes, PoolOK
  <1>7. \A v \in Workers \ q.worker : q.child[v] = "absent"
    BY <1>1, <1>4, <1>6, PoolTypes DEF PoolOK
  <1>8. PoolOK(q)
    BY <1>1, <1>3, <1>4, <1>5, <1>7 DEF PoolOK
  <1> QED
    BY <1>2, <1>8 DEF IInv, PoolTables, PipeOK, becomes

LEMMA SuperviseOK ==
    ASSUME IInv, supervise
    PROVE  IInv'
  <1>1. PICK p \in (IF count_increase' = 0 THEN provision(pool) ELSE {pool}) :
          \E q \in (IF count_decrease' = 0 THEN deprovision(p) ELSE {p}) :
            pool' \in (IF respawning THEN respawn(q) ELSE {q})
    BY DEF supervise
  <1>2. PICK q \in (IF count_decrease' = 0 THEN deprovision(p) ELSE {p}) :
          pool' \in (IF respawning THEN respawn(q) ELSE {q})
    BY <1>1
  <1>3. PoolOK(p)
    BY <1>1, ProvisionOK DEF IInv, PoolTables
  <1>4. PoolOK(q)
    BY <1>2, <1>3, DeprovisionOK
  <1>5. PoolOK(pool')
    BY <1>2, <1>4, RespawnOK
  <1> QED
    BY <1>5 DEF IInv, PoolTables, PipeOK, supervise

\* Every step of the process, of the children and of the proxy.
LEMMA NextPool == IInv /\ [Next]_vars => IInv'
  <1> SUFFICES ASSUME IInv, [Next]_vars PROVE IInv'
    OBVIOUS
  <1>0. PoolOK(pool) /\ inbox \in Seq(Clients)
    BY DEF IInv, PoolTables, PipeOK
  <1> USE DEF IInv, PoolTables, PipeOK
  <1>1. CASE UNCHANGED vars
    BY <1>1 DEF vars
  <1>2. ASSUME NEW c \in Clients, Ask(c) PROVE IInv'
    <2>1. inbox' \in Seq(Clients) /\ inbox' # <<>>
      BY <1>0, <1>2 DEF Ask
    <2> QED
      BY <1>2, <2>1 DEF Ask
  <1>3. CASE Receive
    BY <1>3 DEF Receive
  <1>4. ASSUME NEW w \in Workers, ChildAnswers(w) \/ ChildCloses(w) \/ ChildExits(w)
        PROVE  IInv'
    BY <1>4, BecomesOK DEF ChildAnswers, ChildCloses, ChildExits, ChildStates
  <1>5. CASE start
    <2>1. PoolOK(pool')
      BY <1>0, <1>5, DoqueueOK DEF start
    <2> QED
      BY <1>5, <2>1 DEF start
  <1>6. CASE poll
    BY <1>6 DEF poll
  <1>7. CASE readRequest
    <2>1. PICK job : job = [client |-> Head(inbox), tainted |-> FALSE]
      OBVIOUS
    <2>2. job \in Jobs /\ Tail(inbox) \in Seq(Clients)
      BY <1>0, <1>7, <2>1 DEF readRequest, Jobs
    <2>3. PoolOK(pool')
      BY <1>0, <1>7, <2>1, <2>2, RequestOK DEF readRequest, Take
    <2> QED
      BY <1>7, <2>2, <2>3 DEF readRequest
  <1>8. ASSUME NEW w \in Workers, readDecision(w) PROVE IInv'
    <2>1. PoolOK(pool')
      BY <1>0, <1>8, GetDecisionOK DEF readDecision, Take
    <2> QED
      BY <1>8, <2>1 DEF readDecision
  <1>9. ASSUME NEW w \in Workers, readNothing(w) PROVE IInv'
    BY <1>9 DEF readNothing
  <1>10. CASE serveQueue
    <2>1. PoolOK(pool')
      BY <1>0, <1>10, DoqueueOK DEF serveQueue, Take
    <2> QED
      BY <1>10, <2>1 DEF serveQueue
  <1>11. CASE supervise
    BY <1>11, SuperviseOK
  <1>12. CASE control
    <2>1. PoolOK(pool')
      BY <1>0, <1>12, IncreaseOK, DecreaseOK DEF control
    <2> QED
      BY <1>12, <2>1 DEF control
  <1> QED
    BY <1>1, <1>2, <1>3, <1>4, <1>5, <1>6, <1>7, <1>8, <1>9, <1>10, <1>11, <1>12
    DEF Next, Loop

(* In every reachable state, whatever the number of clients and workers    *)
(* and the limits, every worker of the pool is available or busy, and only *)
(* busy ones are to be stopped (reactor/redirector/manager.py:27-34).      *)
THEOREM PoolTablesAgree == Spec => []PoolTables
  <1>1. Init => IInv
    BY InitPool
  <1>2. IInv /\ [Next]_vars => IInv'
    BY NextPool
  <1>3. IInv => PoolTables
    BY DEF IInv
  <1> QED
    BY <1>1, <1>2, <1>3, PTL DEF Spec
=============================================================================

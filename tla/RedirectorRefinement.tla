------------------------ MODULE RedirectorRefinement ------------------------
(***************************************************************************)
(* The redirector process answers every question once, and its pool stays  *)
(* within one worker of the maximum.  Both follow from what an operation   *)
(* of WorkerPool does with the request it is given: it is queued, held by  *)
(* a worker or answered, and nothing else is touched but workers that hold *)
(* no request.                                                             *)
(***************************************************************************)
EXTENDS RedirectorProofs, FiniteSetTheorems

\* Workers without a request are dropped, if anything.
Kept(p, q) ==
    /\ q.low = p.low /\ q.high = p.high
    /\ q.worker \ q.stopping \subseteq p.worker \ p.stopping
    /\ q.queue = p.queue /\ q.active = p.active

\* A request of client d is answered, queued or given to an idle worker.
Handles(p, d, r) ==
    /\ r.pool.low = p.low /\ r.pool.high = p.high
    /\ r.pool.worker \ r.pool.stopping \subseteq p.worker \ p.stopping
    /\ \/ /\ r.answers = <<d>>
          /\ r.pool.queue = p.queue /\ r.pool.active = p.active
       \/ /\ r.answers = <<>>
          /\ \E job \in Jobs :
               /\ job.client = d
               /\ \/ /\ r.pool.queue = Append(p.queue, job)
                     /\ r.pool.active = p.active
                  \/ /\ r.pool.queue = p.queue
                     /\ \E w \in Workers \ Active(p) :
                          r.pool.active = [p.active EXCEPT ![w] = job]

LEMMA KeptHandles ==
    ASSUME NEW p, NEW q, NEW d, NEW r, Kept(p, q), Handles(q, d, r)
    PROVE  Handles(p, d, r)
  <1>1. Active(q) = Active(p)
    BY DEF Kept, Active
  <1> QED
    BY <1>1 DEF Kept, Handles

LEMMA ReapKeeps ==
    ASSUME NEW p \in Pools, NEW w \in Workers \ Active(p), NEW q, q = reap(p, w)
    PROVE  q \in Pools /\ Kept(p, q)
  <1>1. CASE w \notin p.worker
    BY <1>1 DEF reap, Kept
  <1>2. CASE w \in p.worker
    <2>1. /\ q.low = p.low /\ q.high = p.high /\ q.queue = p.queue
          /\ q.worker = p.worker \ {w} /\ q.stopping = p.stopping \ {w}
          /\ q.active = [p.active EXCEPT ![w] = NoJob]
      BY <1>2 DEF reap, Pools
    <2>2. q.active = p.active
      BY <2>1, PoolTypes DEF Active
    <2>3. q \in Pools
      BY <1>2, ReapFields
    <2> QED
      BY <2>1, <2>2, <2>3 DEF Kept
  <1> QED
    BY <1>1, <1>2

LEMMA ReleaseKeeps ==
    ASSUME NEW p \in Pools, NEW w \in Workers \ Active(p), NEW q, q = release(p, w)
    PROVE  q \in Pools /\ Kept(p, q)
  <1>1. CASE w \notin p.worker
    BY <1>1 DEF release, Kept
  <1>2. CASE w \in p.worker /\ w \in p.stopping
    BY <1>2, ReapKeeps DEF release
  <1>3. CASE w \in p.worker /\ w \notin p.stopping
    <2>1. q = [p EXCEPT !.available = @ \cup {w}]
      BY <1>3 DEF release
    <2>2. q \in Pools
      BY <1>3, <2>1, PoolTypes DEF Pools
    <2>3. /\ q.low = p.low /\ q.high = p.high /\ q.worker = p.worker
          /\ q.stopping = p.stopping /\ q.queue = p.queue /\ q.active = p.active
      BY <2>1 DEF Pools
    <2> QED
      BY <2>2, <2>3 DEF Kept
  <1> QED
    BY <1>1, <1>2, <1>3

LEMMA FailureKeeps ==
    ASSUME NEW p, PoolOK(p), NEW q \in failures(p)
    PROVE  Kept(p, q)
  <1>1. PICK w \in p.available : q = reap(p, w)
    BY DEF failures
  <1>2. p \in Pools /\ w \in Workers \ Active(p)
    BY PoolTypes DEF PoolOK
  <1> QED
    BY <1>1, <1>2, ReapKeeps

LEMMA TryHandles ==
    ASSUME NEW p, PoolOK(p), NEW job \in Jobs, NEW r \in try(p, job)
    PROVE  Handles(p, job.client, r)
  <1>0. p \in Pools
    BY DEF PoolOK
  <1>1. CASE p.available = {}
    <2>1. r.pool = [p EXCEPT !.queue = Append(@, job)] /\ r.answers = <<>>
      BY <1>1 DEF try, Result
    <2>2. /\ r.pool.low = p.low /\ r.pool.high = p.high
          /\ r.pool.worker = p.worker /\ r.pool.stopping = p.stopping
          /\ r.pool.queue = Append(p.queue, job) /\ r.pool.active = p.active
      BY <1>0, <2>1 DEF Pools
    <2> QED
      BY <2>1, <2>2 DEF Handles
  <1>2. CASE p.available # {}
    <2>1. PICK w \in p.available :
            \/ r = Result(give(p, w, job), <<>>)
            \/ r = Result(release([p EXCEPT !.available = @ \ {w}], w), <<job.client>>)
      BY <1>2 DEF try, Willing
    <2>2. w \in Workers \ Active(p)
      BY <1>0, PoolTypes DEF PoolOK
    <2>3. CASE r = Result(give(p, w, job), <<>>)
      <3>1. r.pool = give(p, w, job) /\ r.answers = <<>>
        BY <2>3 DEF Result
      <3>2. /\ r.pool.low = p.low /\ r.pool.high = p.high
            /\ r.pool.worker = p.worker /\ r.pool.stopping = p.stopping
            /\ r.pool.queue = p.queue
            /\ r.pool.active = [p.active EXCEPT ![w] = job]
        BY <1>0, <3>1 DEF Pools, give
      <3> QED
        BY <2>2, <3>1, <3>2 DEF Handles
    <2>4. CASE r = Result(release([p EXCEPT !.available = @ \ {w}], w), <<job.client>>)
      <3>1. PICK u : u = [p EXCEPT !.available = @ \ {w}]
        OBVIOUS
      <3>2. r.pool = release(u, w) /\ r.answers = <<job.client>>
        BY <2>4, <3>1 DEF Result
      <3>3. u \in Pools
        BY <1>0, <3>1, PoolTypes DEF Pools
      <3>4. /\ u.low = p.low /\ u.high = p.high /\ u.worker = p.worker
            /\ u.stopping = p.stopping /\ u.queue = p.queue /\ u.active = p.active
        BY <1>0, <3>1 DEF Pools
      <3>5. Active(u) = Active(p)
        BY <3>4 DEF Active
      <3>6. Kept(u, r.pool)
        BY <2>2, <3>2, <3>3, <3>5, ReleaseKeeps
      <3> QED
        BY <3>2, <3>4, <3>6 DEF Kept, Handles
    <2> QED
      BY <2>1, <2>3, <2>4
  <1> QED
    BY <1>1, <1>2

LEMMA RetryHandles ==
    ASSUME NEW p, PoolOK(p), NEW job \in Jobs, NEW r \in retry(p, job)
    PROVE  Handles(p, job.client, r)
  <1>1. CASE r \in try(p, job)
    BY <1>1, TryHandles
  <1>2. CASE \E q \in failures(p) : r = Result(q, <<job.client>>)
    <2>1. Kept(p, r.pool) /\ r.answers = <<job.client>>
      BY <1>2, FailureKeeps DEF Result
    <2> QED
      BY <2>1 DEF Kept, Handles
  <1> QED
    BY <1>1, <1>2 DEF retry

LEMMA RequestHandles ==
    ASSUME NEW p, PoolOK(p), NEW job \in Jobs, NEW r \in request(p, job)
    PROVE  Handles(p, job.client, r)
  <1>1. CASE r \in retry(p, job)
    BY <1>1, RetryHandles
  <1>2. CASE r \in try(p, job)
    BY <1>2, TryHandles
  <1>3. CASE \E q \in failures(p) : r \in retry(q, taint(job))
    <2>1. PICK q \in failures(p) : r \in retry(q, taint(job))
      BY <1>3
    <2>2. taint(job).client = job.client
      BY DEF taint, Jobs
    <2>3. Kept(p, q) /\ Handles(q, job.client, r)
      BY <2>1, <2>2, FailureKeeps, FailuresOK, RetryHandles, TaintOK
    <2> QED
      BY <2>3, KeptHandles
  <1> QED
    BY <1>1, <1>2, <1>3 DEF request

\* What is left of the pool when a request is taken off the queue.
LEMMA DoqueueHandles ==
    ASSUME NEW p, PoolOK(p), NEW r \in doqueue(p)
    PROVE  \/ r = Result(p, <<>>)
           \/ /\ p.queue # <<>>
              /\ Handles([p EXCEPT !.queue = Tail(p.queue)], Head(p.queue).client, r)
  <1>1. CASE p.available = {} \/ p.queue = <<>>
    BY <1>1 DEF doqueue
  <1>2. CASE ~(p.available = {} \/ p.queue = <<>>)
    <2>1. p.queue \in Seq(Jobs) /\ p.queue # <<>>
      BY <1>2, PoolTypes DEF PoolOK
    <2>2. Tail(p.queue) \in Seq(Jobs) /\ Head(p.queue) \in Jobs
      BY <2>1
    <2>3. PICK q : q = [p EXCEPT !.queue = Tail(p.queue)]
      OBVIOUS
    <2>4. PoolOK(q)
      BY <2>2, <2>3, QueueOK
    <2>5. r \in request(q, Head(p.queue))
      BY <1>2, <2>3 DEF doqueue
    <2>6. Handles(q, Head(p.queue).client, r)
      BY <2>2, <2>4, <2>5, RequestHandles
    <2> QED
      BY <2>1, <2>3, <2>6
  <1> QED
    BY <1>1, <1>2

\* The pool without the request that worker w held.
Freed(p, w) ==
    [p EXCEPT !.active[w] = NoJob,
              !.child[w] = IF @ = "answered" THEN "idle" ELSE @]

LEMMA GetDecisionHandles ==
    ASSUME NEW p, PoolOK(p), NEW w \in Workers, NEW answered,
           NEW r \in getDecision(p, w, answered)
    PROVE  \/ r.answers = <<>> /\ Kept(p, r.pool)
           \/ /\ w \in Active(p)
              /\ Handles(Freed(p, w), p.active[w].client, r)
  <1>0. p \in Pools
    BY DEF PoolOK
  <1>1. CASE w \notin p.worker
    BY <1>1 DEF getDecision, Result, Kept
  <1>2. CASE w \in p.worker /\ p.active[w] = NoJob
    <2>1. r.pool = reap(p, w) /\ r.answers = <<>>
      BY <1>2 DEF getDecision, Result
    <2>2. w \in Workers \ Active(p)
      BY <1>2 DEF Active
    <2> QED
      BY <1>0, <2>1, <2>2, ReapKeeps
  <1>3. CASE w \in p.worker /\ p.active[w] # NoJob
    <2>1. PICK u, done, dropped, job :
            /\ u = Freed(p, w)
            /\ done = release(u, w)
            /\ dropped = reap(done, w)
            /\ job = p.active[w]
      OBVIOUS
    <2>2. w \in Active(p) /\ job \in Jobs
      BY <1>3, <2>1, PoolTypes DEF PoolOK, Active
    <2>3. Between(u, w)
      BY <2>1, <2>2, ProgressOK DEF Freed
    <2>4. u \in Pools /\ w \in Workers \ Active(u)
      BY <2>3 DEF Between
    <2>5. Kept(u, done) /\ done \in Pools
      BY <2>1, <2>4, ReleaseKeeps
    <2>6. w \in Workers \ Active(done)
      BY <2>4, <2>5 DEF Kept, Active
    <2>7. Kept(done, dropped)
      BY <2>1, <2>5, <2>6, ReapKeeps
    <2>8. Kept(u, dropped)
      BY <2>5, <2>7 DEF Kept
    <2>9. PoolOK(done) /\ PoolOK(dropped)
      BY <2>1, <2>3, ReleaseOK, ReapOK
    <2>10. \/ r = Result(done, <<job.client>>)
           \/ r = Result(dropped, <<job.client>>)
           \/ r \in retry(dropped, taint(job))
      BY <1>3, <2>1 DEF getDecision, Freed
    <2>11. Handles(u, job.client, r)
      <3>1. CASE r = Result(done, <<job.client>>)
        BY <2>5, <3>1 DEF Kept, Handles, Result
      <3>2. CASE r = Result(dropped, <<job.client>>)
        BY <2>8, <3>2 DEF Kept, Handles, Result
      <3>3. CASE r \in retry(dropped, taint(job))
        <4>1. taint(job) \in Jobs /\ taint(job).client = job.client
          BY <2>2, TaintOK DEF taint, Jobs
        <4>2. Handles(dropped, job.client, r)
          BY <2>9, <3>3, <4>1, RetryHandles
        <4> QED
          BY <2>8, <4>2, KeptHandles
      <3> QED
        BY <2>10, <3>1, <3>2, <3>3
    <2> QED
      BY <2>1, <2>2, <2>11
  <1> QED
    BY <1>1, <1>2, <1>3
-----------------------------------------------------------------------------
(* Counting the requests of a client.                                      *)

\* The places where a sequence holds a member of T.
Hits(s, T) == {i \in DOMAIN s : s[i] \in T}

LEMMA HitsFinite ==
    ASSUME NEW S, NEW s \in Seq(S), NEW T
    PROVE  IsFiniteSet(Hits(s, T)) /\ Cardinality(Hits(s, T)) \in Nat
  <1>1. Hits(s, T) \in SUBSET (1..Len(s)) /\ Len(s) \in Nat
    BY DEF Hits
  <1>2. IsFiniteSet(1..Len(s))
    BY <1>1, FS_Interval
  <1> QED
    BY <1>1, <1>2, FS_Subset, FS_CardinalityType

LEMMA AppendHits ==
    ASSUME NEW S, NEW s \in Seq(S), NEW e \in S, NEW T
    PROVE  Cardinality(Hits(Append(s, e), T))
             = Cardinality(Hits(s, T)) + (IF e \in T THEN 1 ELSE 0)
  <1>1. /\ DOMAIN Append(s, e) = 1..(Len(s) + 1) /\ Append(s, e)[Len(s) + 1] = e
        /\ DOMAIN s = 1..Len(s) /\ Len(s) \in Nat
        /\ \A i \in 1..Len(s) : Append(s, e)[i] = s[i]
    OBVIOUS
  <1>2. /\ Len(s) + 1 \notin Hits(s, T)
        /\ IsFiniteSet(Hits(s, T)) /\ Cardinality(Hits(s, T)) \in Nat
    <2>1. Len(s) + 1 \notin Hits(s, T)
      BY <1>1 DEF Hits
    <2> QED
      BY <2>1, HitsFinite
  <1>3. CASE e \in T
    <2>1. Hits(Append(s, e), T) = Hits(s, T) \cup {Len(s) + 1}
      BY <1>1, <1>3 DEF Hits
    <2> QED
      BY <1>2, <1>3, <2>1, FS_AddElement
  <1>4. CASE e \notin T
    <2>1. Hits(Append(s, e), T) = Hits(s, T)
      BY <1>1, <1>4 DEF Hits
    <2> QED
      BY <1>2, <1>4, <2>1
  <1> QED
    BY <1>3, <1>4

LEMMA TailHits ==
    ASSUME NEW S, NEW s \in Seq(S), s # <<>>, NEW T
    PROVE  Cardinality(Hits(s, T))
             = Cardinality(Hits(Tail(s), T)) + (IF Head(s) \in T THEN 1 ELSE 0)
  <1>1. /\ DOMAIN s = 1..Len(s) /\ Len(s) \in Nat \ {0}
        /\ Tail(s) \in Seq(S) /\ DOMAIN Tail(s) = 1..(Len(s) - 1)
        /\ \A i \in 1..(Len(s) - 1) : Tail(s)[i] = s[i + 1]
        /\ Head(s) = s[1]
    OBVIOUS
  <1>2. PICK rest : rest = Hits(s, T) \ {1}
    OBVIOUS
  <1>3. /\ IsFiniteSet(rest) /\ IsFiniteSet(Hits(Tail(s), T))
        /\ Cardinality(Hits(s, T)) = Cardinality(rest) + (IF Head(s) \in T THEN 1 ELSE 0)
    <2>1. IsFiniteSet(Hits(s, T)) /\ Cardinality(Hits(s, T)) \in Nat
      BY HitsFinite
    <2>2. 1 \in Hits(s, T) <=> Head(s) \in T
      BY <1>1 DEF Hits
    <2>3. IsFiniteSet(Hits(Tail(s), T))
      BY <1>1, HitsFinite
    <2>4. /\ IsFiniteSet(rest)
          /\ Cardinality(rest) = IF 1 \in Hits(s, T) THEN Cardinality(Hits(s, T)) - 1
                                 ELSE Cardinality(Hits(s, T))
      BY <1>2, <2>1, FS_RemoveElement
    <2> QED
      BY <2>1, <2>2, <2>3, <2>4
  <1>4. PICK f : f = [i \in Hits(Tail(s), T) |-> i + 1]
    OBVIOUS
  <1>5. f \in Bijection(Hits(Tail(s), T), rest)
    <2>1. \A i \in Hits(Tail(s), T) : i \in 1..(Len(s) - 1) /\ f[i] = i + 1
      BY <1>1, <1>4 DEF Hits
    <2>2. \A i \in Hits(Tail(s), T) : f[i] \in rest
      BY <1>1, <1>2, <2>1 DEF Hits
    <2>3. \A j \in rest : j - 1 \in Hits(Tail(s), T) /\ f[j - 1] = j
      BY <1>1, <1>2, <1>4 DEF Hits
    <2>4. f \in Injection(Hits(Tail(s), T), rest)
      BY <1>4, <2>1, <2>2 DEF Injection, IsInjective
    <2>5. f \in Surjection(Hits(Tail(s), T), rest)
      BY <1>4, <2>2, <2>3 DEF Surjection
    <2> QED
      BY <2>4, <2>5 DEF Bijection
  <1> QED
    BY <1>3, <1>5, FS_Bijection DEF ExistsBijection

Waiting(p, c) == Cardinality({i \in DOMAIN p.queue : p.queue[i].client = c})

Working(p, c) == Cardinality({w \in Active(p) : p.active[w].client = c})

JobsOf(c) == {job \in Jobs : job.client = c}

\* The requests of client c that a pool holds.
Held(p, c) == Waiting(p, c) + Working(p, c)

One(d, c) == IF d = c THEN 1 ELSE 0

LEMMA WaitingHits ==
    ASSUME NEW q, NEW c, q.queue \in Seq(Jobs)
    PROVE  Waiting(q, c) = Cardinality(Hits(q.queue, JobsOf(c)))
  <1>1. \A i \in DOMAIN q.queue : q.queue[i] \in Jobs
    OBVIOUS
  <1>2. {i \in DOMAIN q.queue : q.queue[i].client = c} = Hits(q.queue, JobsOf(c))
    BY <1>1 DEF Hits, JobsOf
  <1> QED
    BY <1>2 DEF Waiting

LEMMA HeldType ==
    ASSUME NEW p \in Pools, NEW c
    PROVE  Waiting(p, c) \in Nat /\ Working(p, c) \in Nat
  <1>1. Waiting(p, c) \in Nat
    BY PoolTypes, WaitingHits, HitsFinite
  <1>2. {w \in Active(p) : p.active[w].client = c} \in SUBSET Workers
    BY DEF Active
  <1>3. Working(p, c) \in Nat
    BY <1>2, PoolAssumption, FS_Subset, FS_CardinalityType DEF Working
  <1> QED
    BY <1>1, <1>3

LEMMA HeldAppended ==
    ASSUME NEW p \in Pools, NEW job \in Jobs, NEW q, NEW c,
           q.queue = Append(p.queue, job), q.active = p.active
    PROVE  Held(q, c) = Held(p, c) + One(job.client, c)
  <1>1. p.queue \in Seq(Jobs) /\ q.queue \in Seq(Jobs)
    BY PoolTypes
  <1>2. Waiting(q, c) = Waiting(p, c) + One(job.client, c)
    <2>1. Cardinality(Hits(q.queue, JobsOf(c)))
            = Cardinality(Hits(p.queue, JobsOf(c))) + (IF job \in JobsOf(c) THEN 1 ELSE 0)
      BY <1>1, AppendHits
    <2>2. job \in JobsOf(c) <=> job.client = c
      BY DEF JobsOf
    <2> QED
      BY <1>1, <2>1, <2>2, WaitingHits DEF One
  <1>3. Working(q, c) = Working(p, c)
    BY DEF Working, Active
  <1> QED
    BY <1>2, <1>3, HeldType DEF Held, One

LEMMA HeldTail ==
    ASSUME NEW p \in Pools, p.queue # <<>>, NEW q, NEW c,
           q.queue = Tail(p.queue), q.active = p.active
    PROVE  Held(p, c) = Held(q, c) + One(Head(p.queue).client, c)
  <1>1. p.queue \in Seq(Jobs) /\ q.queue \in Seq(Jobs) /\ Head(p.queue) \in Jobs
    BY PoolTypes
  <1>2. Waiting(p, c) = Waiting(q, c) + One(Head(p.queue).client, c)
    <2>1. Cardinality(Hits(p.queue, JobsOf(c)))
            = Cardinality(Hits(q.queue, JobsOf(c)))
              + (IF Head(p.queue) \in JobsOf(c) THEN 1 ELSE 0)
      BY <1>1, TailHits
    <2>2. Head(p.queue) \in JobsOf(c) <=> Head(p.queue).client = c
      BY <1>1 DEF JobsOf
    <2> QED
      BY <1>1, <2>1, <2>2, WaitingHits DEF One
  <1>3. Working(q, c) = Working(p, c)
    BY DEF Working, Active
  <1>4. Waiting(q, c) \in Nat
    BY <1>1, WaitingHits, HitsFinite
  <1> QED
    BY <1>2, <1>3, <1>4, HeldType DEF Held, One

\* A worker takes a request, or loses the one it held.
LEMMA HeldGiven ==
    ASSUME NEW p \in Pools, NEW w \in Workers \ Active(p), NEW job \in Jobs,
           NEW q, NEW c,
           q.queue = p.queue, q.active = [p.active EXCEPT ![w] = job]
    PROVE  Held(q, c) = Held(p, c) + One(job.client, c)
  <1>1. Active(q) = Active(p) \cup {w} /\ q.active[w] = job
        /\ \A v \in Active(p) : q.active[v] = p.active[v]
    BY PoolTypes, PoolAssumption DEF Active, Jobs
  <1>2. PICK busy : busy = {v \in Active(p) : p.active[v].client = c}
    OBVIOUS
  <1>3. IsFiniteSet(busy) /\ w \notin busy
    BY <1>2, PoolAssumption, FS_Subset DEF Active
  <1>4. {v \in Active(q) : q.active[v].client = c}
          = IF job.client = c THEN busy \cup {w} ELSE busy
    BY <1>1, <1>2
  <1>5. Working(q, c) = Working(p, c) + One(job.client, c)
    <2>1. Cardinality(busy \cup {w}) = Cardinality(busy) + 1
      BY <1>3, FS_AddElement
    <2>2. Working(p, c) = Cardinality(busy) /\ Working(p, c) \in Nat
      BY <1>2, HeldType DEF Working
    <2>3. Working(q, c) = IF job.client = c THEN Cardinality(busy \cup {w})
                          ELSE Cardinality(busy)
      BY <1>4 DEF Working
    <2> QED
      BY <2>1, <2>2, <2>3 DEF One
  <1>6. Waiting(q, c) = Waiting(p, c)
    BY DEF Waiting
  <1> QED
    BY <1>5, <1>6, HeldType DEF Held, One

LEMMA HeldFreed ==
    ASSUME NEW p \in Pools, NEW w \in Active(p), NEW q, NEW c,
           q.queue = p.queue, q.active = [p.active EXCEPT ![w] = NoJob]
    PROVE  Held(p, c) = Held(q, c) + One(p.active[w].client, c)
  <1>1. Active(q) = Active(p) \ {w} /\ \A v \in Active(q) : q.active[v] = p.active[v]
    BY PoolTypes DEF Active
  <1>2. PICK busy : busy = {v \in Active(q) : q.active[v].client = c}
    OBVIOUS
  <1>3. IsFiniteSet(busy) /\ w \notin busy /\ Cardinality(busy) \in Nat
    BY <1>1, <1>2, PoolAssumption, FS_Subset, FS_CardinalityType DEF Active
  <1>4. {v \in Active(p) : p.active[v].client = c}
          = IF p.active[w].client = c THEN busy \cup {w} ELSE busy
    BY <1>1, <1>2
  <1>5. Working(p, c) = Working(q, c) + One(p.active[w].client, c)
    <2>1. Cardinality(busy \cup {w}) = Cardinality(busy) + 1
      BY <1>3, FS_AddElement
    <2>2. Working(q, c) = Cardinality(busy)
      BY <1>2 DEF Working
    <2>3. Working(p, c) = IF p.active[w].client = c THEN Cardinality(busy \cup {w})
                          ELSE Cardinality(busy)
      BY <1>4 DEF Working
    <2> QED
      BY <1>3, <2>1, <2>2, <2>3 DEF One
  <1>6. Waiting(q, c) = Waiting(p, c) /\ Working(q, c) \in Nat
    BY <1>2, <1>3 DEF Waiting, Working
  <1> QED
    BY <1>5, <1>6, HeldType DEF Held, One

LEMMA HeldSame ==
    ASSUME NEW p, NEW q, NEW c, q.queue = p.queue, q.active = p.active
    PROVE  Held(q, c) = Held(p, c)
  BY DEF Held, Waiting, Working, Active

LEMMA HandlesHeld ==
    ASSUME NEW p \in Pools, NEW d, NEW r, Handles(p, d, r), NEW c
    PROVE  \/ r.answers = <<d>> /\ Held(r.pool, c) = Held(p, c)
           \/ r.answers = <<>> /\ Held(r.pool, c) = Held(p, c) + One(d, c)
  <1>1. CASE /\ r.answers = <<d>>
             /\ r.pool.queue = p.queue /\ r.pool.active = p.active
    BY <1>1, HeldSame
  <1>2. ASSUME r.answers = <<>>, NEW job \in Jobs, job.client = d,
               r.pool.queue = Append(p.queue, job), r.pool.active = p.active
        PROVE  Held(r.pool, c) = Held(p, c) + One(d, c)
    BY <1>2, HeldAppended
  <1>3. ASSUME r.answers = <<>>, NEW job \in Jobs, job.client = d,
               r.pool.queue = p.queue, NEW w \in Workers \ Active(p),
               r.pool.active = [p.active EXCEPT ![w] = job]
        PROVE  Held(r.pool, c) = Held(p, c) + One(d, c)
    BY <1>3, HeldGiven
  <1> QED
    BY <1>1, <1>2, <1>3 DEF Handles
-----------------------------------------------------------------------------
(* The size of the pool changes, and no request moves.                     *)

SameRequests(p, q) == q.queue = p.queue /\ q.active = p.active

LEMMA SpawnSame ==
    ASSUME NEW p \in Pools, NEW number, NEW q \in spawn(p, number)
    PROVE  SameRequests(p, q)
  <1>1. PICK new, started : q = join(p, new, started)
    BY DEF spawn
  <1> QED
    BY <1>1 DEF join, Pools, SameRequests

LEMMA StopOldestSame ==
    ASSUME NEW p, PoolOK(p), NEW q \in stopOldest(p)
    PROVE  SameRequests(p, q)
  <1>0. p \in Pools
    BY DEF PoolOK
  <1>1. CASE q = p
    BY <1>1 DEF SameRequests
  <1>2. ASSUME NEW w \in p.worker \ p.stopping, q = stopWorker(p, w)
        PROVE  SameRequests(p, q)
    <2>1. CASE p.active[w] = NoJob
      <3>1. w \in Workers \ Active(p)
        BY <1>0, <2>1, PoolTypes DEF Active
      <3> QED
        BY <1>0, <1>2, <2>1, <3>1, ReapKeeps DEF stopWorker, Kept, SameRequests
    <2>2. CASE p.active[w] # NoJob
      BY <1>0, <1>2, <2>2 DEF stopWorker, SameRequests, Pools
    <2> QED
      BY <2>1, <2>2
  <1> QED
    BY <1>1, <1>2 DEF stopOldest

LEMMA RespawnSame ==
    ASSUME NEW p, PoolOK(p), NEW q \in respawn(p)
    PROVE  SameRequests(p, q)
  <1>1. PICK u, number : u = stopAll(p, p.worker \cap Active(p)) /\ q \in spawn(u, number)
    BY DEF respawn, stopAll
  <1>2. PoolOK(u)
    BY <1>1, StopAllOK
  <1>3. SameRequests(u, q)
    BY <1>1, <1>2, SpawnSame DEF PoolOK
  <1>4. SameRequests(p, u)
    BY <1>1 DEF PoolOK, Pools, stopAll, SameRequests
  <1> QED
    BY <1>3, <1>4 DEF SameRequests

LEMMA LimitsSame ==
    ASSUME NEW p \in Pools, NEW low, NEW high, NEW q, q = [p EXCEPT !.low = low, !.high = high]
    PROVE  SameRequests(p, q)
  BY DEF Pools, SameRequests

LEMMA IncreaseSame ==
    ASSUME NEW p, PoolOK(p), NEW q \in increase(p)
    PROVE  SameRequests(p, q)
  <1>1. PICK low, high, u : /\ low = p.low + 1 /\ high = Max({low, p.high})
                            /\ u = [p EXCEPT !.low = low, !.high = high]
    OBVIOUS
  <1>2. p \in Pools /\ low \in Int /\ high \in Int
    <2>1. p \in Pools /\ low \in Int /\ p.high \in Int
      BY <1>1, PoolTypes DEF PoolOK
    <2> QED
      BY <1>1, <2>1, MaxOfTwo
  <1>3. PoolOK(u) /\ SameRequests(p, u)
    BY <1>1, <1>2, LimitsOK, LimitsSame
  <1>4. q \in spawn(u, 1) \/ q = u
    BY <1>1 DEF increase
  <1> QED
    BY <1>3, <1>4, SpawnSame DEF PoolOK, SameRequests

LEMMA DecreaseSame ==
    ASSUME NEW p, PoolOK(p), NEW q \in decrease(p)
    PROVE  SameRequests(p, q)
  <1>1. PICK low, high, u : /\ high = Max({1, p.high - 1}) /\ low = Min({high, p.low})
                            /\ u = [p EXCEPT !.low = low, !.high = high]
    OBVIOUS
  <1>2. p \in Pools /\ p.low \in Int /\ high \in Int
    <2>1. p \in Pools /\ p.low \in Int /\ p.high - 1 \in Int
      BY PoolTypes DEF PoolOK
    <2> QED
      BY <1>1, <2>1, MaxOfTwo
  <1>3. low \in Int
    BY <1>1, <1>2, MaxOfTwo
  <1>4. PoolOK(u) /\ SameRequests(p, u)
    BY <1>1, <1>2, <1>3, LimitsOK, LimitsSame
  <1>5. q \in stopOldest(u) \/ q = u
    BY <1>1 DEF decrease
  <1> QED
    BY <1>4, <1>5, StopOldestSame DEF SameRequests

LEMMA SuperviseSame ==
    ASSUME IInv, supervise
    PROVE  SameRequests(pool, pool')
  <1>1. PICK p \in (IF count_increase' = 0 THEN provision(pool) ELSE {pool}) :
          \E q \in (IF count_decrease' = 0 THEN deprovision(p) ELSE {p}) :
            pool' \in (IF respawning THEN respawn(q) ELSE {q})
    BY DEF supervise
  <1>2. PICK q \in (IF count_decrease' = 0 THEN deprovision(p) ELSE {p}) :
          pool' \in (IF respawning THEN respawn(q) ELSE {q})
    BY <1>1
  <1>3. PoolOK(pool) /\ PoolOK(p) /\ PoolOK(q)
    BY <1>1, <1>2, ProvisionOK, DeprovisionOK DEF IInv, PoolTables
  <1>4. SameRequests(pool, p)
    BY <1>1, <1>3, SpawnSame DEF provision, PoolOK, SameRequests
  <1>5. SameRequests(p, q)
    BY <1>2, <1>3, StopOldestSame DEF deprovision, SameRequests
  <1>6. SameRequests(q, pool')
    BY <1>2, <1>3, RespawnSame DEF SameRequests
  <1> QED
    BY <1>4, <1>5, <1>6 DEF SameRequests
-----------------------------------------------------------------------------
(* The process implements Questions.                                       *)

\* Questions of client c in a pipe and a pool, and answers in a pipe.
Asked(i, p, c) == Cardinality(Hits(i, {c})) + Held(p, c)

Given(o, c) == Cardinality(Hits(o, {c}))

PipesOK == IInv /\ outbox \in Seq(Clients)

LEMMA Counts ==
    ASSUME NEW i \in Seq(Clients), NEW p \in Pools, NEW c
    PROVE  /\ Asked(i, p, c) \in Nat
           /\ Asked(i, p, c)
                = Occurrences(c, i)
                  + Cardinality({n \in DOMAIN p.queue : p.queue[n].client = c})
                  + Cardinality({w \in Active(p) : p.active[w].client = c})
           /\ Given(i, c) \in Nat /\ Given(i, c) = Occurrences(c, i)
  <1>1. Hits(i, {c}) = {n \in DOMAIN i : i[n] = c}
    BY DEF Hits
  <1>2. Given(i, c) \in Nat /\ Given(i, c) = Occurrences(c, i)
    BY <1>1, HitsFinite DEF Given, Occurrences
  <1>3. Waiting(p, c) \in Nat /\ Working(p, c) \in Nat
    BY HeldType
  <1> QED
    BY <1>2, <1>3 DEF Asked, Given, Held, Waiting, Working

LEMMA UnansweredIs ==
    ASSUME PipesOK
    PROVE  /\ Unanswered = [c \in Clients |-> Asked(inbox, pool, c)]
           /\ Answered = [c \in Clients |-> Given(outbox, c)]
  <1>1. inbox \in Seq(Clients) /\ pool \in Pools /\ outbox \in Seq(Clients)
    BY DEF PipesOK, IInv, PoolTables, PoolOK, PipeOK
  <1>2. \A c \in Clients :
          /\ Asked(inbox, pool, c)
               = Occurrences(c, inbox)
                 + Cardinality({i \in DOMAIN pool.queue : pool.queue[i].client = c})
                 + Cardinality({w \in Active(pool) : pool.active[w].client = c})
          /\ Given(outbox, c) = Occurrences(c, outbox)
    BY <1>1, Counts
  <1> QED
    BY <1>2 DEF Unanswered, Answered

LEMMA UnansweredIsNext ==
    ASSUME PipesOK'
    PROVE  /\ Unanswered' = [c \in Clients |-> Asked(inbox', pool', c)]
           /\ Answered' = [c \in Clients |-> Given(outbox', c)]
  <1>1. inbox' \in Seq(Clients) /\ pool' \in Pools /\ outbox' \in Seq(Clients)
    BY DEF PipesOK, IInv, PoolTables, PoolOK, PipeOK
  <1>2. \A c \in Clients :
          /\ Asked(inbox', pool', c)
               = Occurrences(c, inbox')
                 + Cardinality({i \in DOMAIN pool'.queue : pool'.queue[i].client = c})
                 + Cardinality({w \in Active(pool') : pool'.active[w].client = c})
          /\ Given(outbox', c) = Occurrences(c, outbox')
    BY <1>1, Counts
  <1> QED
    BY <1>2 DEF Unanswered, Answered

\* A step that leaves the counts alone stutters.
LEMMA Stutters ==
    ASSUME PipesOK, PipesOK', outbox' = outbox,
           \A c \in Clients : Asked(inbox', pool', c) = Asked(inbox, pool, c)
    PROVE  UNCHANGED <<Unanswered, Answered>>
  BY UnansweredIs, UnansweredIsNext

\* A question that leaves the pipe and the pool, for an answer.
LEMMA Answers ==
    ASSUME PipesOK, PipesOK', NEW d \in Clients, outbox' = Append(outbox, d),
           \A c \in Clients :
             Asked(inbox, pool, c) = Asked(inbox', pool', c) + One(d, c)
    PROVE  Abstract!Answer(d)
  <1>1. \A c \in Clients : Given(outbox', c) = Given(outbox, c) + One(d, c)
    <2> TAKE c \in Clients
    <2>1. Cardinality(Hits(outbox', {c}))
            = Cardinality(Hits(outbox, {c})) + (IF d \in {c} THEN 1 ELSE 0)
      BY AppendHits DEF PipesOK
    <2> QED
      BY <2>1 DEF Given, One
  <1>2. \A c \in Clients : /\ Asked(inbox, pool, c) \in Nat
                            /\ Asked(inbox', pool', c) \in Nat
                            /\ Given(outbox, c) \in Nat
    BY Counts DEF PipesOK, IInv, PoolTables, PoolOK, PipeOK
  <1>3. Unanswered[d] > 0
    BY <1>2, UnansweredIs DEF One
  <1>4. Unanswered' = [Unanswered EXCEPT ![d] = @ - 1]
    <2>1. /\ Unanswered = [c \in Clients |-> Asked(inbox, pool, c)]
          /\ Unanswered' = [c \in Clients |-> Asked(inbox', pool', c)]
      BY UnansweredIs, UnansweredIsNext
    <2>2. \A c \in Clients : Asked(inbox', pool', c)
                               = IF c = d THEN Asked(inbox, pool, c) - 1
                                 ELSE Asked(inbox, pool, c)
      BY <1>2 DEF One
    <2> QED
      BY <2>1, <2>2
  <1>5. Answered' = [Answered EXCEPT ![d] = @ + 1]
    BY <1>1, <1>2, UnansweredIs, UnansweredIsNext DEF One
  <1> QED
    BY <1>3, <1>4, <1>5 DEF Abstract!Answer

\* A request of client d, taken out of the pipe or of the pool, is handled.
LEMMA HandledStep ==
    ASSUME PipesOK, PipesOK', NEW d \in Clients, NEW u \in Pools, NEW r,
           Handles(u, d, r), pool' = r.pool, outbox' = outbox \o r.answers,
           \A c \in Clients : Asked(inbox, pool, c) = Asked(inbox', u, c) + One(d, c)
    PROVE  UNCHANGED <<Unanswered, Answered>> \/ Abstract!Answer(d)
  <1>1. inbox' \in Seq(Clients) /\ outbox \in Seq(Clients) /\ pool' \in Pools
    BY DEF PipesOK, IInv, PoolTables, PoolOK, PipeOK
  <1>2. \A c \in Clients : Asked(inbox', u, c) \in Nat /\ Asked(inbox', pool', c) \in Nat
    BY <1>1, Counts
  <1>3. \A c \in Clients : Held(u, c) \in Nat /\ Cardinality(Hits(inbox', {c})) \in Nat
    BY <1>1, HeldType, HitsFinite DEF Held
  <1>4. CASE r.answers = <<>>
    <2>1. outbox' = outbox
      BY <1>1, <1>4
    <2>2. \A c \in Clients : Held(pool', c) = Held(u, c) + One(d, c)
      BY <1>4, HandlesHeld
    <2>3. \A c \in Clients : Asked(inbox', pool', c) = Asked(inbox, pool, c)
      <3> TAKE c \in Clients
      <3>1. /\ Asked(inbox', pool', c) = Cardinality(Hits(inbox', {c})) + Held(pool', c)
            /\ Asked(inbox', u, c) = Cardinality(Hits(inbox', {c})) + Held(u, c)
        BY DEF Asked
      <3>2. One(d, c) \in Nat
        BY DEF One
      <3> QED
        BY <1>3, <2>2, <3>1, <3>2
    <2> QED
      BY <2>1, <2>3, Stutters
  <1>5. CASE r.answers = <<d>>
    <2>1. outbox' = Append(outbox, d)
      BY <1>1, <1>5
    <2>2. \A c \in Clients : Held(pool', c) = Held(u, c)
      <3> TAKE c \in Clients
      <3>1. r.answers # <<>>
        BY <1>5
      <3> QED
        BY <1>5, <3>1, HandlesHeld
    <2>3. \A c \in Clients : Asked(inbox, pool, c) = Asked(inbox', pool', c) + One(d, c)
      BY <2>2 DEF Asked
    <2> QED
      BY <2>1, <2>3, Answers
  <1> QED
    BY <1>4, <1>5 DEF Handles

LEMMA DoqueueStep ==
    ASSUME PipesOK, PipesOK', inbox' = inbox, NEW r \in doqueue(pool),
           pool' = r.pool, outbox' = outbox \o r.answers
    PROVE  \/ UNCHANGED <<Unanswered, Answered>>
           \/ \E d \in Clients : Abstract!Answer(d)
  <1>1. PoolOK(pool) /\ pool \in Pools /\ inbox \in Seq(Clients) /\ outbox \in Seq(Clients)
    BY DEF PipesOK, IInv, PoolTables, PoolOK, PipeOK
  <1>2. CASE r = Result(pool, <<>>)
    BY <1>1, <1>2, Stutters DEF Result
  <1>3. ASSUME pool.queue # <<>>, NEW u, u = [pool EXCEPT !.queue = Tail(pool.queue)],
               Handles(u, Head(pool.queue).client, r)
        PROVE  \/ UNCHANGED <<Unanswered, Answered>>
               \/ \E d \in Clients : Abstract!Answer(d)
    <2>1. pool.queue \in Seq(Jobs)
      BY <1>1, PoolTypes
    <2>2. Head(pool.queue) \in Jobs /\ Tail(pool.queue) \in Seq(Jobs)
      BY <1>3, <2>1
    <2>3. PICK d \in Clients : d = Head(pool.queue).client
      BY <2>2 DEF Jobs
    <2>4. u \in Pools /\ u.queue = Tail(pool.queue) /\ u.active = pool.active
      BY <1>1, <1>3, <2>2, PoolTypes DEF Pools
    <2>5. \A c \in Clients : Held(pool, c) = Held(u, c) + One(d, c)
      BY <1>1, <1>3, <2>3, <2>4, HeldTail
    <2>6. \A c \in Clients : Asked(inbox, pool, c) = Asked(inbox', u, c) + One(d, c)
      <3> TAKE c \in Clients
      <3>1. Cardinality(Hits(inbox, {c})) \in Nat /\ Held(u, c) \in Nat
        BY <1>1, <2>4, HitsFinite, HeldType DEF Held
      <3> QED
        BY <2>5, <3>1 DEF Asked, One
    <2> QED
      <3>1. Handles(u, d, r)
        BY <1>3, <2>3
      <3>2. UNCHANGED <<Unanswered, Answered>> \/ Abstract!Answer(d)
        BY <2>4, <2>6, <3>1, HandledStep
      <3> QED
        BY <3>2
  <1> QED
    BY <1>1, <1>2, <1>3, DoqueueHandles

LEMMA ReadRequestStep ==
    ASSUME PipesOK, PipesOK', readRequest
    PROVE  \/ UNCHANGED <<Unanswered, Answered>>
           \/ \E d \in Clients : Abstract!Answer(d)
  <1>1. /\ PoolOK(pool) /\ pool \in Pools
        /\ inbox \in Seq(Clients) /\ inbox # <<>> /\ inbox' = Tail(inbox)
    BY DEF PipesOK, IInv, PoolTables, PoolOK, PipeOK, readRequest
  <1>2. PICK d \in Clients : d = Head(inbox)
    BY <1>1
  <1>3. PICK job : job = [client |-> d, tainted |-> FALSE]
    OBVIOUS
  <1>4. job \in Jobs /\ job.client = d
    BY <1>3 DEF Jobs
  <1>5. PICK r \in request(pool, job) : pool' = r.pool /\ outbox' = outbox \o r.answers
    BY <1>2, <1>3 DEF readRequest, Take
  <1>6. Handles(pool, d, r)
    BY <1>1, <1>4, <1>5, RequestHandles
  <1>7. \A c \in Clients : Asked(inbox, pool, c) = Asked(inbox', pool, c) + One(d, c)
    <2> TAKE c \in Clients
    <2>1. Cardinality(Hits(inbox, {c}))
            = Cardinality(Hits(inbox', {c})) + (IF d \in {c} THEN 1 ELSE 0)
      BY <1>1, <1>2, TailHits
    <2>2. Tail(inbox) \in Seq(Clients)
      BY <1>1
    <2>3. Cardinality(Hits(inbox', {c})) \in Nat
      BY <1>1, <2>2, HitsFinite
    <2>4. Held(pool, c) \in Nat
      BY <1>1, HeldType DEF Held
    <2> QED
      BY <2>1, <2>3, <2>4 DEF Asked, One
  <1> QED
    BY <1>1, <1>5, <1>6, <1>7, HandledStep

LEMMA ReadDecisionStep ==
    ASSUME PipesOK, PipesOK', NEW w \in Workers, readDecision(w)
    PROVE  \/ UNCHANGED <<Unanswered, Answered>>
           \/ \E d \in Clients : Abstract!Answer(d)
  <1>1. /\ PoolOK(pool) /\ pool \in Pools /\ inbox' = inbox
        /\ inbox \in Seq(Clients) /\ outbox \in Seq(Clients)
    BY DEF PipesOK, IInv, PoolTables, PoolOK, PipeOK, readDecision
  <1>2. PICK answered \in BOOLEAN :
          \E r \in getDecision(pool, w, answered) :
            pool' = r.pool /\ outbox' = outbox \o r.answers
    BY DEF readDecision, Take
  <1>3. PICK r \in getDecision(pool, w, answered) :
          pool' = r.pool /\ outbox' = outbox \o r.answers
    BY <1>2
  <1>4. CASE r.answers = <<>> /\ Kept(pool, r.pool)
    <2>1. outbox' = outbox /\ \A c \in Clients : Held(pool', c) = Held(pool, c)
      BY <1>1, <1>3, <1>4, HeldSame DEF Kept
    <2> QED
      BY <1>1, <2>1, Stutters DEF Asked
  <1>5. ASSUME w \in Active(pool), NEW u, u = Freed(pool, w),
               Handles(u, pool.active[w].client, r)
        PROVE  \/ UNCHANGED <<Unanswered, Answered>>
               \/ \E d \in Clients : Abstract!Answer(d)
    <2>1. pool.active[w] \in Jobs
      BY <1>1, <1>5, PoolTypes DEF Active
    <2>2. PICK d \in Clients : d = pool.active[w].client
      BY <2>1 DEF Jobs
    <2>3. u \in Pools
      <3>1. Between(u, w)
        BY <1>1, <1>5, ProgressOK DEF Freed
      <3> QED
        BY <3>1 DEF Between
    <2>4. u.queue = pool.queue /\ u.active = [pool.active EXCEPT ![w] = NoJob]
      BY <1>1, <1>5 DEF Freed, Pools
    <2>5. \A c \in Clients : Held(pool, c) = Held(u, c) + One(d, c)
      <3> TAKE c \in Clients
      <3>1. Held(pool, c) = Held(u, c) + One(pool.active[w].client, c)
        <4>1. pool \in Pools /\ w \in Active(pool)
          BY <1>1, <1>5
        <4> QED
          BY <4>1, <2>4, HeldFreed
      <3> QED
        BY <2>2, <3>1
    <2>6. \A c \in Clients : Asked(inbox, pool, c) = Asked(inbox', u, c) + One(d, c)
      <3> TAKE c \in Clients
      <3>1. Cardinality(Hits(inbox, {c})) \in Nat /\ Held(u, c) \in Nat
        BY <1>1, <2>3, HitsFinite, HeldType DEF Held
      <3> QED
        BY <1>1, <2>5, <3>1 DEF Asked, One
    <2> QED
      BY <1>3, <1>5, <2>2, <2>3, <2>6, HandledStep
  <1> QED
    BY <1>1, <1>3, <1>4, <1>5, GetDecisionHandles

\* Steps that move no request.
LEMMA SameStep ==
    ASSUME PipesOK, PipesOK', inbox' = inbox, outbox' = outbox,
           SameRequests(pool, pool')
    PROVE  UNCHANGED <<Unanswered, Answered>>
  <1>1. \A c \in Clients : Held(pool', c) = Held(pool, c)
    BY HeldSame DEF SameRequests
  <1> QED
    BY <1>1, Stutters DEF Asked

LEMMA AskStep ==
    ASSUME PipesOK, PipesOK', NEW d \in Clients, Ask(d)
    PROVE  Abstract!Ask(d)
  <1>1. /\ inbox \in Seq(Clients) /\ inbox' = Append(inbox, d)
        /\ pool' = pool /\ outbox' = outbox /\ pool \in Pools
    BY DEF PipesOK, IInv, PoolTables, PoolOK, PipeOK, Ask
  <1>2. \A c \in Clients : Asked(inbox', pool', c) = Asked(inbox, pool, c) + One(d, c)
    <2> TAKE c \in Clients
    <2>1. Cardinality(Hits(inbox', {c}))
            = Cardinality(Hits(inbox, {c})) + (IF d \in {c} THEN 1 ELSE 0)
      BY <1>1, AppendHits
    <2>2. Cardinality(Hits(inbox, {c})) \in Nat /\ Held(pool, c) \in Nat
      BY <1>1, HitsFinite, HeldType DEF Held
    <2> QED
      BY <1>1, <2>1, <2>2 DEF Asked, One
  <1>3. \A c \in Clients : Asked(inbox, pool, c) \in Nat
    BY <1>1, Counts
  <1>4. /\ Unanswered = [c \in Clients |-> Asked(inbox, pool, c)]
        /\ Unanswered' = [c \in Clients |-> Asked(inbox', pool', c)]
        /\ Answered' = Answered
    BY <1>1, UnansweredIs, UnansweredIsNext
  <1>5. Unanswered' = [Unanswered EXCEPT ![d] = @ + 1]
    BY <1>2, <1>3, <1>4 DEF One
  <1> QED
    BY <1>4, <1>5 DEF Abstract!Ask

LEMMA ReceiveStep ==
    ASSUME PipesOK, PipesOK', Receive
    PROVE  \E d \in Clients : Abstract!Receive(d)
  <1>1. /\ outbox \in Seq(Clients) /\ outbox # <<>> /\ outbox' = Tail(outbox)
        /\ pool' = pool /\ inbox' = inbox
    BY DEF PipesOK, Receive
  <1>2. PICK d \in Clients : d = Head(outbox)
    BY <1>1
  <1>3. \A c \in Clients : Given(outbox, c) = Given(outbox', c) + One(d, c)
    <2> TAKE c \in Clients
    <2>1. Cardinality(Hits(outbox, {c}))
            = Cardinality(Hits(outbox', {c})) + (IF d \in {c} THEN 1 ELSE 0)
      BY <1>1, <1>2, TailHits
    <2> QED
      BY <2>1 DEF Given, One
  <1>4. \A c \in Clients : Given(outbox', c) \in Nat
    <2>1. Tail(outbox) \in Seq(Clients)
      BY <1>1
    <2> QED
      BY <1>1, <2>1, HitsFinite DEF Given
  <1>5. /\ Answered = [c \in Clients |-> Given(outbox, c)]
        /\ Answered' = [c \in Clients |-> Given(outbox', c)]
        /\ Unanswered' = Unanswered
    BY <1>1, UnansweredIs, UnansweredIsNext
  <1>6. Answered[d] > 0
    BY <1>3, <1>4, <1>5 DEF One
  <1>7. Answered' = [Answered EXCEPT ![d] = @ - 1]
    BY <1>3, <1>4, <1>5 DEF One
  <1> QED
    BY <1>5, <1>6, <1>7 DEF Abstract!Receive

LEMMA InitRefines == Init => PipesOK /\ Abstract!Init
  <1> SUFFICES ASSUME Init PROVE PipesOK /\ Abstract!Init
    OBVIOUS
  <1>1. IInv
    BY InitPool
  <1>2. PipesOK
    BY <1>1 DEF PipesOK, Init
  <1>3. NoWorkers \in Pools
    BY PoolAssumption DEF NoWorkers, Pools, ChildStates
  <1>4. \A c \in Clients : Held(pool, c) = 0
    <2> TAKE c \in Clients
    <2>1. SameRequests(NoWorkers, pool)
      BY <1>3, SpawnSame DEF Init
    <2>2. Held(pool, c) = Held(NoWorkers, c)
      BY <2>1, HeldSame DEF SameRequests
    <2>3. Cardinality({}) = 0
      BY FS_EmptySet
    <2>4. {i \in DOMAIN NoWorkers.queue : NoWorkers.queue[i].client = c} = {}
      BY DEF NoWorkers
    <2>5. {w \in Active(NoWorkers) : NoWorkers.active[w].client = c} = {}
      BY DEF NoWorkers, Active
    <2>6. Waiting(NoWorkers, c) = 0
      BY <2>3, <2>4 DEF Waiting
    <2>7. Working(NoWorkers, c) = 0
      BY <2>3, <2>5 DEF Working
    <2> QED
      BY <2>2, <2>6, <2>7 DEF Held
  <1>5. \A c \in Clients : Given(<<>>, c) = 0
    <2> TAKE c \in Clients
    <2>1. Hits(<<>>, {c}) = {}
      BY DEF Hits
    <2> QED
      BY <2>1, FS_EmptySet DEF Given
  <1>6. /\ Unanswered = [c \in Clients |-> 0]
        /\ Answered = [c \in Clients |-> 0]
    <2>1. \A c \in Clients : Asked(inbox, pool, c) = 0 /\ Given(outbox, c) = 0
      BY <1>4, <1>5 DEF Init, Asked, Given
    <2> QED
      BY <1>2, <2>1, UnansweredIs
  <1> QED
    BY <1>2, <1>6 DEF Abstract!Init

LEMMA PipesNext == PipesOK /\ [Next]_vars => PipesOK'
  <1> SUFFICES ASSUME PipesOK, [Next]_vars PROVE PipesOK'
    OBVIOUS
  <1>1. IInv'
    BY NextPool DEF PipesOK
  <1>2. PoolOK(pool) /\ outbox \in Seq(Clients)
    BY DEF PipesOK, IInv, PoolTables
  <1>3. ASSUME NEW d \in Clients, NEW u, NEW r, Handles(u, d, r),
               outbox' = outbox \o r.answers
        PROVE  outbox' \in Seq(Clients)
    <2>1. r.answers \in Seq(Clients)
      <3>1. <<>> \in Seq(Clients) /\ <<d>> \in Seq(Clients)
        OBVIOUS
      <3>2. r.answers = <<d>> \/ r.answers = <<>>
        BY <1>3 DEF Handles
      <3> QED
        BY <3>1, <3>2
    <2> QED
      BY <1>2, <1>3, <2>1
  <1>4. ASSUME NEW r \in doqueue(pool), outbox' = outbox \o r.answers
        PROVE  outbox' \in Seq(Clients)
    <2>1. CASE r = Result(pool, <<>>)
      BY <1>2, <1>4, <2>1 DEF Result
    <2>2. CASE /\ pool.queue # <<>>
               /\ Handles([pool EXCEPT !.queue = Tail(pool.queue)],
                          Head(pool.queue).client, r)
      <3>1. pool.queue \in Seq(Jobs)
        BY <1>2, PoolTypes DEF PoolOK
      <3>2. Head(pool.queue) \in Jobs
        BY <2>2, <3>1
      <3>3. Head(pool.queue).client \in Clients
        BY <3>2 DEF Jobs
      <3> QED
        BY <1>3, <1>4, <2>2, <3>3
    <2> QED
      BY <1>2, <1>4, <2>1, <2>2, DoqueueHandles
  <1>5. CASE readRequest
    <2>1. inbox \in Seq(Clients) /\ inbox # <<>>
      BY <1>5 DEF PipesOK, IInv, PipeOK, readRequest
    <2>2. PICK job : job = [client |-> Head(inbox), tainted |-> FALSE]
      OBVIOUS
    <2>3. job \in Jobs /\ job.client \in Clients
      BY <2>1, <2>2 DEF Jobs
    <2>4. PICK r \in request(pool, job) : outbox' = outbox \o r.answers
      BY <1>5, <2>2 DEF readRequest, Take
    <2>5. Handles(pool, job.client, r)
      BY <1>2, <2>3, RequestHandles
    <2> QED
      BY <1>1, <1>3, <2>3, <2>4, <2>5 DEF PipesOK
  <1>6. ASSUME NEW w \in Workers, readDecision(w) PROVE PipesOK'
    <2>1. PICK answered \in BOOLEAN :
            \E r \in getDecision(pool, w, answered) : outbox' = outbox \o r.answers
      BY <1>6 DEF readDecision, Take
    <2>2. PICK r \in getDecision(pool, w, answered) : outbox' = outbox \o r.answers
      BY <2>1
    <2>3. CASE r.answers = <<>>
      BY <1>1, <1>2, <2>2, <2>3 DEF PipesOK
    <2>4. CASE w \in Active(pool) /\ Handles(Freed(pool, w), pool.active[w].client, r)
      <3>1. pool.active[w].client \in Clients
        BY <1>2, <2>4, PoolTypes DEF PoolOK, Active, Jobs
      <3> QED
        BY <1>1, <1>3, <2>2, <2>4, <3>1 DEF PipesOK
    <2> QED
      BY <1>2, <2>2, <2>3, <2>4, GetDecisionHandles
  <1>7. CASE Receive
    BY <1>1, <1>2, <1>7 DEF Receive, PipesOK
  <1>8. CASE start
    BY <1>1, <1>4, <1>8 DEF start, PipesOK
  <1>9. CASE serveQueue
    BY <1>1, <1>2, <1>4, <1>9 DEF serveQueue, Take, PipesOK
  <1>10. CASE outbox' = outbox
    BY <1>1, <1>2, <1>10 DEF PipesOK
  <1> QED
    BY <1>5, <1>6, <1>7, <1>8, <1>9, <1>10
    DEF Next, Loop, vars, Ask, ChildAnswers, ChildCloses, ChildExits, becomes,
        poll, readNothing, supervise, control

LEMMA NextRefines ==
    PipesOK /\ PipesOK' /\ [Next]_vars => [Abstract!Next]_<<Unanswered, Answered>>
  <1> SUFFICES ASSUME PipesOK, PipesOK', [Next]_vars
               PROVE  [Abstract!Next]_<<Unanswered, Answered>>
    OBVIOUS
  <1> USE DEF Abstract!Next
  <1>0. PoolOK(pool) /\ pool \in Pools /\ IInv
    BY DEF PipesOK, IInv, PoolTables, PoolOK
  <1>1. CASE UNCHANGED vars
    BY <1>1, SameStep DEF vars, SameRequests
  <1>2. ASSUME NEW c \in Clients, Ask(c) PROVE Abstract!Next
    BY <1>2, AskStep
  <1>3. CASE Receive
    BY <1>3, ReceiveStep
  <1>4. ASSUME NEW w \in Workers, ChildAnswers(w) \/ ChildCloses(w) \/ ChildExits(w)
        PROVE  UNCHANGED <<Unanswered, Answered>>
    <2>1. PICK to : becomes(w, {pool.child[w]}, to)
      BY <1>4 DEF ChildAnswers, ChildCloses, ChildExits, becomes
    <2>2. SameRequests(pool, pool')
      BY <1>0, <2>1 DEF becomes, Pools, SameRequests
    <2> QED
      BY <2>1, <2>2, SameStep DEF becomes
  <1>5. CASE start
    BY <1>5, DoqueueStep DEF start
  <1>6. CASE poll
    BY <1>6, SameStep DEF poll, SameRequests
  <1>7. CASE readRequest
    BY <1>7, ReadRequestStep
  <1>8. ASSUME NEW w \in Workers, readDecision(w)
        PROVE  [Abstract!Next]_<<Unanswered, Answered>>
    BY <1>8, ReadDecisionStep
  <1>9. ASSUME NEW w \in Workers, readNothing(w)
        PROVE  UNCHANGED <<Unanswered, Answered>>
    BY <1>9, SameStep DEF readNothing, SameRequests
  <1>10. CASE serveQueue
    <2>1. CASE at = "queue" /\ turns > 0 /\ Take(doqueue(pool)) /\ inbox' = inbox
      BY <2>1, DoqueueStep DEF Take
    <2>2. CASE pool' = pool /\ outbox' = outbox /\ inbox' = inbox
      BY <2>2, SameStep DEF SameRequests
    <2> QED
      BY <1>10, <2>1, <2>2 DEF serveQueue
  <1>11. CASE supervise
    BY <1>0, <1>11, SuperviseSame, SameStep DEF supervise
  <1>12. CASE control
    <2>1. SameRequests(pool, pool')
      BY <1>0, <1>12, IncreaseSame, DecreaseSame DEF control, SameRequests
    <2> QED
      BY <1>12, <2>1, SameStep DEF control
  <1> QED
    BY <1>1, <1>2, <1>3, <1>4, <1>5, <1>6, <1>7, <1>8, <1>9, <1>10, <1>11, <1>12
    DEF Next, Loop

(* Whatever the clients, the workers and the limits, the process is a set  *)
(* of questions each answered once: request(), doqueue() and getDecision() *)
(* of reactor/redirector/manager.py:173-247 neither lose a request nor     *)
(* answer it twice when workers fail, are reaped or respawned.             *)
THEOREM EveryAnswerOnce == Spec => AnsweredOnce
  <1>1. Init => PipesOK /\ Abstract!Init
    BY InitRefines
  <1>2. PipesOK /\ [Next]_vars => PipesOK'
    BY PipesNext
  <1>3. PipesOK /\ PipesOK' /\ [Next]_vars => [Abstract!Next]_<<Unanswered, Answered>>
    BY NextRefines
  <1> QED
    BY <1>1, <1>2, <1>3, PTL DEF Spec, AnsweredOnce, Abstract!Spec
-----------------------------------------------------------------------------
(* The size of the pool.                                                   *)

\* The workers that are not told to stop.
Standing(p) == Cardinality(p.worker \ p.stopping)

SizeOK(p) ==
    /\ p.low \in Nat /\ p.high \in Nat /\ p.low <= p.high
    /\ Standing(p) <= p.high + 1

LEMMA StandingType ==
    ASSUME NEW p \in Pools
    PROVE  /\ IsFiniteSet(p.worker) /\ IsFiniteSet(p.worker \ p.stopping)
           /\ Cardinality(p.worker) \in Nat /\ Standing(p) \in Nat
           /\ Standing(p) <= Cardinality(p.worker)
  <1>1. p.worker \in SUBSET Workers
    BY PoolTypes
  <1>2. IsFiniteSet(p.worker)
    BY <1>1, PoolAssumption, FS_Subset
  <1>3. p.worker \ p.stopping \in SUBSET p.worker
    OBVIOUS
  <1> QED
    BY <1>2, <1>3, FS_Subset, FS_CardinalityType DEF Standing

LEMMA FewerStanding ==
    ASSUME NEW p \in Pools, NEW q, SizeOK(p), q.low = p.low, q.high = p.high,
           q.worker \ q.stopping \subseteq p.worker \ p.stopping
    PROVE  SizeOK(q)
  <1>1. Standing(q) \in Nat /\ Standing(q) <= Standing(p) /\ Standing(p) \in Nat
    BY StandingType, FS_Subset, FS_CardinalityType DEF Standing
  <1>2. Standing(q) <= p.high + 1
    BY <1>1 DEF SizeOK
  <1> QED
    BY <1>2 DEF SizeOK

LEMMA SpawnSize ==
    ASSUME NEW p, PoolOK(p), NEW number \in Nat, NEW q \in spawn(p, number)
    PROVE  /\ q.low = p.low /\ q.high = p.high
           /\ Standing(q) = Standing(p) + number
  <1>1. PICK new \in kSubset(number, Workers \ p.worker) :
          q \in {join(p, new, started) : started \in SUBSET new}
    BY DEF spawn
  <1>2. /\ new \in SUBSET Workers /\ new \cap p.worker = {}
        /\ Cardinality(new) = number
    BY <1>1 DEF kSubset
  <1>3. p \in Pools /\ p.stopping \subseteq p.worker
    BY DEF PoolOK
  <1>4. /\ q.low = p.low /\ q.high = p.high
        /\ q.worker = p.worker \cup new /\ q.stopping = p.stopping
    BY <1>1, <1>3 DEF join, Pools
  <1>5. PICK old : old = p.worker \ p.stopping
    OBVIOUS
  <1>6. q.worker \ q.stopping = old \cup new /\ old \cap new = {}
    BY <1>2, <1>3, <1>4, <1>5
  <1>7. IsFiniteSet(old) /\ IsFiniteSet(new)
    BY <1>2, <1>3, <1>5, StandingType, PoolAssumption, FS_Subset
  <1>8. Cardinality(old \cup new) = Cardinality(old) + Cardinality(new) - Cardinality({})
    BY <1>6, <1>7, FS_Union
  <1>9. Cardinality({}) = 0 /\ Cardinality(old) \in Nat
    BY <1>7, FS_EmptySet, FS_CardinalityType
  <1>10. Standing(q) = Cardinality(old) + number
    <2>1. Cardinality(new) = number
      BY <1>2
    <2>2. Standing(q) = Cardinality(old \cup new)
      BY <1>6 DEF Standing
    <2> QED
      BY <1>8, <1>9, <2>1, <2>2
  <1> QED
    BY <1>4, <1>5, <1>10 DEF Standing

LEMMA MaxMin ==
    ASSUME NEW a \in Int, NEW b \in Int
    PROVE  /\ Max({a, b}) = IF a >= b THEN a ELSE b
           /\ Min({a, b}) = IF a <= b THEN a ELSE b
  <1>1. /\ \E x \in {a, b} : \A y \in {a, b} : x >= y
        /\ \E x \in {a, b} : \A y \in {a, b} : x =< y
    OBVIOUS
  <1>2. /\ Max({a, b}) \in {a, b} /\ \A y \in {a, b} : Max({a, b}) >= y
        /\ Min({a, b}) \in {a, b} /\ \A y \in {a, b} : Min({a, b}) =< y
    BY <1>1 DEF Max, Min
  <1> QED
    BY <1>2

\* What is missing and the growth are computed from the same count: together
\* they exceed the maximum by one if the limits are equal.
LEMMA ProvisionSize ==
    ASSUME NEW p, PoolOK(p), SizeOK(p), NEW q \in provision(p)
    PROVE  SizeOK(q)
  <1>1. p \in Pools /\ p.low \in Nat /\ p.high \in Nat /\ p.low <= p.high
    BY DEF PoolOK, SizeOK
  <1>2. PICK n \in Nat : n = Cardinality(p.worker)
    BY <1>1, StandingType
  <1>3. PICK missing : missing = Max({0, p.low - n})
    OBVIOUS
  <1>4. PICK share : share = (p.high - p.low) \div 4
    OBVIOUS
  <1>5. PICK least : least = Min({p.low, share})
    OBVIOUS
  <1>6. PICK most : most = Max({1, least})
    OBVIOUS
  <1>7. PICK growth : growth = Min({most, p.high - n})
    OBVIOUS
  <1>8. share \in Nat /\ share <= p.high - p.low
    BY <1>1, <1>4
  <1>9. least \in Nat /\ least <= share
    <2>1. p.low \in Int /\ share \in Int
      BY <1>1, <1>8
    <2>2. least = IF p.low <= share THEN p.low ELSE share
      BY <1>5, <2>1, MaxMin
    <2> QED
      BY <1>1, <1>8, <2>2
  <1>10. most \in Nat /\ most >= 1 /\ (most = 1 \/ most <= p.high - p.low)
    BY <1>1, <1>6, <1>8, <1>9, MaxMin
  <1>11. growth \in Int /\ growth <= most /\ growth <= p.high - n
         /\ (n < p.high => growth \in Nat)
    <2>1. most \in Int /\ p.high - n \in Int
      BY <1>1, <1>2, <1>10
    <2>2. growth = IF most <= p.high - n THEN most ELSE p.high - n
      BY <1>7, <2>1, MaxMin
    <2> QED
      BY <1>1, <1>2, <1>10, <2>1, <2>2
  <1>12. missing \in Nat /\ missing = IF n < p.low THEN p.low - n ELSE 0
    BY <1>1, <1>2, <1>3, MaxMin
  <1>13. PICK more : more = IF Len(p.queue) >= n /\ n < p.high THEN growth ELSE 0
    OBVIOUS
  <1>14. more \in Nat /\ (more = 0 \/ (n < p.high /\ more = growth))
    BY <1>1, <1>2, <1>11, <1>13
  <1>15. q \in spawn(p, missing + more)
    BY <1>2, <1>3, <1>4, <1>5, <1>6, <1>7, <1>13 DEF provision
  <1>16. /\ q.low = p.low /\ q.high = p.high
         /\ Standing(q) = Standing(p) + (missing + more)
    BY <1>12, <1>14, <1>15, SpawnSize
  <1>17. Standing(p) \in Nat /\ Standing(p) <= n /\ Standing(p) <= p.high + 1
    BY <1>1, <1>2, StandingType DEF SizeOK
  <1>18. CASE n < p.low
    <2>1. missing = p.low - n
      BY <1>12, <1>18
    <2>2. missing + more <= p.high + 1 - n
      BY <1>1, <1>2, <1>10, <1>11, <1>14, <1>18, <2>1
    <2> QED
      BY <1>1, <1>2, <1>12, <1>14, <1>16, <1>17, <2>2 DEF SizeOK
  <1>19. CASE ~(n < p.low)
    <2>1. missing = 0 /\ (more = 0 \/ more <= p.high - n)
      BY <1>11, <1>12, <1>14, <1>19
    <2> QED
      BY <1>1, <1>2, <1>14, <1>16, <1>17, <2>1 DEF SizeOK
  <1> QED
    BY <1>18, <1>19

\* The oldest worker stands no more, if any did.
LEMMA StopOldestSize ==
    ASSUME NEW p, PoolOK(p), NEW q \in stopOldest(p)
    PROVE  /\ q.low = p.low /\ q.high = p.high
           /\ Standing(q) = IF Standing(p) = 0 THEN 0 ELSE Standing(p) - 1
  <1>0. p \in Pools /\ IsFiniteSet(p.worker \ p.stopping)
    BY StandingType DEF PoolOK
  <1>1. CASE p.worker \subseteq p.stopping
    <2>1. q = p /\ p.worker \ p.stopping = {}
      BY <1>1 DEF stopOldest
    <2> QED
      BY <2>1, FS_EmptySet DEF Standing
  <1>2. CASE ~(p.worker \subseteq p.stopping)
    <2>1. PICK w \in p.worker \ p.stopping : q = stopWorker(p, w)
      BY <1>2 DEF stopOldest
    <2>2. /\ q.low = p.low /\ q.high = p.high
          /\ q.worker \ q.stopping = (p.worker \ p.stopping) \ {w}
      BY <1>0, <2>1 DEF stopWorker, reap, Pools
    <2>3. Standing(q) = Standing(p) - 1 /\ Standing(p) \in Nat /\ Standing(q) \in Nat
      <3>1. IsFiniteSet((p.worker \ p.stopping) \ {w})
        BY <1>0, FS_RemoveElement
      <3>2. Cardinality((p.worker \ p.stopping) \ {w})
              = Cardinality(p.worker \ p.stopping) - 1
        BY <1>0, <2>1, FS_RemoveElement
      <3> QED
        BY <1>0, <2>2, <3>1, <3>2, FS_CardinalityType DEF Standing
    <2> QED
      BY <2>2, <2>3
  <1> QED
    BY <1>1, <1>2

LEMMA DeprovisionSize ==
    ASSUME NEW p, PoolOK(p), SizeOK(p), NEW q \in deprovision(p)
    PROVE  SizeOK(q)
  <1>1. Standing(p) \in Nat
    BY StandingType DEF PoolOK
  <1>2. CASE q = p
    BY <1>2
  <1>3. CASE q \in stopOldest(p)
    BY <1>1, <1>3, StopOldestSize DEF SizeOK
  <1> QED
    BY <1>2, <1>3 DEF deprovision

LEMMA RespawnSize ==
    ASSUME NEW p, PoolOK(p), SizeOK(p), NEW q \in respawn(p)
    PROVE  SizeOK(q)
  <1>1. PICK n, number, u :
          /\ n = Min({Cardinality(p.worker), p.high})
          /\ number = Max({n, p.low})
          /\ u = stopAll(p, p.worker \cap Active(p)) /\ q \in spawn(u, number)
    BY DEF respawn, stopAll
  <1>2. p \in Pools /\ p.low \in Nat /\ p.high \in Nat /\ p.low <= p.high
        /\ Cardinality(p.worker) \in Nat
    BY StandingType DEF PoolOK, SizeOK
  <1>3. n \in Nat /\ n <= p.high
    <2>1. Cardinality(p.worker) \in Int /\ p.high \in Int
      BY <1>2
    <2>2. n = IF Cardinality(p.worker) <= p.high THEN Cardinality(p.worker) ELSE p.high
      BY <1>1, <2>1, MaxMin
    <2> QED
      BY <1>2, <2>2
  <1>4. number \in Nat /\ number <= p.high
    <2>1. n \in Int /\ p.low \in Int
      BY <1>2, <1>3
    <2>2. number = IF n >= p.low THEN n ELSE p.low
      BY <1>1, <2>1, MaxMin
    <2> QED
      BY <1>2, <1>3, <2>2
  <1>5. PoolOK(u)
    BY <1>1, StopAllOK
  <1>6. u.low = p.low /\ u.high = p.high /\ u.worker = u.stopping
    BY <1>1, <1>2 DEF stopAll, Pools
  <1>7. Standing(u) = 0
    BY <1>6, FS_EmptySet DEF Standing
  <1>8. q.low = p.low /\ q.high = p.high /\ Standing(q) = number
    BY <1>1, <1>4, <1>5, <1>6, <1>7, SpawnSize
  <1> QED
    BY <1>2, <1>4, <1>8 DEF SizeOK

LEMMA IncreaseSize ==
    ASSUME NEW p, PoolOK(p), SizeOK(p), NEW q \in increase(p)
    PROVE  SizeOK(q)
  <1>1. PICK low, high, u : /\ low = p.low + 1 /\ high = Max({low, p.high})
                            /\ u = [p EXCEPT !.low = low, !.high = high]
    OBVIOUS
  <1>2. p \in Pools /\ p.low \in Nat /\ p.high \in Nat
    BY DEF PoolOK, SizeOK
  <1>3. low \in Nat /\ high \in Nat /\ low <= high /\ p.high <= high
    BY <1>1, <1>2, MaxMin
  <1>4. PoolOK(u)
    <2>1. low \in Int /\ high \in Int
      BY <1>3
    <2> QED
      BY <1>1, <2>1, LimitsOK
  <1>5. /\ u.low = low /\ u.high = high
        /\ u.worker = p.worker /\ u.stopping = p.stopping
    BY <1>1, <1>2 DEF Pools
  <1>6. /\ Standing(u) = Standing(p) /\ Standing(p) \in Nat
        /\ Cardinality(p.worker) \in Nat /\ Standing(p) <= Cardinality(p.worker)
    BY <1>2, <1>5, StandingType DEF Standing
  <1>7. CASE q = u
    BY <1>2, <1>3, <1>5, <1>6, <1>7 DEF SizeOK
  <1>8. CASE Cardinality(p.worker) < high /\ q \in spawn(u, 1)
    <2>1. q.low = low /\ q.high = high /\ Standing(q) = Standing(p) + 1
      BY <1>4, <1>5, <1>6, <1>8, SpawnSize
    <2> QED
      BY <1>3, <1>6, <1>8, <2>1 DEF SizeOK
  <1> QED
    BY <1>1, <1>7, <1>8 DEF increase

LEMMA DecreaseSize ==
    ASSUME NEW p, PoolOK(p), SizeOK(p), NEW q \in decrease(p)
    PROVE  SizeOK(q)
  <1>1. PICK low, high, u : /\ high = Max({1, p.high - 1}) /\ low = Min({high, p.low})
                            /\ u = [p EXCEPT !.low = low, !.high = high]
    OBVIOUS
  <1>2. p \in Pools /\ p.low \in Nat /\ p.high \in Nat /\ p.low <= p.high
    BY DEF PoolOK, SizeOK
  <1>3. high \in Nat /\ high >= 1 /\ p.high <= high + 1
    <2>1. p.high - 1 \in Int
      BY <1>2
    <2>2. high = IF 1 >= p.high - 1 THEN 1 ELSE p.high - 1
      BY <1>1, <2>1, MaxMin
    <2> QED
      BY <1>2, <2>2
  <1>4. low \in Nat /\ low <= high
    <2>1. high \in Int /\ p.low \in Int
      BY <1>2, <1>3
    <2>2. low = IF high <= p.low THEN high ELSE p.low
      BY <1>1, <2>1, MaxMin
    <2> QED
      BY <1>2, <1>3, <2>2
  <1>5. PoolOK(u)
    <2>1. low \in Int /\ high \in Int
      BY <1>3, <1>4
    <2> QED
      BY <1>1, <2>1, LimitsOK
  <1>6. /\ u.low = low /\ u.high = high
        /\ u.worker = p.worker /\ u.stopping = p.stopping
    BY <1>1, <1>2 DEF Pools
  <1>7. /\ Standing(u) = Standing(p) /\ Standing(p) \in Nat
        /\ Cardinality(p.worker) \in Nat /\ Standing(p) <= Cardinality(p.worker)
        /\ Standing(p) <= p.high + 1
    BY <1>2, <1>6, StandingType DEF Standing, SizeOK
  <1>8. CASE low < Cardinality(p.worker) /\ q \in stopOldest(u)
    <2>1. q.low = low /\ q.high = high
          /\ Standing(q) = IF Standing(p) = 0 THEN 0 ELSE Standing(p) - 1
      BY <1>5, <1>6, <1>7, <1>8, StopOldestSize
    <2> QED
      BY <1>2, <1>3, <1>4, <1>7, <2>1 DEF SizeOK
  <1>9. CASE ~(low < Cardinality(p.worker)) /\ q = u
    BY <1>3, <1>4, <1>6, <1>7, <1>9 DEF SizeOK
  <1> QED
    BY <1>1, <1>8, <1>9 DEF decrease

LEMMA NextSize == PipesOK /\ SizeOK(pool) /\ [Next]_vars => SizeOK(pool')
  <1> SUFFICES ASSUME PipesOK, SizeOK(pool), [Next]_vars PROVE SizeOK(pool')
    OBVIOUS
  <1>0. PoolOK(pool) /\ pool \in Pools
    BY DEF PipesOK, IInv, PoolTables, PoolOK
  <1>1. ASSUME NEW r, NEW d, NEW u,
               u.low = pool.low, u.high = pool.high,
               u.worker = pool.worker, u.stopping = pool.stopping,
               Handles(u, d, r)
        PROVE  SizeOK(r.pool)
    BY <1>0, <1>1, FewerStanding DEF Handles
  <1>2. ASSUME NEW r \in doqueue(pool) PROVE SizeOK(r.pool)
    <2>1. CASE r = Result(pool, <<>>)
      BY <2>1 DEF Result
    <2>2. ASSUME NEW u, u = [pool EXCEPT !.queue = Tail(pool.queue)],
                 Handles(u, Head(pool.queue).client, r)
          PROVE  SizeOK(r.pool)
      <3>1. /\ u.low = pool.low /\ u.high = pool.high
            /\ u.worker = pool.worker /\ u.stopping = pool.stopping
        BY <1>0, <2>2 DEF Pools
      <3> QED
        BY <1>1, <2>2, <3>1
    <2> QED
      BY <1>0, <1>2, <2>1, <2>2, DoqueueHandles
  <1>3. CASE readRequest
    <2>1. inbox \in Seq(Clients) /\ inbox # <<>>
      BY <1>3 DEF PipesOK, IInv, PipeOK, readRequest
    <2>2. PICK job : job = [client |-> Head(inbox), tainted |-> FALSE]
      OBVIOUS
    <2>3. job \in Jobs
      BY <2>1, <2>2 DEF Jobs
    <2>4. PICK r \in request(pool, job) : pool' = r.pool
      BY <1>3, <2>2 DEF readRequest, Take
    <2>5. Handles(pool, job.client, r)
      BY <1>0, <2>3, RequestHandles
    <2> QED
      BY <1>1, <2>4, <2>5
  <1>4. ASSUME NEW w \in Workers, readDecision(w) PROVE SizeOK(pool')
    <2>1. PICK answered \in BOOLEAN :
            \E r \in getDecision(pool, w, answered) : pool' = r.pool
      BY <1>4 DEF readDecision, Take
    <2>2. PICK r \in getDecision(pool, w, answered) : pool' = r.pool
      BY <2>1
    <2>3. CASE Kept(pool, r.pool)
      BY <1>0, <2>2, <2>3, FewerStanding DEF Kept
    <2>4. ASSUME NEW u, u = Freed(pool, w), Handles(u, pool.active[w].client, r)
          PROVE  SizeOK(r.pool)
      <3>1. /\ u.low = pool.low /\ u.high = pool.high
            /\ u.worker = pool.worker /\ u.stopping = pool.stopping
        BY <1>0, <2>4 DEF Pools, Freed
      <3> QED
        BY <1>1, <2>4, <3>1
    <2> QED
      BY <1>0, <2>2, <2>3, <2>4, GetDecisionHandles
  <1>5. CASE supervise
    <2>1. PICK p \in (IF count_increase' = 0 THEN provision(pool) ELSE {pool}) :
            \E q \in (IF count_decrease' = 0 THEN deprovision(p) ELSE {p}) :
              pool' \in (IF respawning THEN respawn(q) ELSE {q})
      BY <1>5 DEF supervise
    <2>2. PICK q \in (IF count_decrease' = 0 THEN deprovision(p) ELSE {p}) :
            pool' \in (IF respawning THEN respawn(q) ELSE {q})
      BY <2>1
    <2>3. PoolOK(p) /\ SizeOK(p)
      BY <1>0, <2>1, ProvisionOK, ProvisionSize
    <2>4. PoolOK(q) /\ SizeOK(q)
      BY <2>2, <2>3, DeprovisionOK, DeprovisionSize
    <2> QED
      BY <2>2, <2>4, RespawnSize
  <1>6. CASE control
    BY <1>0, <1>6, IncreaseSize, DecreaseSize DEF control
  <1>7. CASE \E w \in Workers : ChildAnswers(w) \/ ChildCloses(w) \/ ChildExits(w)
    <2>1. PICK w, to : pool' = [pool EXCEPT !.child[w] = to]
      BY <1>7 DEF ChildAnswers, ChildCloses, ChildExits, becomes
    <2>2. /\ pool'.low = pool.low /\ pool'.high = pool.high
          /\ pool'.worker = pool.worker /\ pool'.stopping = pool.stopping
      BY <1>0, <2>1 DEF Pools
    <2> QED
      BY <1>0, <2>2, FewerStanding
  <1>8. CASE start
    BY <1>2, <1>8 DEF start
  <1>9. CASE serveQueue
    BY <1>2, <1>9 DEF serveQueue, Take
  <1>10. CASE pool' = pool
    BY <1>10
  <1> QED
    BY <1>3, <1>4, <1>5, <1>6, <1>7, <1>8, <1>9, <1>10
    DEF Next, Loop, vars, Ask, Receive, poll, readNothing

(* The workers that are not told to stop never exceed the maximum by more  *)
(* than one, although provision() of reactor/redirector/manager.py:114-132 *)
(* adds the missing workers to the growth it computed without them, and    *)
(* although the limits move under the pool (increase(), decrease()).  A    *)
(* minimum above the maximum, which the configuration does not exclude,    *)
(* starts as many workers as the minimum.                                  *)
THEOREM MaximumExceededByOne ==
    ASSUME Low <= High
    PROVE  Spec => []AlmostMaximum
  <1>1. Init => PipesOK /\ SizeOK(pool)
    <2> SUFFICES ASSUME Init PROVE PipesOK /\ SizeOK(pool)
      OBVIOUS
    <2>1. PipesOK
      BY InitRefines
    <2>2. NoWorkers \in Pools /\ PoolOK(NoWorkers)
      <3>1. NoWorkers \in Pools
        BY PoolAssumption DEF NoWorkers, Pools, ChildStates
      <3>2. Active(NoWorkers) = {}
        BY DEF Active, NoWorkers
      <3> QED
        BY <3>1, <3>2 DEF PoolOK, NoWorkers
    <2>3. /\ NoWorkers.low = Low /\ NoWorkers.high = High
          /\ NoWorkers.worker \ NoWorkers.stopping = {}
      BY DEF NoWorkers
    <2>4. Standing(NoWorkers) = 0
      BY <2>3, FS_EmptySet DEF Standing
    <2>5. pool \in spawn(NoWorkers, Low) /\ Low \in Nat /\ High \in Nat
      BY PoolAssumption DEF Init
    <2>6. pool.low = Low /\ pool.high = High /\ Standing(pool) = Low
      BY <2>2, <2>3, <2>4, <2>5, SpawnSize
    <2> QED
      BY <2>1, <2>5, <2>6 DEF SizeOK
  <1>2. PipesOK /\ [Next]_vars => PipesOK'
    BY PipesNext
  <1>3. PipesOK /\ SizeOK(pool) /\ [Next]_vars => SizeOK(pool)'
    BY NextSize
  <1>4. SizeOK(pool) => AlmostMaximum
    BY DEF SizeOK, Standing, AlmostMaximum
  <1> QED
    BY <1>1, <1>2, <1>3, <1>4, PTL DEF Spec
=============================================================================

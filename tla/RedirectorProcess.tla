-------------------------- MODULE RedirectorProcess --------------------------
(***************************************************************************)
(* The redirector process: the loop of reactor/redirector/reactor.py and   *)
(* the supervisor that runs it (reactor/redirector/supervisor.py), between *)
(* the two pipes that connect it to the proxy (dispatch.py, messagebox.py) *)
(* and the programs of its workers.                                        *)
(*                                                                         *)
(* The process is sequential; `at' is the place of its program counter.    *)
(* The pipes, the programs, the alarm and the proxy move meanwhile.        *)
(* Stopping the process is left to the shutdown of the proxy.              *)
(***************************************************************************)
EXTENDS WorkerPool

CONSTANTS IncreaseFrequency, DecreaseFrequency,  \* of the supervisor's work
          MaxPending,   \* bound: questions of a client without an answer
          MaxControls   \* bound: control commands

VARIABLES inbox,     \* requests on their way to the redirector: dispatcher and pipe
          outbox,    \* answers on their way to the proxy
          pool,
          at,        \* where the process is
          todo,      \* workers whose output was readable when poll() returned
          turns,     \* requests still to be taken off the queue
          count_increase, count_decrease,
          respawning,
          controls   \* control commands received

supervisor == <<count_increase, count_decrease, respawning, controls>>
vars == <<inbox, outbox, pool, at, todo, turns, supervisor>>

Places == {"start", "poll", "request", "decisions", "queue", "control", "hung"}

Occurrences(c, seq) == Cardinality({i \in DOMAIN seq : seq[i] = c})

\* The questions of each client that have no answer yet, wherever they are.
Unanswered ==
    [c \in Clients |->
       Occurrences(c, inbox)
       + Cardinality({i \in DOMAIN pool.queue : pool.queue[i].client = c})
       + Cardinality({w \in Active(pool) : pool.active[w].client = c})]

Answered == [c \in Clients |-> Occurrences(c, outbox)]

Init ==
    /\ inbox = <<>> /\ outbox = <<>>
    /\ pool \in spawn(NoWorkers, Low)
    /\ at = "start" /\ todo = {} /\ turns = 0
    /\ count_increase = 0 /\ count_decrease = 0
    /\ respawning = FALSE /\ controls = 0
-----------------------------------------------------------------------------
(* The proxy.                                                              *)

Ask(c) ==
    /\ Unanswered[c] + Answered[c] < MaxPending
    /\ inbox' = Append(inbox, c)
    /\ UNCHANGED <<outbox, pool, at, todo, turns, supervisor>>

Receive ==
    /\ outbox # <<>>
    /\ outbox' = Tail(outbox)
    /\ UNCHANGED <<inbox, pool, at, todo, turns, supervisor>>
-----------------------------------------------------------------------------
(* The programs.                                                           *)

becomes(w, from, to) ==
    /\ pool.child[w] \in from
    /\ pool' = [pool EXCEPT !.child[w] = to]
    /\ UNCHANGED <<inbox, outbox, at, todo, turns, supervisor>>

ChildAnswers(w) == becomes(w, {"busy"}, "answered")

\* The files of a process are closed before its exit can be waited for.
ChildCloses(w) == becomes(w, {"idle", "busy"}, "closing")

ChildExits(w) == becomes(w, {"idle", "busy", "answered", "closing"}, "dead")
-----------------------------------------------------------------------------
(* RedirectorReactor.run().                                                *)

\* The pool after one of the results, whose answers are sent.
Take(results) ==
    \E r \in results :
      /\ pool' = r.pool
      /\ outbox' = outbox \o r.answers

\* The queue is served until a request is not answered at once.
start ==
    /\ at = "start"
    /\ \E r \in doqueue(pool) :
         /\ pool' = r.pool
         /\ outbox' = outbox \o r.answers
         /\ at' = IF r.answers = <<>> THEN "poll" ELSE "start"
    /\ UNCHANGED <<inbox, todo, turns, supervisor>>

Readable == {w \in pool.worker : pool.child[w] \in {"answered", "closing", "dead"}}

poll ==
    /\ at = "poll"
    /\ inbox # <<>> \/ Readable # {}
    /\ at' = IF inbox # <<>> THEN "request" ELSE "decisions"
    /\ todo' = Readable
    /\ turns' = Cardinality(Readable)
    /\ UNCHANGED <<inbox, outbox, pool, supervisor>>

readRequest ==
    /\ at = "request"
    /\ at' = "decisions"
    /\ inbox' = Tail(inbox)
    /\ Take(request(pool, [client |-> Head(inbox), tainted |-> FALSE]))
    /\ UNCHANGED <<todo, turns, supervisor>>

\* What can be made of a program's output: nothing if it is gone, except of a
\* tls client, which is told to close.
readDecision(w) ==
    /\ at = "decisions" /\ w \in todo
    /\ w \in pool.worker /\ pool.active[w] # NoJob => pool.child[w] # "closing"
    /\ \E answered \in BOOLEAN : Take(getDecision(pool, w, answered))
    /\ todo' = todo \ {w}
    /\ UNCHANGED <<inbox, at, turns, supervisor>>

\* readChildResponse() reads an empty line again and again, for ever, when the
\* output is closed while poll() still says that the program runs.
readNothing(w) ==
    /\ at = "decisions" /\ w \in todo
    /\ w \in pool.worker /\ pool.active[w] # NoJob /\ pool.child[w] = "closing"
    /\ at' = "hung"
    /\ UNCHANGED <<inbox, outbox, pool, todo, turns, supervisor>>

\* One request is taken off the queue for each worker that was readable.
serveQueue ==
    \/ /\ at = "decisions" /\ todo = {}
       /\ at' = "queue"
       /\ UNCHANGED <<outbox, pool, turns>>
       /\ UNCHANGED <<inbox, todo, supervisor>>
    \/ /\ at = "queue" /\ turns > 0
       /\ Take(doqueue(pool))
       /\ turns' = turns - 1
       /\ UNCHANGED <<inbox, at, todo, supervisor>>
    \/ /\ at = "queue" /\ turns = 0
       /\ at' = "poll"
       /\ UNCHANGED <<inbox, outbox, pool, todo, turns, supervisor>>
-----------------------------------------------------------------------------
(* RedirectorSupervisor.run(), between two runs of the loop.               *)

\* The loop is left for the alarm, which clears its flag, or for a control
\* command, and the pool is looked after.
supervise ==
    /\ at = "poll" /\ at' = "control"
    /\ count_increase' = (count_increase + 1) % IncreaseFrequency
    /\ count_decrease' = (count_decrease + 1) % DecreaseFrequency
    /\ \E p \in (IF count_increase' = 0 THEN provision(pool) ELSE {pool}) :
         \E q \in (IF count_decrease' = 0 THEN deprovision(p) ELSE {p}) :
           pool' \in (IF respawning THEN respawn(q) ELSE {q})
    /\ respawning' = FALSE
    /\ UNCHANGED <<inbox, outbox, todo, turns, controls>>

control ==
    /\ at = "control"
    /\ UNCHANGED <<inbox, outbox, todo, turns,
                   count_increase, count_decrease>>
    /\ \/ /\ controls < MaxControls
          /\ controls' = controls + 1
          /\ UNCHANGED at
          /\ \/ pool' \in increase(pool) /\ UNCHANGED respawning
             \/ pool' \in decrease(pool) /\ UNCHANGED respawning
             \/ respawning' = TRUE /\ UNCHANGED pool
       \/ /\ at' = "start"
          /\ UNCHANGED <<pool, respawning, controls>>

Loop ==
    \/ start
    \/ poll
    \/ readRequest
    \/ \E w \in Workers : readDecision(w) \/ readNothing(w)
    \/ serveQueue
    \/ supervise
    \/ control

Next ==
    \/ \E c \in Clients : Ask(c)
    \/ Receive
    \/ \E w \in Workers : ChildAnswers(w) \/ ChildCloses(w) \/ ChildExits(w)
    \/ Loop

\* The process and the proxy are scheduled; the alarm is periodic, and poll() is
\* called before it can fire again; a program given a request answers it or
\* exits, and one that closed its output exits.
Fairness ==
    /\ WF_vars(Loop)
    /\ WF_vars(Receive)
    /\ SF_vars(supervise)
    /\ SF_vars(poll)
    /\ \A w \in Workers :
         WF_vars(ChildAnswers(w) \/ (ChildExits(w) /\ pool.child[w] # "idle"))

Spec == Init /\ [][Next]_vars

FairSpec == Spec /\ Fairness
=============================================================================

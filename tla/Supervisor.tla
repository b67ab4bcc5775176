----------------------------- MODULE Supervisor -----------------------------
(***************************************************************************)
(* The proxy process around its main loop, and what starts and ends it:    *)
(* the rounds and signals of supervisor.py, the thread that sends requests *)
(* to the redirector process (reactor/redirector/dispatch.py), the control *)
(* (util/control.py) and the other ends of the pipes in the redirector     *)
(* process (reactor/redirector/supervisor.py and reactor.py).              *)
(*                                                                         *)
(* `at' is the place of the main thread.  A signal handler runs between    *)
(* any two of its steps.  Messages are counted where only their number     *)
(* matters.  A pipe ends when the redirector is gone and so are the        *)
(* programs of its workers, which inherit its ends of the pipes.  The      *)
(* alarm that ends each round comes, and its thread stops: see Alarm.      *)
(***************************************************************************)
EXTENDS Server, Sequences, FiniteSets

CONSTANTS PipeSize,      \* messages that fit in a pipe
          ControlSize,   \* and in one of the control pipes
          MaxSignals,    \* bound: signals received
          MaxRequests    \* bound: requests without an answer

ASSUME SupervisorAssumption == PipeSize \in Nat /\ ControlSize \in Nat

VARIABLES at, flags, srv,         \* the main thread
          queue, sender,          \* the dispatcher thread
          requests, decisions,    \* the pipes of the redirector
          commands, answers,      \* its control pipes
          redirector, programs,   \* its process, and those of its workers
          seen                    \* what has happened, for the properties

main == <<at, flags, srv>>
dispatcher == <<queue, sender>>
data == <<requests, decisions>>
link == <<commands, answers>>
other == <<redirector, programs>>
vars == <<main, dispatcher, data, link, other, seen>>

Rounds ==
    {"reactor", "control", "control interrupted", "check", "listen", "listened",
     "softstop", "softstopped", "spawn", "spawned"}
Ends == {"gone", "failed"}
Places == Rounds \cup {"join", "stop", "wait_stop", "content"} \cup Ends

Flags ==
    [shutdown : BOOLEAN, softstop : BOOLEAN, listen : {"none", "yes", "no"},
     spawn : BOOLEAN]

\* The servers listen, the redirector is there, with programs, and has answered the
\* first requests for statistics.
Init ==
    /\ at = "reactor"
    /\ flags = [shutdown |-> FALSE, softstop |-> FALSE, listen |-> "none", spawn |-> FALSE]
    /\ srv = NewServers
    /\ queue = <<>> /\ sender = "running"
    /\ requests = 0 /\ decisions = 0
    /\ commands = <<>> /\ answers = 0
    /\ redirector = "running" /\ programs = TRUE
    /\ seen = [signals |-> 0, terminated |-> FALSE, lost |-> FALSE,
               crashed |-> FALSE, unread |-> FALSE]

Closed == redirector = "gone" /\ ~programs
-----------------------------------------------------------------------------
(* Signals.                                                                *)

\* Nobody looks at what the handlers have done once the program is being shut down.
Signal ==
    /\ at \in Rounds
    /\ seen.signals < MaxSignals
    /\ UNCHANGED <<at, srv, dispatcher, data, link, other>>

shutdownFlagged ==
    /\ flags' = [flags EXCEPT !.shutdown = TRUE]
    /\ seen' = [seen EXCEPT !.signals = @ + 1, !.terminated = TRUE]

sigterm == Signal /\ shutdownFlagged

sigquit ==
    /\ Signal
    /\ IF flags.softstop THEN shutdownFlagged
       ELSE /\ flags' = [flags EXCEPT !.softstop = TRUE, !.listen = "no"]
            /\ seen' = [seen EXCEPT !.signals = @ + 1]

sigtt(listening) ==
    /\ Signal
    /\ flags' = [flags EXCEPT !.listen = listening]
    /\ seen' = [seen EXCEPT !.signals = @ + 1]

\* More workers are asked for with one signal, fewer with another.
sigusr ==
    /\ Signal
    /\ flags' = [flags EXCEPT !.spawn = TRUE]
    /\ seen' = [seen EXCEPT !.signals = @ + 1]
-----------------------------------------------------------------------------
(* The reactor.                                                            *)

goto(place) == at' = place

connect(l) ==
    /\ at = "reactor" /\ l \in srv.watched
    /\ srv' = accepted(srv, ListenerOf[l])
    /\ UNCHANGED <<at, flags, dispatcher, data, link, other, seen>>

leave(source) ==
    /\ at = "reactor" /\ srv.client_count[source] > 0
    /\ srv' = notifyClose(srv, source, 1)
    /\ UNCHANGED <<at, flags, dispatcher, data, link, other, seen>>

Count(condition) == IF condition THEN 1 ELSE 0

Unanswered ==
    Len(SelectSeq(queue, LAMBDA m : m = "REQUEST")) + requests
    + Count(redirector = "put") + decisions

sendRequest ==
    /\ at = "reactor" /\ srv.client_count["proxy"] > 0
    /\ Unanswered < MaxRequests
    /\ queue' = Append(queue, "REQUEST")
    /\ UNCHANGED <<main, sender, data, link, other, seen>>

readRedirector ==
    /\ at = "reactor" /\ decisions > 0
    /\ decisions' = decisions - 1
    /\ UNCHANGED <<main, dispatcher, requests, link, other, seen>>

\* The end of the pipe means that the redirector process disappeared.
stopReactor ==
    /\ at = "reactor" /\ Closed /\ decisions = 0
    /\ goto("check")
    /\ flags' = [flags EXCEPT !.shutdown = TRUE]
    /\ seen' = [seen EXCEPT !.terminated = TRUE]
    /\ UNCHANGED <<srv, dispatcher, data, link, other>>

\* A variant: the last batch always reads a decision.
leaveReactor_ReadsAnyway ==
    /\ at = "reactor" /\ ~(Closed /\ decisions = 0)
    /\ decisions' = decisions - 1
    /\ goto("check")
    /\ UNCHANGED <<flags, srv, dispatcher, requests, link, other, seen>>

\* The batch of events that has an interrupt, and maybe a decision, is the last.
leaveReactor ==
    /\ at = "reactor" /\ ~(Closed /\ decisions = 0)
    /\ decisions' = decisions - Count(decisions > 0)
    /\ IF answers > 0 \/ Closed
       THEN goto("control") \/ goto("control interrupted")
       ELSE goto("check")
    /\ UNCHANGED <<flags, srv, dispatcher, requests, link, other, seen>>
-----------------------------------------------------------------------------
(* A round of the supervisor.                                              *)

\* The end of the pipe is taken for an answer like the last.
readControl ==
    /\ at \in {"control", "control interrupted"}
    /\ answers' = answers - Count(answers > 0)
    /\ goto(IF at = "control" THEN "reactor" ELSE "check")
    /\ UNCHANGED <<flags, srv, dispatcher, data, commands, other, seen>>

\* A control message is written, or the process ends with an exception that is an
\* error of the pipe.
tell(command, next) ==
    \/ /\ ~Closed /\ Len(commands) < ControlSize
       /\ commands' = Append(commands, command)
       /\ goto(next)
    \/ /\ Closed
       /\ goto("failed")
       /\ UNCHANGED commands

\* The servers stop, except three of them, and the dispatcher is told to stop.
check ==
    /\ at = "check"
    /\ \/ /\ flags.shutdown
          /\ flags' = [flags EXCEPT !.shutdown = FALSE]
          /\ srv' = stop(stop(srv, "web"), "proxy")
          /\ queue' = Append(queue, "STOP")
          /\ goto("join")
          /\ UNCHANGED commands
       \/ /\ ~flags.shutdown
          /\ tell("STATS", "listen")
          /\ UNCHANGED <<flags, srv, queue>>
    /\ UNCHANGED <<sender, data, answers, other, seen>>

\* accepting() ends with a success, which is kept where the signal handlers ask for
\* a shutdown.
listenAgain ==
    /\ at = "listen"
    /\ CASE flags.softstop ->
              /\ srv' = IF flags.listen = "no" THEN rejecting(srv, "proxy") ELSE srv
              /\ goto(IF flags.listen = "no" THEN "softstopped" ELSE "softstop")
              /\ UNCHANGED <<flags, seen>>
         [] ~flags.softstop /\ flags.listen = "yes" ->
              /\ \E bound \in SUBSET ListenersOf("proxy") :
                   srv' = accepting(srv, "proxy", bound)
              /\ flags' = [flags EXCEPT !.shutdown = FALSE]
              /\ seen' = [seen EXCEPT !.lost = @ \/ flags.shutdown]
              /\ goto("listened")
         [] ~flags.softstop /\ flags.listen = "no" ->
              /\ srv' = rejecting(srv, "proxy")
              /\ goto("listened")
              /\ UNCHANGED <<flags, seen>>
         [] ~flags.softstop /\ flags.listen = "none" ->
              /\ goto("spawn")
              /\ UNCHANGED <<srv, flags, seen>>
    /\ UNCHANGED <<dispatcher, data, link, other>>

\* The change of listening is done, and one asked for meanwhile is forgotten.
listened ==
    /\ at \in {"listened", "softstopped"}
    /\ flags' = [flags EXCEPT !.listen = "none"]
    /\ goto(IF at = "listened" THEN "spawn" ELSE "softstop")
    /\ UNCHANGED <<srv, dispatcher, data, link, other, seen>>

NoClients(s) == \A source \in Sources : s.client_count[source] = 0

\* A variant: the soft stop waits until no socket listens.
softstop_AfterRejecting ==
    /\ at = "softstop" /\ goto("spawn")
    /\ flags' = [flags EXCEPT !.shutdown = @ \/ (NoClients(srv) /\ srv.watched = {})]
    /\ seen' = [seen EXCEPT !.terminated = @ \/ (NoClients(srv) /\ srv.watched = {})]
    /\ UNCHANGED <<srv, dispatcher, data, link, other>>

softstop ==
    /\ at = "softstop" /\ goto("spawn")
    /\ flags' = [flags EXCEPT !.shutdown = @ \/ NoClients(srv)]
    /\ seen' = [seen EXCEPT !.terminated = @ \/ NoClients(srv)]
    /\ UNCHANGED <<srv, dispatcher, data, link, other>>

\* The limits are changed, and what was asked for meanwhile is forgotten.
changeSpawnLimits ==
    /\ at = "spawn"
    /\ \/ flags.spawn /\ tell("SPAWN", "spawned")
       \/ ~flags.spawn /\ goto("reactor") /\ UNCHANGED commands
    /\ UNCHANGED <<flags, srv, dispatcher, data, answers, other, seen>>

spawnLimitsChanged ==
    /\ at = "spawned" /\ goto("reactor")
    /\ flags' = [flags EXCEPT !.spawn = FALSE]
    /\ UNCHANGED <<srv, dispatcher, data, link, other, seen>>
-----------------------------------------------------------------------------
(* shutdown().                                                             *)

joinDispatcher ==
    /\ at = "join" /\ goto("stop")
    /\ sender = "ended"
    /\ UNCHANGED <<flags, srv, dispatcher, data, link, other, seen>>

\* An error of the pipe is expected here.
stopRedirector ==
    /\ at = "stop"
    /\ \/ Closed /\ goto("content") /\ UNCHANGED commands
       \/ ~Closed /\ tell("STOP", "wait_stop")
    /\ seen' = [seen EXCEPT !.unread = answers > 0 \/ \E i \in DOMAIN commands : commands[i] = "STATS"]
    /\ UNCHANGED <<flags, srv, dispatcher, data, answers, other>>

\* Anything but the end of the pipe is an error that nothing handles.
wait_stop ==
    /\ at = "wait_stop"
    /\ \/ answers > 0 /\ answers' = answers - 1 /\ goto("failed")
       \/ answers = 0 /\ Closed /\ goto("content") /\ UNCHANGED answers
    /\ UNCHANGED <<flags, srv, dispatcher, data, commands, other, seen>>

\* Downloads and clients are closed, the pid file is removed, the alarm is stopped.
stopContent ==
    /\ at = "content" /\ goto("gone")
    /\ UNCHANGED <<flags, srv, dispatcher, data, link, other, seen>>

\* The process is killed, and its threads with it.
kill ==
    /\ at # "gone" /\ goto("gone")
    /\ sender' = "ended" /\ queue' = <<>>
    /\ srv' = [srv EXCEPT !.client_count = [s \in Sources |-> 0], !.socks = {}, !.watched = {}]
    /\ seen' = [seen EXCEPT !.crashed = TRUE]
    /\ UNCHANGED <<flags, data, link, other>>
-----------------------------------------------------------------------------
(* The dispatcher.                                                          *)

\* A variant: what could not be written is tried again.
dispatch_TriesAgain ==
    /\ sender = "running" /\ queue # <<>> /\ ~(Closed /\ Head(queue) = "REQUEST")
    /\ queue' = Tail(queue)
    /\ \/ /\ Head(queue) = "STOP"
          /\ sender' = "ended"
          /\ UNCHANGED requests
       \/ /\ Head(queue) = "REQUEST" /\ requests < PipeSize
          /\ requests' = requests + 1
          /\ UNCHANGED sender
    /\ UNCHANGED <<main, decisions, link, other, seen>>

\* Requests are written while there is room; an error of the pipe ends the thread.
dispatch ==
    /\ sender = "running" /\ queue # <<>>
    /\ queue' = Tail(queue)
    /\ \/ /\ Head(queue) = "STOP"
          /\ sender' = "ended"
          /\ UNCHANGED requests
       \/ /\ Head(queue) = "REQUEST" /\ Closed
          /\ sender' = "ended"
          /\ UNCHANGED requests
       \/ /\ Head(queue) = "REQUEST" /\ ~Closed /\ requests < PipeSize
          /\ requests' = requests + 1
          /\ UNCHANGED sender
    /\ UNCHANGED <<main, decisions, link, other, seen>>
-----------------------------------------------------------------------------
(* The redirector process.  Its control pipe has precedence.               *)

becomes(from, to) == redirector = from /\ redirector' = to

\* A variant: the redirector says that it is about to stop.
control_Acknowledges ==
    /\ redirector = "running"
    /\ \/ /\ commands # <<>>
          /\ commands' = Tail(commands)
          /\ answers' = answers + 1
       \/ /\ commands = <<>> /\ at = "gone"
          /\ UNCHANGED link
    /\ IF commands = <<>> \/ Head(commands) = "STOP"
       THEN redirector' = "gone" /\ programs' = FALSE ELSE UNCHANGED other
    /\ UNCHANGED <<main, dispatcher, data, seen>>

\* A variant: the end of the control pipe says nothing.
control_Remains ==
    /\ redirector = "running" /\ commands # <<>>
    /\ commands' = Tail(commands)
    /\ \/ /\ Head(commands) = "STATS" /\ answers < ControlSize
          /\ answers' = answers + Count(at # "gone")
          /\ UNCHANGED other
       \/ /\ Head(commands) = "SPAWN"
          /\ UNCHANGED <<answers, other>>
       \/ /\ Head(commands) = "STOP"
          /\ redirector' = "gone" /\ programs' = FALSE
          /\ UNCHANGED answers
    /\ UNCHANGED <<main, dispatcher, data, seen>>

\* Statistics are answered; STOP and the end of the pipe end the process and its
\* programs; an answer that nobody will read ends the process only.
control ==
    /\ redirector = "running"
    /\ \/ /\ commands # <<>> /\ Head(commands) = "STATS"
          /\ commands' = Tail(commands)
          /\ \/ at # "gone" /\ answers < ControlSize /\ answers' = answers + 1
                /\ UNCHANGED redirector
             \/ at = "gone" /\ redirector' = "gone" /\ UNCHANGED answers
          /\ UNCHANGED programs
       \/ /\ commands # <<>> /\ Head(commands) = "SPAWN"
          /\ commands' = Tail(commands)
          /\ UNCHANGED <<answers, other>>
       \/ /\ IF commands # <<>> THEN Head(commands) = "STOP" ELSE at = "gone"
          /\ redirector' = "gone" /\ programs' = FALSE
          /\ UNCHANGED link
    /\ UNCHANGED <<main, dispatcher, data, seen>>

readRequest ==
    /\ becomes("running", "put")
    /\ commands = <<>> /\ at # "gone" /\ requests > 0
    /\ requests' = requests - 1
    /\ UNCHANGED <<main, dispatcher, decisions, link, programs, seen>>

sendResponse ==
    /\ \/ becomes("put", "gone") /\ at = "gone" /\ UNCHANGED decisions
       \/ becomes("put", "running") /\ at # "gone" /\ decisions < PipeSize
          /\ decisions' = decisions + 1
    /\ UNCHANGED <<main, dispatcher, requests, link, programs, seen>>

\* The process waits for ever for a program, or it is killed.
hang ==
    /\ programs /\ becomes("running", "hung")
    /\ UNCHANGED <<main, dispatcher, data, link, programs, seen>>

crash ==
    /\ redirector # "gone" /\ redirector' = "gone"
    /\ seen' = [seen EXCEPT !.crashed = TRUE]
    /\ UNCHANGED <<main, dispatcher, data, link, programs>>

\* The programs read the end of their input.
exit ==
    /\ programs /\ redirector = "gone"
    /\ programs' = FALSE
    /\ UNCHANGED <<main, dispatcher, data, link, redirector, seen>>
-----------------------------------------------------------------------------
Signals ==
    \/ sigterm \/ sigquit
    \/ \E listening \in {"yes", "no"} : sigtt(listening)
    \/ sigusr

Traffic ==
    \/ \E l \in Listeners : connect(l)
    \/ \E source \in Sources : leave(source)
    \/ sendRequest
    \/ readRedirector

Main ==
    \/ stopReactor \/ leaveReactor
    \/ readControl \/ check \/ listenAgain \/ listened \/ softstop
    \/ changeSpawnLimits \/ spawnLimitsChanged
    \/ joinDispatcher \/ stopRedirector \/ wait_stop \/ stopContent

Redirector == control \/ readRequest \/ sendResponse
Faults == kill \/ hang \/ crash

Next == Signals \/ Traffic \/ Main \/ dispatch \/ Redirector \/ Faults \/ exit

\* Threads and processes are scheduled, and a program ends when its input does.
Fairness ==
    /\ WF_vars(Main) /\ WF_vars(dispatch) /\ WF_vars(Redirector)
    /\ WF_vars(exit)

Spec == Init /\ [][Next]_vars /\ Fairness
=============================================================================

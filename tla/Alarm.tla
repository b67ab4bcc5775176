-------------------------------- MODULE Alarm --------------------------------
(***************************************************************************)
(* The thread that interrupts the main loop (util/alarm.py), and the main  *)
(* loop as far as it speaks to it (supervisor.py): it sets the alarm,      *)
(* waits for an interrupt in the reactor, or for something else, reads the *)
(* interrupt and sets the alarm again; in the end it stops the thread.     *)
(* They share a queue of commands and a pipe of interrupts.  An alarm that *)
(* was set rings each period until it is told otherwise.                   *)
(***************************************************************************)
EXTENDS Naturals, Sequences

CONSTANT PipeSize   \* interrupts that fit in the pipe

VARIABLES at,        \* the main thread
          queue,     \* commands for the alarm thread
          place,     \* the alarm thread
          alarms     \* interrupts in the pipe

vars == <<at, queue, place, alarms>>

Init == at = "set" /\ queue = <<>> /\ place = "get" /\ alarms = 0
-----------------------------------------------------------------------------
(* The main thread.                                                        *)

setAlarm ==
    /\ at = "set" /\ at' = "reactor"
    /\ queue' = Append(queue, "ALARM")
    /\ UNCHANGED <<place, alarms>>

\* The reactor ends with an interrupt, or because a child process disappeared; other
\* messages are dealt with without leaving it.
reactorEnds(interrupted) ==
    /\ at = "reactor" /\ at' = "acknowledge"
    /\ interrupted => alarms > 0
    /\ UNCHANGED <<queue, place, alarms>>

\* The read waits for an interrupt if there is none.
acknowledgeAlarm(next) ==
    /\ at = "acknowledge" /\ alarms > 0
    /\ alarms' = alarms - 1
    /\ at' = next
    /\ UNCHANGED <<queue, place>>

stop ==
    /\ at = "stop" /\ at' = "join"
    /\ queue' = Append(queue, "STOP")
    /\ UNCHANGED <<place, alarms>>

join ==
    /\ at = "join" /\ place = "ended" /\ at' = "gone"
    /\ UNCHANGED <<queue, place, alarms>>
-----------------------------------------------------------------------------
(* The alarm thread.                                                       *)

take(command) ==
    /\ queue # <<>> /\ Head(queue) = command
    /\ queue' = Tail(queue)
    /\ UNCHANGED <<at, alarms>>

\* The queue is looked at before any wait begins.
Listening == place \in {"get", "look", "wait"}

\* A variant: a command that comes during the wait is what the wait was for.
restarted_Forgets ==
    /\ Listening /\ take("ALARM")
    /\ place' = IF place = "get" THEN "look" ELSE "get"

\* An ALARM arms the alarm, or begins the wait again.
restarted == Listening /\ take("ALARM") /\ place' = "look"

stopped == Listening /\ take("STOP") /\ place' = "ended"

wait == place = "look" /\ queue = <<>> /\ place' = "wait" /\ UNCHANGED <<at, queue, alarms>>

\* The wait may end while a command comes.
period == place = "wait" /\ place' = "ring" /\ UNCHANGED <<at, queue, alarms>>

ring ==
    /\ place = "ring" /\ alarms < PipeSize
    /\ alarms' = alarms + 1 /\ place' = "look"
    /\ UNCHANGED <<at, queue>>
-----------------------------------------------------------------------------
Main ==
    \/ setAlarm
    \/ \E interrupted \in BOOLEAN : reactorEnds(interrupted)
    \/ \E next \in {"set", "stop"} : acknowledgeAlarm(next)
    \/ stop \/ join
Thread == restarted \/ stopped \/ wait \/ period \/ ring
Next == Main \/ Thread

\* The threads are scheduled; a child process need not disappear.
Fairness ==
    /\ WF_vars(setAlarm \/ reactorEnds(TRUE) \/ stop \/ join)
    /\ WF_vars(\E next \in {"set", "stop"} : acknowledgeAlarm(next))
    /\ WF_vars(Thread)

Spec == Init /\ [][Next]_vars /\ Fairness
-----------------------------------------------------------------------------
\* Once armed, the alarm comes: the main loop leaves the reactor again and again, and
\* no commands it gave, nor their order, silence it (util/alarm.py:14-34).
InterruptsGoOn == at = "reactor" ~> at = "acknowledge"

\* The main thread is not held by the interrupt it reads, even if the reactor ended for
\* another reason (supervisor.py:293).
AcknowledgeReturns == at = "acknowledge" ~> at # "acknowledge"

\* stop() joins the thread, unless the pipe is full of interrupts nobody reads any more:
\* the thread then never looks at its queue again (util/alarm.py:31, 48-51).
StopJoins == at = "stop" ~> at = "gone" \/ (at = "join" /\ place = "ring" /\ alarms = PipeSize)
=============================================================================

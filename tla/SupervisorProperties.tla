----------------------- MODULE SupervisorProperties -----------------------
(***************************************************************************)
(* What the supervisor promises about its end, about the end of the other  *)
(* process, and about who listens.                                         *)
(***************************************************************************)
EXTENDS Supervisor

\* Every variable has its type, and no pipe holds more than it can.
SupervisorOK ==
    /\ at \in Places
    /\ flags \in Flags /\ srv \in ServerTable
    /\ sender \in {"running", "ended"}
    /\ requests \in 0..PipeSize /\ decisions \in 0..PipeSize
    /\ answers \in 0..ControlSize /\ Len(commands) <= ControlSize
    /\ redirector \in {"running", "put", "hung", "gone"}
    /\ programs \in BOOLEAN

\* The proxy ends with an exception nobody handles only when the redirector process
\* died on its own, or when the redirector was stopped before it had answered
\* for its statistics (wait_stop, util/control.py:37-43: the answer is then
\* "data from a process that should have stopped").  It is never the order of the
\* other messages, nor a signal, that does it.
FailsOnly == at = "failed" => seen.unread \/ seen.crashed

\* Whatever the order of the signals, rounds, clients and stops, a socket is watched
\* exactly when it is bound and its server has room (network/server.py:38-116,
\* supervisor.py:311-327).
ListeningAgrees ==
    \A l \in Listeners :
      l \in srv.watched <=> l \in srv.socks /\ Free(srv, ListenerOf[l])
-----------------------------------------------------------------------------
\* The redirector waits for room in the pipe of its decisions, which the proxy has
\* stopped reading: the two processes wait for one another.
Jammed == redirector = "put" /\ decisions = PipeSize /\ at \in {"join", "wait_stop"}

\* The redirector waits for a program that does not answer.
Hung == redirector = "hung"

\* The main thread died of an exception, because a STATS answer came where the end of
\* the pipe was expected (seen.unread) or because a control message was written to a
\* redirector that is gone (seen.crashed).  The alarm thread keeps the process alive,
\* and nobody serves.
Failed == at = "failed" /\ (seen.unread \/ seen.crashed)

Excused == Jammed \/ Hung \/ seen.lost \/ Failed

\* Once a shutdown is asked for, the process of the proxy ends (supervisor.py:294-301,
\* 499-513), unless it is jammed, the redirector hangs, the request was overwritten by
\* the success of listening again (supervisor.py:323), or the main thread fails on a
\* STATS answer in flight or on the pipe of a redirector that died.
ShutdownEnds == seen.terminated ~> at = "gone" \/ Excused

\* "shut down the server if a child process disappears" (supervisor.py:272): however
\* the redirector process goes, the process of the proxy ends, unless the main thread
\* fails first on the pipe or on the answer left in it.
ProxyFollows == redirector = "gone" ~> at = "gone" \/ Failed

\* Both: the proxy ends on request, and never goes on serving without a redirector.
ProxyEnds == ShutdownEnds /\ ProxyFollows

\* The redirector and its programs do not outlive the proxy, even if it is killed
\* (reactor/redirector/supervisor.py:71-142: the end of the control pipe stops it).
RedirectorFollows == at = "gone" ~> Closed \/ Hung

\* A proxy that was asked to stop softly, and has no client any more, ends its process
\* (supervisor.py:314-319, reactor/client/manager.py:316-337), with the same excuses as
\* for a shutdown, a main thread that failed among them.
SoftStopEnds ==
    <>[](flags.softstop /\ NoClients(srv)) => <>(at = "gone" \/ Excused)
=============================================================================

------------------------------ MODULE MCParts ------------------------------
(***************************************************************************)
(* The parts of the program that can be checked alone, each in behaviours  *)
(* of its own: `part' says which one moves.  The others never begin, or    *)
(* have come to an end, so that their fairness asks for nothing.           *)
(***************************************************************************)
EXTENDS HttpMessages

CONSTANTS Part,                               \* the parts to check
          ReadEvents, WriteEvents, Socks, Fds, MaxReady, NoFd, NoSock, NoEvent,
          Keys, Timeout, Batch, MaxTime,
          Texts, MaxMessages, MaxInterrupts, PipeSize, Scripts, MaxBuffer,
          Clients, Workers, Low, High, NoJob,
          IncreaseFrequency, DecreaseFrequency, MaxPending, MaxControls

\* An event is about reading or about writing; the values that stand for no descriptor,
\* no socket and no event are none.  A cache without a timeout keeps no queue
\* (util/cache.py:20-23), and a batch is of one client at least.  A text is a sequence of
\* characters, and a client sends messages.
ASSUME PartsAssumption ==
    /\ ReadEvents \cap WriteEvents = {}
    /\ NoFd \notin Fds /\ NoSock \notin Socks /\ NoEvent \notin ReadEvents \cup WriteEvents
    /\ Timeout \in Nat \ {0} /\ Batch \in Nat \ {0}
    /\ Texts \subseteq Seq(STRING) /\ MaxMessages \in Nat /\ MaxInterrupts \in Nat
    /\ Scripts \subseteq Seq([mode : {"transfer", "chunked", "passthrough"}, lines : Seq(STRING),
                            end : {CRLF, LF}, body : Seq(STRING)])
    /\ MaxBuffer \in Nat

VARIABLES part,
          e_fd, e_sockets, e_corked, e_fdtosock, e_errors, e_registered, e_polled,
          k_fd, k_sockets, k_corked, k_fdtosock, k_errors, k_filters, k_polled, raised,
          read_sockets, write_sockets, read_modified, write_modified, read_all, write_all,
          waiting, parked, polled,
          now, norequest, time, last, arrived, gone,
          writing, pipe, open, m_place, message_s, pickled, remaining, interrupts, sent, received, broken,
          a_at, a_queue, a_place, alarms,
          script, unsent, socket, r_buffer, mode, nb_to_send, seek, asked, read,
          protocol, enabled, child, unread, w_place, request, tainted, answer,
          inbox, outbox, pool, at, todo, turns, count_increase, count_decrease,
          respawning, controls

Epoll == INSTANCE EpollPoller WITH
    fd <- e_fd, sockets <- e_sockets, corked <- e_corked, fdtosock <- e_fdtosock,
    errors <- e_errors, registered <- e_registered, polled <- e_polled
KQueue == INSTANCE KQueuePoller WITH
    fd <- k_fd, sockets <- k_sockets, corked <- k_corked, fdtosock <- k_fdtosock,
    errors <- k_errors, filters <- k_filters, polled <- k_polled
Select == INSTANCE SelectPoller
Idle == INSTANCE IdleClients
Box == INSTANCE MessageBox WITH place <- m_place
Thread == INSTANCE Alarm WITH at <- a_at, queue <- a_queue, place <- a_place
Http == INSTANCE HttpReader
Worker == INSTANCE Decision WITH place <- w_place
Pool == INSTANCE RedirectorProperties

epoll == <<e_fd, e_sockets, e_corked, e_fdtosock, e_errors, e_registered, e_polled>>
kqueue == <<k_fd, k_sockets, k_corked, k_fdtosock, k_errors, k_filters, k_polled, raised>>
select ==
    <<read_sockets, write_sockets, read_modified, write_modified, read_all, write_all,
      waiting, parked, polled>>
idle == <<now, norequest, time, last, arrived, gone>>
box == <<writing, pipe, open, m_place, message_s, pickled, remaining, interrupts,
         sent, received, broken>>
alarm == <<a_at, a_queue, a_place, alarms>>
http == <<script, unsent, socket, r_buffer, mode, nb_to_send, seek, asked, read>>
worker == <<protocol, enabled, child, unread, w_place, request, tainted, answer>>
redirector ==
    <<inbox, outbox, pool, at, todo, turns, count_increase, count_decrease, respawning, controls>>
vars == <<part, epoll, kqueue, select, idle, box, alarm, http, worker, redirector>>

\* The parts with fairness, when they have ended.
NoBox ==
    /\ writing = <<>> /\ pipe = <<>> /\ open = FALSE
    /\ m_place = "none" /\ message_s = <<>> /\ pickled = <<>> /\ remaining = 0
    /\ interrupts = 0 /\ sent = <<>> /\ received = <<>> /\ broken = {}
NoThread == a_at = "gone" /\ a_queue = <<>> /\ a_place = "ended" /\ alarms = 0
NoPool ==
    /\ inbox = <<>> /\ outbox = <<>> /\ pool = Pool!NoWorkers
    /\ at = "hung" /\ todo = {} /\ turns = 0
    /\ count_increase = 0 /\ count_decrease = 0
    /\ respawning = FALSE /\ controls = 0

Init ==
    /\ part \in Part
    /\ Epoll!Init /\ KQueue!Init /\ Select!Init /\ Idle!Init
    /\ IF part = "box" THEN Box!Init ELSE NoBox
    /\ IF part = "alarm" THEN Thread!Init ELSE NoThread
    /\ Http!Init /\ (part # "http" => script = CHOOSE s \in Scripts : TRUE)
    /\ Worker!Init /\ (part # "worker" => protocol = "url" /\ ~enabled)
    /\ IF part = "pool" THEN Pool!Init ELSE NoPool

Others(p) ==
    /\ part = p /\ UNCHANGED part
    /\ IF p = "epoll" THEN TRUE ELSE UNCHANGED epoll
    /\ IF p = "kqueue" THEN TRUE ELSE UNCHANGED kqueue
    /\ IF p = "select" THEN TRUE ELSE UNCHANGED select
    /\ IF p = "idle" THEN TRUE ELSE UNCHANGED idle
    /\ IF p = "box" THEN TRUE ELSE UNCHANGED box
    /\ IF p = "alarm" THEN TRUE ELSE UNCHANGED alarm
    /\ IF p = "http" THEN TRUE ELSE UNCHANGED http
    /\ IF p = "worker" THEN TRUE ELSE UNCHANGED worker
    /\ IF p = "pool" THEN TRUE ELSE UNCHANGED redirector

Next ==
    \/ part = "epoll" /\ Epoll!Next /\ Others("epoll")
    \/ part = "kqueue" /\ KQueue!Next /\ Others("kqueue")
    \/ part = "select" /\ Select!Next /\ Others("select")
    \/ part = "idle" /\ Idle!Next /\ Others("idle")
    \/ part = "box" /\ Box!Next /\ Others("box")
    \/ part = "alarm" /\ Thread!Next /\ Others("alarm")
    \/ part = "http" /\ Http!Next /\ Others("http")
    \/ part = "worker" /\ Worker!Next /\ Others("worker")
    \/ part = "pool" /\ Pool!Next /\ Others("pool")

Spec == Init /\ [][Next]_vars /\ Box!Fairness /\ Thread!Fairness /\ Pool!Fairness
-----------------------------------------------------------------------------
(* The properties of the parts, which their modules define.                *)

\* The pollers made of epoll descriptors, of kernel queues and of select() report what a
\* poller promises to report: all that is ready and watched and nothing that is corked,
\* whatever sockets used the descriptors before (network/async/epoll.py, kqueue.py,
\* selectpoll.py, interface.py).
PollersPoll == Epoll!Implements /\ KQueue!Implements /\ Select!Implements

\* The assertions of the kernel queues hold as long as no socket is closed while it is
\* subscribed, and select() waits for all the sockets it is to report
\* (network/async/kqueue.py:46, 149, selectpoll.py:137-147).
PollersReady == KQueue!NeverRaises /\ Select!WaitsForAll

\* No client is expired too early, nor before one that came earlier; nor does any that
\* sends nothing drop out of the queue (util/cache.py:34-57).
ExpiredInTurn == Idle!NeverEarly /\ Idle!OldestFirst /\ []Idle!NobodyOverlooked

\* Messages over a pipe are received whole and in order, none is invented at its end,
\* all are received, and the end is seen, unless a signal interrupts a write in the
\* middle of a message, or a read in its text (util/messagebox.py:10-58, 94-112).
MessagesWhole == Box!ReceivedAsSent /\ Box!NoneOnlyAtEnd
MessagesArrive == Box!AllReceived /\ Box!EndIsSeen

\* The alarm interrupts the main loop again and again, and neither thread is left waiting
\* for the other (util/alarm.py:14-58, util/messagequeue.py:17-47).
AlarmServes == Thread!InterruptsGoOn /\ Thread!AcknowledgeReturns /\ Thread!StopJoins

\* What an HTTP client sends is read for what it is, and bodies that have a length are
\* not kept waiting, if the ends of the headers can be told (reactor/client/http.py:47-295).
ReadAsSent == Http!ReadAsSent
TransfersGoThrough == Http!TransfersGoThrough

\* Nor are those in chunks: every character that was received goes through, and no piece
\* makes the coroutine raise (reactor/client/http.py:139-140, 247-286).
BodyGoesThrough == Http!BodyGoesThrough

\* A worker whose program runs is in step with it, and clients get commands that fit them
\* and their requests (reactor/redirector/worker.py, icap.py, response.py).
DecisionsFit == Worker!InStep /\ Worker!AnswersFit

\* A pool that loses its only worker again and again answers everyone, unless the
\* process hangs (reactor/redirector/manager.py:235-301).
EveryoneAnswered == Pool!EveryoneAnswered
-----------------------------------------------------------------------------
(* What is sent.                                                           *)

\* With lengths of one to three binary digits, and characters of the framing.
Messages == {<<>>, <<":">>, <<",", "1", ":">>, <<"1", "0", ":", "1", ",">>}

Transfer(lines, end, body) == Message("transfer", lines, end, body)
Chunked(body) == Message("chunked", <<"h">>, CRLF, body)

\* Headers of both kinds, with quotes, quotes that are left open and too many lines, and
\* bodies that look like the end of a header, have an invalid or large chunk, or a trailer.
Bodies ==
    {<<Transfer(<<"h">>, CRLF, LF), Transfer(<<"q", "r", "n", "q">>, LF, <<>>)>>,
     <<Transfer(<<"h">>, LF, <<"r", "n", "x">>), Transfer(<<"h">>, CRLF, CRLF)>>,
     <<Transfer(<<"q">>, LF, <<"h">>)>>, <<Transfer(<<"h", "r", "n", "h", "h">>, CRLF, <<>>)>>,
     <<Message("passthrough", <<"h">>, LF, <<"n", "x", "n">>)>>,
     <<Transfer(<<"h">>, CRLF, <<"x">>),
       Chunked(<<"1", ";", "h", "n", "x", "n", "2", "r", "n", "n", "x", "r", "n", "0", "n", "n">>)>>,
     <<Chunked(<<"1", "r", "n", "x", "r", "n", "0", "n", "h", "n", "n">>)>>,
     <<Chunked(<<"3", "n", "x", "n", "x">>)>>, <<Chunked(<<"1", ";", "h", "h", "h", "h", "h", "n">>)>>}

InChunks == {<<Chunked(<<"1", "n", "x", "n", "0", "n", "n">>)>>}
=============================================================================

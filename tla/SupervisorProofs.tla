-------------------------- MODULE SupervisorProofs --------------------------
(***************************************************************************)
(* The supervisor keeps its types, its sockets are watched when there is   *)
(* room, and it fails only for a reason.  First the operations of Server,  *)
(* then the messages of the pipes, then the steps.                         *)
(***************************************************************************)
EXTENDS SupervisorProperties, TLAPS

\* ListeningAgrees of a table.
Watches(s) ==
    \A l \in Listeners : l \in s.watched <=> l \in s.socks /\ Free(s, ListenerOf[l])

ServersOK(s) == s \in ServerTable /\ Watches(s)

LEMMA FreeType ==
    ASSUME NEW s \in ServerTable, NEW source \in Sources
    PROVE  /\ s.client_count[source] \in Int /\ MaxClients[source] \in Nat
           /\ Free(s, source) <=> s.client_count[source] < MaxClients[source]
  BY SocketsAssumption DEF ServerTable, Free

LEMMA NewServersOK == ServersOK(NewServers)
  <1>1. PICK s : s = [client_count |-> [c \in Sources |-> 0], socks |-> {}, watched |-> {},
                      serving |-> Sources]
    OBVIOUS
  <1>2. s \in ServerTable /\ NewServers = listen(s, Listeners)
    BY <1>1 DEF ServerTable, NewServers
  <1>3. /\ NewServers \in ServerTable
        /\ NewServers.client_count = s.client_count
        /\ NewServers.socks = Listeners
        /\ NewServers.watched = {l \in Listeners : Free(s, ListenerOf[l])}
    BY <1>1, <1>2 DEF listen, ServerTable
  <1>4. \A source \in Sources : Free(NewServers, source) <=> Free(s, source)
    BY <1>3 DEF Free
  <1> QED
    BY <1>3, <1>4, SocketsAssumption DEF ServersOK, Watches

LEMMA AcceptedOK ==
    ASSUME NEW s, ServersOK(s), NEW source \in Sources, NEW t, t = accepted(s, source)
    PROVE  ServersOK(t)
  <1>1. PICK u : u = [s EXCEPT !.client_count[source] = @ + 1]
    OBVIOUS
  <1>2. /\ u \in ServerTable /\ s \in ServerTable
        /\ u.client_count = [s.client_count EXCEPT ![source] = @ + 1]
        /\ u.socks = s.socks /\ u.watched = s.watched
    BY <1>1 DEF ServersOK, ServerTable
  <1>3. t = pause(u, source)
    BY <1>1 DEF accepted
  <1>4. /\ t \in ServerTable
        /\ t.client_count = u.client_count /\ t.socks = u.socks
        /\ t.watched = IF Free(u, source) THEN u.watched
                       ELSE u.watched \ (ListenersOf(source) \cap u.socks)
    BY <1>2, <1>3 DEF pause, ServerTable
  <1>5. \A other_source \in Sources :
          Free(t, other_source) <=> IF other_source = source THEN Free(u, source)
                                    ELSE Free(s, other_source)
    BY <1>2, <1>4 DEF Free, ServerTable
  <1>6. Free(u, source) => Free(s, source)
    BY <1>2, FreeType DEF ServerTable
  <1>7. ASSUME NEW l \in Listeners
        PROVE  l \in t.watched <=> l \in t.socks /\ Free(t, ListenerOf[l])
    <2>1. /\ ListenerOf[l] \in Sources
          /\ l \in ListenersOf(source) <=> ListenerOf[l] = source
          /\ l \in s.watched <=> l \in s.socks /\ Free(s, ListenerOf[l])
      BY SocketsAssumption DEF ListenersOf, ServersOK, Watches
    <2> QED
      BY <1>2, <1>4, <1>5, <1>6, <2>1
  <1> QED
    BY <1>4, <1>7 DEF ServersOK, Watches

LEMMA NotifyCloseOK ==
    ASSUME NEW s, ServersOK(s), NEW source \in Sources, NEW t, t = notifyClose(s, source, 1)
    PROVE  ServersOK(t)
  <1>1. PICK u : u = [s EXCEPT !.client_count[source] = @ - 1]
    OBVIOUS
  <1>2. /\ u \in ServerTable /\ s \in ServerTable
        /\ u.client_count = [s.client_count EXCEPT ![source] = @ - 1]
        /\ u.socks = s.socks /\ u.watched = s.watched
    BY <1>1 DEF ServersOK, ServerTable
  <1>3. /\ t \in ServerTable
        /\ t.client_count = u.client_count /\ t.socks = u.socks
        /\ t.watched = IF Free(u, source) /\ ~Free(s, source)
                       THEN u.watched \cup (ListenersOf(source) \cap s.socks)
                       ELSE u.watched
    BY <1>1, <1>2 DEF notifyClose, ServerTable
  <1>4. \A other_source \in Sources :
          Free(t, other_source) <=> IF other_source = source THEN Free(u, source)
                                    ELSE Free(s, other_source)
    BY <1>2, <1>3 DEF Free, ServerTable
  <1>5. Free(s, source) => Free(u, source)
    BY <1>2, FreeType DEF ServerTable
  <1>6. ASSUME NEW l \in Listeners
        PROVE  l \in t.watched <=> l \in t.socks /\ Free(t, ListenerOf[l])
    <2>1. /\ ListenerOf[l] \in Sources
          /\ l \in ListenersOf(source) <=> ListenerOf[l] = source
          /\ l \in s.watched <=> l \in s.socks /\ Free(s, ListenerOf[l])
      BY SocketsAssumption DEF ListenersOf, ServersOK, Watches
    <2> QED
      BY <1>2, <1>3, <1>4, <1>5, <2>1
  <1> QED
    BY <1>3, <1>6 DEF ServersOK, Watches

LEMMA StopOK ==
    ASSUME NEW s, ServersOK(s), NEW source \in Sources, NEW t, t = stop(s, source)
    PROVE  ServersOK(t)
  <1>1. /\ t \in ServerTable
        /\ t.client_count = s.client_count
        /\ t.socks = s.socks \ ListenersOf(source)
        /\ t.watched = s.watched \ ListenersOf(source)
    BY DEF ServersOK, ServerTable, stop
  <1>2. \A other_source \in Sources : Free(t, other_source) <=> Free(s, other_source)
    BY <1>1 DEF Free
  <1> QED
    BY <1>1, <1>2, SocketsAssumption DEF ServersOK, Watches

LEMMA RejectingOK ==
    ASSUME NEW s, ServersOK(s), NEW source \in Sources, NEW t, t = rejecting(s, source)
    PROVE  ServersOK(t)
  <1>1. CASE source \in s.serving
    <2>1. PICK u : u = stop(s, source)
      OBVIOUS
    <2>2. ServersOK(u) /\ t = [u EXCEPT !.serving = @ \ {source}]
      BY <1>1, <2>1, StopOK DEF rejecting
    <2>3. /\ t \in ServerTable /\ t.client_count = u.client_count
          /\ t.socks = u.socks /\ t.watched = u.watched
      BY <2>2 DEF ServersOK, ServerTable
    <2> QED
      BY <2>2, <2>3 DEF ServersOK, Watches, Free
  <1>2. CASE source \notin s.serving
    BY <1>2 DEF rejecting
  <1> QED
    BY <1>1, <1>2

LEMMA AcceptingOK ==
    ASSUME NEW s, ServersOK(s), NEW source \in Sources, NEW bound \in SUBSET Listeners,
           NEW t, t = accepting(s, source, bound)
    PROVE  ServersOK(t)
  <1>1. CASE source \in s.serving
    BY <1>1 DEF accepting
  <1>2. CASE source \notin s.serving
    <2>1. /\ t \in ServerTable
          /\ t.client_count = s.client_count
          /\ t.socks = s.socks \cup bound
          /\ t.watched = s.watched \cup {l \in bound : Free(s, ListenerOf[l])}
      BY <1>2 DEF ServersOK, ServerTable, accepting, listen
    <2>2. \A other_source \in Sources : Free(t, other_source) <=> Free(s, other_source)
      BY <2>1 DEF Free
    <2> QED
      BY <2>1, <2>2, SocketsAssumption DEF ServersOK, Watches
  <1> QED
    BY <1>1, <1>2
-----------------------------------------------------------------------------
(* The inductive invariant.                                                *)

Commands == {"STATS", "SPAWN", "STOP"}

History ==
    [signals : Nat, terminated : BOOLEAN, lost : BOOLEAN, crashed : BOOLEAN,
     unread : BOOLEAN]

TypesOK ==
    /\ SupervisorOK
    /\ commands \in Seq(Commands)
    /\ queue \in Seq({"REQUEST", "STOP"})
    /\ seen \in History

Lacks(messages, m) == \A i \in DOMAIN messages : messages[i] # m

\* Until it is told to stop, the redirector is there.
RedirectorLives ==
    at \in Rounds \cup {"join", "stop"} /\ ~seen.crashed
      => redirector # "gone" /\ Lacks(commands, "STOP")

\* Once it is told to, it has nothing to answer but what was noted then.
NothingElse ==
    at = "wait_stop" /\ ~seen.unread /\ ~seen.crashed
      => answers = 0 /\ Lacks(commands, "STATS")

IInv ==
    /\ TypesOK
    /\ Watches(srv)
    /\ RedirectorLives
    /\ NothingElse
    /\ FailsOnly

LEMMA AppendLacks ==
    ASSUME NEW messages \in Seq(Commands), NEW m, NEW new \in Commands
    PROVE  /\ Append(messages, new) \in Seq(Commands)
           /\ Len(Append(messages, new)) = Len(messages) + 1
           /\ Lacks(messages, m) /\ new # m => Lacks(Append(messages, new), m)
  BY DEF Lacks

LEMMA TailLacks ==
    ASSUME NEW messages \in Seq(Commands), messages # <<>>, NEW m
    PROVE  /\ Tail(messages) \in Seq(Commands)
           /\ Len(Tail(messages)) = Len(messages) - 1 /\ Len(messages) \in Nat
           /\ Lacks(messages, m) => Head(messages) # m /\ Lacks(Tail(messages), m)
  BY DEF Lacks

LEMMA InitOK == Init => IInv
  <1> SUFFICES ASSUME Init PROVE IInv
    OBVIOUS
  <1>1. ServersOK(srv)
    BY NewServersOK DEF Init
  <1>2. TypesOK
    BY <1>1, SupervisorAssumption
    DEF Init, TypesOK, SupervisorOK, ServersOK, Places, Rounds, Flags, Commands, History
  <1>3. RedirectorLives /\ NothingElse /\ FailsOnly
    BY DEF Init, RedirectorLives, NothingElse, FailsOnly, Lacks
  <1> QED
    BY <1>1, <1>2, <1>3 DEF IInv, ServersOK

\* Clients come and go, requests and decisions pass.
LEMMA TrafficOK ==
    ASSUME IInv, Traffic
    PROVE  IInv'
  <1>1. at = "reactor" /\ UNCHANGED <<at, flags, link, other, seen, sender, requests>>
    BY DEF Traffic, connect, leave, sendRequest, readRedirector, main, dispatcher, data
  <1>2. ServersOK(srv)
    BY DEF IInv, TypesOK, SupervisorOK, ServersOK
  <1>3. ServersOK(srv')
    <2>1. ASSUME NEW l \in Listeners, connect(l) PROVE ServersOK(srv')
      BY <1>2, <2>1, AcceptedOK, SocketsAssumption DEF connect
    <2>2. ASSUME NEW source \in Sources, leave(source) PROVE ServersOK(srv')
      BY <1>2, <2>2, NotifyCloseOK DEF leave
    <2>3. CASE sendRequest \/ readRedirector
      BY <1>2, <2>3 DEF sendRequest, readRedirector, main
    <2> QED
      BY <2>1, <2>2, <2>3 DEF Traffic
  <1>4. queue' \in Seq({"REQUEST", "STOP"}) /\ decisions' \in 0..PipeSize
    <2>1. queue \in Seq({"REQUEST", "STOP"}) /\ decisions \in 0..PipeSize
      BY DEF IInv, TypesOK, SupervisorOK
    <2>2. PipeSize \in Nat
      BY SupervisorAssumption
    <2>3. CASE sendRequest
      BY <2>1, <2>3 DEF sendRequest, data
    <2>4. CASE readRedirector
      BY <2>1, <2>2, <2>4 DEF readRedirector, dispatcher
    <2>5. CASE UNCHANGED <<queue, decisions>>
      BY <2>1, <2>5
    <2>6. sendRequest \/ readRedirector \/ UNCHANGED <<queue, decisions>>
      BY DEF Traffic, connect, leave, dispatcher, data
    <2> QED BY <2>3, <2>4, <2>5, <2>6
  <1>5. TypesOK'
    BY <1>1, <1>3, <1>4 DEF IInv, TypesOK, SupervisorOK, ServersOK, link, other
  <1>6. RedirectorLives' /\ NothingElse' /\ FailsOnly'
    BY <1>1 DEF IInv, RedirectorLives, NothingElse, FailsOnly, link, other
  <1> QED
    BY <1>3, <1>5, <1>6 DEF IInv, ServersOK

\* A step of the main thread, between two places of a round, that writes no message.
LEMMA RoundOK ==
    ASSUME IInv, at \in Rounds, at' \in Rounds,
           UNCHANGED <<dispatcher, requests, commands, other>>,
           ServersOK(srv'), flags' \in Flags,
           decisions' \in 0..PipeSize, answers' \in 0..ControlSize,
           seen' \in History, seen'.crashed = seen.crashed, seen'.unread = seen.unread
    PROVE  IInv'
  <1>1. TypesOK'
    BY DEF IInv, TypesOK, SupervisorOK, ServersOK, Places, dispatcher, other
  <1>2. RedirectorLives' /\ NothingElse' /\ FailsOnly'
    BY DEF IInv, RedirectorLives, NothingElse, FailsOnly, Rounds, other
  <1> QED
    BY <1>1, <1>2 DEF IInv, ServersOK

LEMMA LessOne ==
    ASSUME NEW max \in Nat, NEW n \in 0..max
    PROVE  n - Count(n > 0) \in 0..max
  BY DEF Count

LEMMA StopReactorOK ==
    ASSUME IInv, stopReactor
    PROVE  IInv'
  <1>1. /\ at \in Rounds /\ at' \in Rounds
        /\ UNCHANGED <<dispatcher, requests, commands, other>>
        /\ UNCHANGED <<srv, decisions, answers>>
        /\ flags' = [flags EXCEPT !.shutdown = TRUE]
        /\ seen' = [seen EXCEPT !.terminated = TRUE]
    BY DEF stopReactor, goto, Rounds, data, link
  <1>2. /\ seen' \in History /\ seen'.crashed = seen.crashed /\ seen'.unread = seen.unread
        /\ flags' \in Flags
    BY <1>1 DEF IInv, TypesOK, SupervisorOK, History, Flags
  <1> QED
    BY <1>1, <1>2, RoundOK DEF IInv, TypesOK, SupervisorOK, ServersOK

LEMMA LeaveReactorOK ==
    ASSUME IInv, leaveReactor
    PROVE  IInv'
  <1>1. /\ at \in Rounds /\ at' \in Rounds
        /\ UNCHANGED <<dispatcher, requests, commands, other>>
        /\ UNCHANGED <<srv, flags, answers, seen>>
        /\ decisions' = decisions - Count(decisions > 0)
    BY DEF leaveReactor, goto, Rounds, link
  <1>2. decisions' \in 0..PipeSize
    BY <1>1, LessOne, SupervisorAssumption DEF IInv, TypesOK, SupervisorOK
  <1> QED
    BY <1>1, <1>2, RoundOK DEF IInv, TypesOK, SupervisorOK, ServersOK

LEMMA ReadControlOK ==
    ASSUME IInv, readControl
    PROVE  IInv'
  <1>1. /\ at \in Rounds /\ at' \in Rounds
        /\ UNCHANGED <<dispatcher, requests, commands, other>>
        /\ UNCHANGED <<srv, flags, decisions, seen>>
        /\ answers' = answers - Count(answers > 0)
    BY DEF readControl, goto, Rounds, data
  <1>2. answers' \in 0..ControlSize
    BY <1>1, LessOne, SupervisorAssumption DEF IInv, TypesOK, SupervisorOK
  <1> QED
    BY <1>1, <1>2, RoundOK DEF IInv, TypesOK, SupervisorOK, ServersOK

LEMMA ListenAgainOK ==
    ASSUME IInv, listenAgain
    PROVE  IInv'
  <1>0. ServersOK(srv) /\ flags \in Flags /\ seen \in History
    BY DEF IInv, TypesOK, SupervisorOK, ServersOK
  <1>1. /\ at \in Rounds
        /\ UNCHANGED <<dispatcher, requests, commands, other>>
        /\ UNCHANGED <<decisions, answers>>
    BY DEF listenAgain, Rounds, data, link
  <1>2. "proxy" \in Sources /\ ListenersOf("proxy") \subseteq Listeners
    BY DEF Sources, ListenersOf
  <1>3. \/ /\ srv' = srv \/ srv' = rejecting(srv, "proxy")
           /\ at' \in Rounds /\ flags' = flags /\ seen' = seen
        \/ /\ \E bound \in SUBSET ListenersOf("proxy") : srv' = accepting(srv, "proxy", bound)
           /\ flags' = [flags EXCEPT !.shutdown = FALSE]
           /\ seen' = [seen EXCEPT !.lost = @ \/ flags.shutdown]
           /\ at' \in Rounds
    <2>1. flags.softstop \in BOOLEAN /\ flags.listen \in {"none", "yes", "no"}
      BY <1>0 DEF Flags
    <2>2. CASE flags.softstop
      BY <2>2 DEF listenAgain, goto, Rounds
    <2>3. CASE ~flags.softstop /\ flags.listen = "yes"
      BY <2>3 DEF listenAgain, goto, Rounds
    <2>4. CASE ~flags.softstop /\ flags.listen = "no"
      BY <2>4 DEF listenAgain, goto, Rounds
    <2>5. CASE ~flags.softstop /\ flags.listen = "none"
      BY <2>5 DEF listenAgain, goto, Rounds
    <2> QED
      BY <2>1, <2>2, <2>3, <2>4, <2>5
  <1>4. ServersOK(srv')
    BY <1>0, <1>2, <1>3, RejectingOK, AcceptingOK
  <1>5. /\ flags' \in Flags /\ seen' \in History
        /\ seen'.crashed = seen.crashed /\ seen'.unread = seen.unread
    <2>1. flags.shutdown \in BOOLEAN
      BY <1>0 DEF Flags
    <2> QED
      BY <1>0, <1>3, <2>1 DEF Flags, History
  <1> QED
    BY <1>1, <1>3, <1>4, <1>5, RoundOK DEF IInv, TypesOK, SupervisorOK

LEMMA ListenedOK ==
    ASSUME IInv, listened
    PROVE  IInv'
  <1>1. /\ at \in Rounds /\ at' \in Rounds
        /\ UNCHANGED <<dispatcher, requests, commands, other>>
        /\ UNCHANGED <<srv, decisions, answers, seen>>
        /\ flags' = [flags EXCEPT !.listen = "none"]
    BY DEF listened, goto, Rounds, data, link
  <1>2. flags' \in Flags
    BY <1>1 DEF IInv, TypesOK, SupervisorOK, Flags
  <1> QED
    BY <1>1, <1>2, RoundOK DEF IInv, TypesOK, SupervisorOK, ServersOK

LEMMA SoftstopOK ==
    ASSUME IInv, softstop
    PROVE  IInv'
  <1>1. /\ at \in Rounds /\ at' \in Rounds
        /\ UNCHANGED <<dispatcher, requests, commands, other>>
        /\ UNCHANGED <<srv, decisions, answers>>
        /\ flags' = [flags EXCEPT !.shutdown = @ \/ NoClients(srv)]
        /\ seen' = [seen EXCEPT !.terminated = @ \/ NoClients(srv)]
    BY DEF softstop, goto, Rounds, data, link
  <1>2. NoClients(srv) \in BOOLEAN
    BY DEF NoClients
  <1>3. /\ seen' \in History /\ seen'.crashed = seen.crashed /\ seen'.unread = seen.unread
        /\ flags' \in Flags
    BY <1>1, <1>2 DEF IInv, TypesOK, SupervisorOK, History, Flags
  <1> QED
    BY <1>1, <1>3, RoundOK DEF IInv, TypesOK, SupervisorOK, ServersOK

LEMMA SpawnLimitsChangedOK ==
    ASSUME IInv, spawnLimitsChanged
    PROVE  IInv'
  <1>1. /\ at \in Rounds /\ at' \in Rounds
        /\ UNCHANGED <<dispatcher, requests, commands, other>>
        /\ UNCHANGED <<srv, decisions, answers, seen>>
        /\ flags' = [flags EXCEPT !.spawn = FALSE]
    BY DEF spawnLimitsChanged, goto, Rounds, data, link
  <1>2. flags' \in Flags
    BY <1>1 DEF IInv, TypesOK, SupervisorOK, Flags
  <1> QED
    BY <1>1, <1>2, RoundOK DEF IInv, TypesOK, SupervisorOK, ServersOK

LEMMA SignalNoted ==
    ASSUME NEW s \in History, NEW t,
           \/ t = [s EXCEPT !.signals = @ + 1]
           \/ t = [s EXCEPT !.signals = @ + 1, !.terminated = TRUE]
    PROVE  t \in History /\ t.crashed = s.crashed /\ t.unread = s.unread
  <1>1. s.signals + 1 \in Nat
    BY DEF History
  <1> QED
    BY <1>1 DEF History

\* The signal handlers.
LEMMA SignalsOK ==
    ASSUME IInv, Signals
    PROVE  IInv'
  <1>0. flags \in Flags /\ seen \in History /\ ServersOK(srv)
    BY DEF IInv, TypesOK, SupervisorOK, ServersOK
  <1>1. Signal
    BY DEF Signals, sigterm, sigquit, sigtt, sigusr
  <1>2. /\ at \in Rounds /\ at' \in Rounds
        /\ UNCHANGED <<dispatcher, requests, commands, other>>
        /\ UNCHANGED <<srv, decisions, answers>>
    BY <1>1 DEF Signal, data, link
  <1>3. /\ flags' \in Flags
        /\ \/ seen' = [seen EXCEPT !.signals = @ + 1]
           \/ seen' = [seen EXCEPT !.signals = @ + 1, !.terminated = TRUE]
    <2>1. CASE shutdownFlagged
      BY <1>0, <2>1 DEF shutdownFlagged, Flags
    <2>2. CASE /\ flags' = [flags EXCEPT !.softstop = TRUE, !.listen = "no"]
               /\ seen' = [seen EXCEPT !.signals = @ + 1]
      BY <1>0, <2>2 DEF Flags
    <2>3. CASE \E listening \in {"yes", "no"} : sigtt(listening)
      BY <1>0, <2>3 DEF sigtt, Flags
    <2>4. CASE sigusr
      BY <1>0, <2>4 DEF sigusr, Flags
    <2> QED
      BY <2>1, <2>2, <2>3, <2>4 DEF Signals, sigterm, sigquit
  <1> QED
    BY <1>0, <1>2, <1>3, SignalNoted, RoundOK DEF IInv, TypesOK, SupervisorOK

\* A message that is written, or the end of the process.
LEMMA TellTypes ==
    ASSUME TypesOK, NEW command \in Commands, NEW next, tell(command, next)
    PROVE  /\ commands' \in Seq(Commands) /\ Len(commands') <= ControlSize
           /\ \/ ~Closed /\ at' = next /\ commands' = Append(commands, command)
              \/ Closed /\ at' = "failed" /\ commands' = commands
  <1>1. CASE Closed /\ at' = "failed" /\ commands' = commands
    BY <1>1 DEF TypesOK, SupervisorOK
  <1>2. CASE /\ ~Closed /\ Len(commands) < ControlSize
             /\ at' = next /\ commands' = Append(commands, command)
    <2>1. Len(commands) \in Nat /\ ControlSize \in Nat
      BY SupervisorAssumption DEF TypesOK
    <2>2. commands' \in Seq(Commands) /\ Len(commands') = Len(commands) + 1
      BY <1>2, AppendLacks DEF TypesOK
    <2> QED
      BY <1>2, <2>1, <2>2
  <1> QED
    BY <1>1, <1>2 DEF tell, goto

\* The same, in a round: the exception has a cause, and nothing tells to stop.
LEMMA TellOK ==
    ASSUME IInv, at \in Rounds, NEW command \in Commands \ {"STOP"}, NEW next \in Rounds,
           tell(command, next),
           UNCHANGED <<flags, srv, dispatcher, data, answers, other, seen>>
    PROVE  IInv'
  <1>1. /\ commands' \in Seq(Commands) /\ Len(commands') <= ControlSize
        /\ \/ ~Closed /\ at' = next /\ commands' = Append(commands, command)
           \/ Closed /\ at' = "failed" /\ commands' = commands
    BY TellTypes DEF IInv
  <1>2. TypesOK'
    BY <1>1 DEF IInv, TypesOK, SupervisorOK, Places, Ends, dispatcher, data, other
  <1>3. Lacks(commands, "STOP") => at' = "failed" \/ Lacks(commands', "STOP")
    BY <1>1, AppendLacks DEF IInv, TypesOK
  <1>4. RedirectorLives' /\ NothingElse' /\ FailsOnly'
    BY <1>1, <1>3
    DEF IInv, RedirectorLives, NothingElse, FailsOnly, Closed, Rounds, other
  <1> QED
    BY <1>2, <1>4 DEF IInv, Watches

LEMMA CheckOK ==
    ASSUME IInv, check
    PROVE  IInv'
  <1>1. /\ at = "check" /\ at \in Rounds /\ "listen" \in Rounds
        /\ UNCHANGED <<sender, data, answers, other, seen>>
    BY DEF check, Rounds
  <1>2. CASE ~flags.shutdown
    <2>1. tell("STATS", "listen") /\ UNCHANGED <<flags, srv, queue>>
      BY <1>2 DEF check
    <2> QED
      BY <1>1, <2>1, TellOK DEF Commands, dispatcher
  <1>3. CASE flags.shutdown
    <2>1. /\ flags' = [flags EXCEPT !.shutdown = FALSE]
          /\ srv' = stop(stop(srv, "web"), "proxy")
          /\ queue' = Append(queue, "STOP")
          /\ at' = "join" /\ commands' = commands
      BY <1>3 DEF check, goto
    <2>2. ServersOK(stop(srv, "web"))
      BY StopOK DEF IInv, TypesOK, SupervisorOK, ServersOK, Sources
    <2>3. ServersOK(srv')
      BY <2>1, <2>2, StopOK DEF Sources
    <2>4. flags' \in Flags /\ queue' \in Seq({"REQUEST", "STOP"})
      <3>1. flags \in Flags /\ queue \in Seq({"REQUEST", "STOP"})
        BY DEF IInv, TypesOK, SupervisorOK
      <3>2. flags' \in Flags
        BY <2>1, <3>1 DEF Flags
      <3> QED
        BY <2>1, <3>1, <3>2
    <2>5. TypesOK'
      BY <1>1, <2>1, <2>3, <2>4
      DEF IInv, TypesOK, SupervisorOK, ServersOK, Places, data, other
    <2>6. RedirectorLives' /\ NothingElse' /\ FailsOnly'
      BY <1>1, <2>1 DEF IInv, RedirectorLives, NothingElse, FailsOnly, other
    <2> QED
      BY <2>3, <2>5, <2>6 DEF IInv, ServersOK
  <1> QED
    BY <1>2, <1>3

LEMMA ChangeSpawnLimitsOK ==
    ASSUME IInv, changeSpawnLimits
    PROVE  IInv'
  <1>1. /\ at \in Rounds /\ "spawned" \in Rounds /\ "reactor" \in Rounds
        /\ UNCHANGED <<flags, srv, dispatcher, data, answers, other, seen>>
    BY DEF changeSpawnLimits, Rounds
  <1>2. CASE tell("SPAWN", "spawned")
    BY <1>1, <1>2, TellOK DEF Commands
  <1>3. CASE at' = "reactor" /\ commands' = commands
    BY <1>1, <1>3, RoundOK DEF IInv, TypesOK, SupervisorOK, ServersOK, data
  <1> QED
    BY <1>2, <1>3 DEF changeSpawnLimits, goto

\* shutdown(), until the redirector is told to stop.
LEMMA JoinDispatcherOK ==
    ASSUME IInv, joinDispatcher
    PROVE  IInv'
  <1>1. /\ at = "join" /\ at' = "stop"
        /\ UNCHANGED <<flags, srv, dispatcher, data, link, other, seen>>
    BY DEF joinDispatcher, goto
  <1>2. TypesOK'
    BY <1>1 DEF IInv, TypesOK, SupervisorOK, Places, dispatcher, data, link, other
  <1>3. RedirectorLives' /\ NothingElse' /\ FailsOnly'
    BY <1>1 DEF IInv, RedirectorLives, NothingElse, FailsOnly, link, other
  <1> QED
    BY <1>1, <1>2, <1>3 DEF IInv, Watches

LEMMA StopRedirectorOK ==
    ASSUME IInv, stopRedirector
    PROVE  IInv'
  <1> DEFINE unread == answers > 0 \/ \E i \in DOMAIN commands : commands[i] = "STATS"
  <1>1. /\ at = "stop" /\ seen' = [seen EXCEPT !.unread = unread]
        /\ UNCHANGED <<flags, srv, dispatcher, data, answers, other>>
    BY DEF stopRedirector
  <1>2. seen' \in History /\ seen'.unread = unread
    BY <1>1 DEF IInv, TypesOK, History
  <1>3. /\ commands' \in Seq(Commands) /\ Len(commands') <= ControlSize
        /\ \/ at' = "content"
           \/ at' = "wait_stop" /\ commands' = Append(commands, "STOP")
    <2>1. CASE Closed /\ goto("content") /\ UNCHANGED commands
      BY <2>1 DEF goto, IInv, TypesOK, SupervisorOK
    <2>2. CASE ~Closed /\ tell("STOP", "wait_stop")
      BY <2>2, TellTypes DEF IInv, Commands
    <2> QED
      BY <2>1, <2>2 DEF stopRedirector
  <1>4. TypesOK'
    BY <1>1, <1>2, <1>3 DEF IInv, TypesOK, SupervisorOK, Places, dispatcher, data, other
  <1>5. NothingElse'
    <2>1. at' = "wait_stop" /\ ~unread => answers = 0 /\ Lacks(commands, "STATS")
      BY DEF IInv, TypesOK, SupervisorOK, Lacks
    <2>2. at' = "wait_stop" /\ ~unread => Lacks(commands', "STATS")
      BY <1>3, <2>1, AppendLacks DEF IInv, TypesOK, Commands
    <2> QED
      BY <1>1, <1>2, <2>1, <2>2 DEF NothingElse
  <1>6. RedirectorLives' /\ FailsOnly'
    BY <1>3 DEF RedirectorLives, FailsOnly, Rounds
  <1> QED
    BY <1>1, <1>4, <1>5, <1>6 DEF IInv, Watches

LEMMA WaitStopOK ==
    ASSUME IInv, wait_stop
    PROVE  IInv'
  <1>1. /\ at = "wait_stop"
        /\ UNCHANGED <<flags, srv, dispatcher, data, commands, other, seen>>
        /\ \/ answers > 0 /\ answers' = answers - 1 /\ at' = "failed"
           \/ answers' = answers /\ at' = "content"
    BY DEF wait_stop, goto
  <1>2. answers' \in 0..ControlSize
    BY <1>1, SupervisorAssumption DEF IInv, TypesOK, SupervisorOK
  <1>3. TypesOK'
    BY <1>1, <1>2 DEF IInv, TypesOK, SupervisorOK, Places, Ends, dispatcher, data, other
  <1>4. RedirectorLives' /\ NothingElse'
    BY <1>1 DEF RedirectorLives, NothingElse, Rounds
  <1>5. FailsOnly'
    BY <1>1 DEF IInv, NothingElse, FailsOnly
  <1> QED
    BY <1>1, <1>3, <1>4, <1>5 DEF IInv, Watches

LEMMA StopContentOK ==
    ASSUME IInv, stopContent
    PROVE  IInv'
  <1>1. /\ at' = "gone"
        /\ UNCHANGED <<flags, srv, dispatcher, data, link, other, seen>>
    BY DEF stopContent, goto
  <1>2. TypesOK'
    BY <1>1 DEF IInv, TypesOK, SupervisorOK, Places, Ends, dispatcher, data, link, other
  <1> QED
    BY <1>1, <1>2 DEF IInv, Watches, RedirectorLives, NothingElse, FailsOnly, Rounds

LEMMA KillOK ==
    ASSUME IInv, kill
    PROVE  IInv'
  <1>1. /\ at' = "gone" /\ sender' = "ended" /\ queue' = <<>>
        /\ UNCHANGED <<flags, data, link, other>>
        /\ srv' = [srv EXCEPT !.client_count = [s \in Sources |-> 0], !.socks = {},
                              !.watched = {}]
        /\ seen' = [seen EXCEPT !.crashed = TRUE]
    BY DEF kill, goto
  <1>2. ServersOK(srv') /\ seen' \in History
    <2>1. srv \in ServerTable /\ seen \in History
      BY DEF IInv, TypesOK, SupervisorOK
    <2>2. PICK none : none = [s \in Sources |-> 0]
      OBVIOUS
    <2>3. none \in [Sources -> Int]
      BY <2>2
    <2>4. srv' \in ServerTable /\ srv'.socks = {} /\ srv'.watched = {}
      BY <1>1, <2>1, <2>2, <2>3 DEF ServerTable
    <2>5. seen' \in History
      BY <1>1, <2>1 DEF History
    <2> QED
      BY <2>4, <2>5 DEF ServersOK, Watches
  <1>3. TypesOK'
    BY <1>1, <1>2
    DEF IInv, TypesOK, SupervisorOK, ServersOK, Places, Ends, data, link, other
  <1> QED
    BY <1>1, <1>2, <1>3
    DEF IInv, ServersOK, RedirectorLives, NothingElse, FailsOnly, Rounds

\* The dispatcher thread.
LEMMA DispatchOK ==
    ASSUME IInv, dispatch
    PROVE  IInv'
  <1>1. /\ queue # <<>> /\ queue' = Tail(queue)
        /\ UNCHANGED <<main, decisions, link, other, seen>>
        /\ sender' \in {sender, "ended"}
        /\ \/ requests' = requests
           \/ requests < PipeSize /\ requests' = requests + 1
    BY DEF dispatch
  <1>2. queue' \in Seq({"REQUEST", "STOP"}) /\ requests' \in 0..PipeSize
    BY <1>1, SupervisorAssumption DEF IInv, TypesOK, SupervisorOK
  <1>3. TypesOK'
    BY <1>1, <1>2 DEF IInv, TypesOK, SupervisorOK, main, link, other
  <1> QED
    BY <1>1, <1>3 DEF IInv, Watches, RedirectorLives, NothingElse, FailsOnly, main, link,
                      other

\* The redirector process reads its control pipe.
LEMMA ControlOK ==
    ASSUME IInv, control
    PROVE  IInv'
  <1>0. /\ commands \in Seq(Commands) /\ Len(commands) \in Nat /\ Len(commands) <= ControlSize
        /\ answers \in 0..ControlSize /\ ControlSize \in Nat
    BY SupervisorAssumption DEF IInv, TypesOK, SupervisorOK
  <1>1. redirector = "running" /\ UNCHANGED <<main, dispatcher, data, seen>>
    BY DEF control
  <1>2. /\ commands' \in Seq(Commands) /\ Len(commands') <= ControlSize
        /\ \A m : Lacks(commands, m) => Lacks(commands', m)
    <2>1. CASE commands' = commands
      BY <1>0, <2>1
    <2>2. CASE commands # <<>> /\ commands' = Tail(commands)
      BY <1>0, <2>2, TailLacks
    <2> QED
      BY <2>1, <2>2 DEF control, link
  <1>3. /\ answers' \in 0..ControlSize /\ redirector' \in {"running", "gone"}
        /\ programs' \in BOOLEAN
    <2>1. redirector = "running" /\ programs \in BOOLEAN
      BY <1>1 DEF IInv, TypesOK, SupervisorOK
    <2>2. /\ \/ answers' = answers
             \/ answers < ControlSize /\ answers' = answers + 1
          /\ redirector' = redirector \/ redirector' = "gone"
          /\ programs' = programs \/ programs' = FALSE
      BY DEF control, link, other
    <2>3. answers' \in 0..ControlSize
      BY <1>0, <2>2
    <2> QED
      BY <2>1, <2>2, <2>3
  <1>4. TypesOK'
    BY <1>1, <1>2, <1>3 DEF IInv, TypesOK, SupervisorOK, main, dispatcher, data
  <1>5. RedirectorLives'
    <2>1. at # "gone" /\ Lacks(commands, "STOP") => redirector' = redirector
      BY <1>0, <1>1, TailLacks DEF control, other
    <2> QED
      BY <1>1, <1>2, <2>1 DEF IInv, RedirectorLives, Rounds, main
  <1>6. NothingElse'
    <2>1. Lacks(commands, "STATS") => answers' = answers
      BY <1>0, TailLacks DEF control, link
    <2> QED
      BY <1>1, <1>2, <2>1 DEF IInv, NothingElse, main
  <1> QED
    BY <1>1, <1>4, <1>5, <1>6 DEF IInv, Watches, FailsOnly, main

\* The other steps of the redirector process and of its programs.
LEMMA OthersOK ==
    ASSUME IInv, readRequest \/ sendResponse \/ hang \/ crash \/ exit
    PROVE  IInv'
  <1>1. UNCHANGED <<main, dispatcher, link>>
    BY DEF readRequest, sendResponse, hang, crash, exit
  <1>2. /\ seen' \in History /\ seen'.unread = seen.unread
        /\ seen.crashed => seen'.crashed
        /\ at # "gone" /\ redirector # "gone" => redirector' # "gone" \/ seen'.crashed
    <2>1. seen \in History
      BY DEF IInv, TypesOK
    <2>2. \/ /\ seen' = seen
             /\ at # "gone" /\ redirector # "gone" => redirector' # "gone"
          \/ seen' = [seen EXCEPT !.crashed = TRUE]
      BY DEF readRequest, sendResponse, hang, crash, exit, becomes
    <2> QED
      BY <2>1, <2>2 DEF History
  <1>3. /\ requests' \in 0..PipeSize /\ decisions' \in 0..PipeSize
        /\ redirector' \in {"running", "put", "hung", "gone"} /\ programs' \in BOOLEAN
    <2>1. /\ requests \in 0..PipeSize /\ decisions \in 0..PipeSize
          /\ redirector \in {"running", "put", "hung", "gone"} /\ programs \in BOOLEAN
      BY DEF IInv, TypesOK, SupervisorOK
    <2>2. /\ \/ requests' = requests
             \/ requests > 0 /\ requests' = requests - 1
          /\ \/ decisions' = decisions
             \/ decisions < PipeSize /\ decisions' = decisions + 1
          /\ redirector' \in {redirector, "running", "put", "hung", "gone"}
          /\ programs' = programs \/ programs' = FALSE
      BY DEF readRequest, sendResponse, hang, crash, exit, becomes, data
    <2>3. requests' \in 0..PipeSize /\ decisions' \in 0..PipeSize
      BY <2>1, <2>2, SupervisorAssumption
    <2> QED
      BY <2>1, <2>2, <2>3
  <1>4. TypesOK'
    BY <1>1, <1>2, <1>3 DEF IInv, TypesOK, SupervisorOK, main, dispatcher, link
  <1>5. RedirectorLives' /\ NothingElse' /\ FailsOnly'
    BY <1>1, <1>2
    DEF IInv, RedirectorLives, NothingElse, FailsOnly, Rounds, main, link
  <1> QED
    BY <1>1, <1>4, <1>5 DEF IInv, Watches, main
-----------------------------------------------------------------------------
LEMMA NextOK == IInv /\ [Next]_vars => IInv'
  <1> SUFFICES ASSUME IInv, [Next]_vars PROVE IInv'
    OBVIOUS
  <1>1. CASE UNCHANGED vars
    BY <1>1 DEF vars, main, dispatcher, data, link, other, IInv, TypesOK, SupervisorOK,
                Watches, RedirectorLives, NothingElse, FailsOnly
  <1>2. CASE Main
    BY <1>2, StopReactorOK, LeaveReactorOK, ReadControlOK, CheckOK, ListenAgainOK,
       ListenedOK, SoftstopOK, ChangeSpawnLimitsOK, SpawnLimitsChangedOK,
       JoinDispatcherOK, StopRedirectorOK, WaitStopOK, StopContentOK DEF Main
  <1>3. CASE Signals \/ Traffic \/ dispatch \/ kill
    BY <1>3, SignalsOK, TrafficOK, DispatchOK, KillOK
  <1>4. CASE Redirector \/ hang \/ crash \/ exit
    BY <1>4, ControlOK, OthersOK DEF Redirector
  <1> QED
    BY <1>1, <1>2, <1>3, <1>4 DEF Next, Faults

LEMMA InvariantOK == Spec => []IInv
  <1> QED
    BY InitOK, NextOK, PTL DEF Spec

\* The main thread, the dispatcher, the servers and the pipes keep their types, and no
\* pipe holds more than it can, whatever the signals, rounds and failures.
THEOREM SupervisorTypes == Spec => []SupervisorOK
  <1>1. IInv => SupervisorOK
    BY DEF IInv, TypesOK
  <1> QED
    BY <1>1, InvariantOK, PTL

\* The proxy ends with an exception nobody handles only after a process died on its own,
\* or with statistics that the redirector had not answered when it was told to stop:
\* never because of the order of the other messages, the rounds and the signals
\* (supervisor.py:253-301, util/control.py:24-43).
THEOREM FailsForAReason == Spec => []FailsOnly
  <1>1. IInv => FailsOnly
    BY DEF IInv
  <1> QED
    BY <1>1, InvariantOK, PTL

\* Whatever signals ask to listen or not, and however many clients come and go, a
\* socket is watched exactly when it is bound and its server has room
\* (network/server.py:38-116, supervisor.py:311-327).
THEOREM SocketsWatched == Spec => []ListeningAgrees
  <1>1. IInv => ListeningAgrees
    BY DEF IInv, Watches, ListeningAgrees
  <1> QED
    BY <1>1, InvariantOK, PTL
=============================================================================

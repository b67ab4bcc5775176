# ExaProxy in TLA+

ExaProxy is a non-caching HTTP, HTTPS, TLS and ICAP proxy written in Python 2.
This directory holds models of its core, the TLC configurations that check
them, and proofs that TLAPS checks. Paths below are relative to
`src/lib/exaproxy/` unless they start otherwise.

1. [The system](#the-system)
2. [The modules](#the-modules)
3. [The runs](#the-runs)
4. [Fairness](#fairness)
5. [The proofs](#the-proofs)
6. [Where the code and its comments disagree](#where-the-code-and-its-comments-disagree)
7. [What is not modelled](#what-is-not-modelled)
8. [The plan](#the-plan)

## The system

Two processes.  The **proxy process** is a single-threaded event loop.  The
**redirector process** decides what is done with each request, by asking a pool
of child programs.  Pipes connect them: requests and decisions on one pair
(a dispatcher thread writes the requests), control commands on another.

```
            accept                 request                  decision
 clients ----------> Servers        ------> dispatcher ====> redirector process
    |                   |           |        thread          |  loop, supervisor
    |  read/write   ClientManager --+                        |  WorkerPool -- children
    +-------------->    |    ^   enactDecisions <============+
                        |    |          |
                  relay |    | relay    v
                        v    |       Resolver (UDP, TCP DNS)
                   ContentManager <-----+
                        |
                   remote servers
```

| Component | State it keeps | Operations | Talks to |
|---|---|---|---|
| Main loop, `reactor/reactor.py` | none of its own; the batch `poll()` returned | one handler per event name; `enactDecisions` | calls every manager below, in a fixed order inside a handler |
| Servers, `network/server.py` | `client_count`, `serving`, the listening sockets | `accept`, `notifyClose`, `rejecting`, `accepting`, `stop` | poller |
| Clients, `reactor/client/manager.py` and `http.py`, `icap.py`, `tls.py`, `passthrough.py` | `norequest`, `bysock`, `byname`, `buffered`; per client a reading and a writing coroutine, two buffers | `*Connection`, `readRequest`, `readData`, `sendData`, `startData`, `cleanup`, `corkUpload`, `uncorkUpload`, `expire` | poller, sockets |
| Downloads, `reactor/content/manager.py`, `worker.py` | `opening`, `established`, `byclientid`, `buffered`, `retry`; per download a buffer | `getContent`, `startDownload`, `readData`, `sendClientData`, `sendSocketData`, `endClientDownload`, `cork/uncorkClientDownload` | poller, sockets, files |
| Poller, `network/async/` | per event the sockets, the corked ones, the poll object | `add/remove/cork/uncork` for reading and writing, `clear`, `poll` | the kernel |
| Resolver, `reactor/resolver/` | `resolving`, `clients`, `active`, `workers`, `worker_count`, caches | `beginQuery`, `startResolving`, `getResponse`, `sendQuery`, `cleanup` | DNS servers |
| Redirector pool, `reactor/redirector/manager.py`, `worker.py`, `icap.py` | `worker`, `processes`, `available`, `active`, `stopping`, `queue`, `low`, `high` | `request`, `getDecision`, `doqueue`, `provision`, `deprovision`, `respawn`, `increase`, `decrease`, `reap`; in a worker `decide`, `progress` | children |
| Redirector loop and supervisor, `reactor/redirector/reactor.py`, `supervisor.py` | `running`, `_respawn`, two counters | `run`, `control`, the alarm | pool, pipes |
| Dispatcher, `reactor/redirector/dispatch.py`, `messagebox.py`, `util/messagebox.py`, `util/messagequeue.py` | a queue, two pipes, partial reads | `sendRequest`, `getDecision`, `stop` | both processes |
| Proxy supervisor, `supervisor.py` | flags set by signals | a round: statistics, listening, soft stop, spawn limits, expiry, timeouts; shutdown | everything |
| Control and alarm, `util/control.py`, `util/alarm.py` | identifiers of commands; the alarm's queue and thread | `send`, `receive`, `respond`, `wait_stop`; `setAlarm`, `acknowledgeAlarm`, `stop` | both processes |
| Timed cache, `util/cache.py` | a queue of pairs of key and time | add, `pop`, `expired` | client manager |
| Parsers and codecs, `http/`, `icap/`, `tls/`, `dns/` | none | pure functions | |

What is hard in it:

* **A batch outlives its events.**  `poll()` returns a list of sockets per event
  name; a handler may close, cork or answer a socket that a later handler of the
  same batch still gets.
* **Three tables per connection.**  A client is in a server's count, in the client
  manager and perhaps in the download manager.  Four handlers may lose it, and each
  calls the managers in an order of its own.
* **Backpressure in both directions**, by corking: one flag per socket serves
  several reasons (a request awaits its decision, the server is slow, the
  client is slow), and is lifted by whoever comes first.
* **Answers come late.**  The redirector and the resolver answer by client name, in
  any order, for clients that may have left, with a second request under way.
* **Children die at any moment**: idle, with a request, with an answer that nobody
  has read, or while being stopped.
* **Shutdown** is a conversation between threads and two processes over pipes of
  limited size, interrupted by signals at any step.
* **Descriptors and identifiers are reused**, by the kernel, by DNS workers and by the
  resolver's tables, while something may still refer to their last owner.
* **Text comes in pieces**, over the pipes and from the clients.

What makes each component correct, in one line each: a server's count is the
number of its clients and its listeners are watched exactly while there is room;
the poller watches a client or a download exactly for what its tables say; what
is buffered is watched until it is sent, and what is corked is waited for by
somebody; a download belongs to a live client and to one only; a request gets
one answer; a pool's worker is available or busy, and a request is never lost
with its worker.

## The modules

The proxy's loop:

| Module | Models |
|---|---|
| `Sockets` | the constants: sockets, their kinds, servers, limits |
| `Poller` | one event of a poller, as a value |
| `Server` | `network/server.py`, as a value |
| `ClientManager` | the client manager and the coroutines of the four protocols, as a value |
| `ContentManager` | the download manager and `Content`, as a value |
| `Reactor` | the state machine: one action per handler, the redirector and the resolver as counters of open questions |
| `ReactorProperties`, `MCReactor` | the properties of the above; values of the constants for TLC |
| `ClientManagerProofs`, `ContentManagerProofs`, `ReactorProofs` | the proofs |
| `ResolverManager` | the resolver's tables, its UDP and TCP workers, as a value |
| `Resolver`, `ResolverProperties`, `MCResolver` | the handlers of the reactor that use it, and a network that loses, delays and repeats |
| `ResolverProofs` | the proofs about the resolver |

The redirector:

| Module | Models |
|---|---|
| `Questions` | abstract specification: every question asked for a client is answered once, in any order |
| `WorkerPool` | the workers of the redirector, as a value |
| `RedirectorProcess` | the state machine: loop and supervisor, pipes, children |
| `RedirectorProperties`, `MCRedirector` | its properties, among them that it implements `Questions`; symmetry for TLC |
| `RedirectorProofs`, `RedirectorRefinement` | the proofs that the tables of the pool agree, that the process implements `Questions`, and that the pool keeps to its maximum but for one |
| `Decision` | what one worker makes of a request, with a program that is given URLs or one that speaks ICAP |

Both processes, and the parts under them:

| Module | Models |
|---|---|
| `Supervisor`, `SupervisorProperties`, `MCSupervisor` | the rounds and signals of the proxy, the dispatcher thread, the control, and the redirector process from outside |
| `SupervisorProofs` | the proofs about them |
| `Alarm` | the thread that ends the rounds, and the main thread as far as it speaks to it |
| `MessageBox` | messages over a pipe that is read in parts and may end, with signals that interrupt the calls |
| `IdleClients` | the timed cache, as the client manager uses it |
| `Polling` | abstract specification: what a poll reports |
| `EpollPoller`, `KQueuePoller`, `SelectPoller` | the three pollers, with their kernels, and the refinement of `Polling` |
| `HttpMessages`, `HttpReader` | what an HTTP client sends; the coroutine that reads it, character by character |
| `MCParts` | instances of those of the above that are checked alone |
| `PartsProofs` | the proofs about them: decisions, pollers, caches, messages over pipes, the HTTP coroutine |

**Managers are values.**  No manager runs by itself: its methods are called from a
handler, several in one handler, each seeing what the one before left.  So the
tables of a manager are one record (`cm`, `dm`, `srv`, `rs`, `pool`), a method is an
operator from a record to a record and a result, and a handler is an action that
composes operators in the order of the calls in the code.  An operator bears the
name of its method.

**Data.**  In the reactor a buffer is empty or not (a member of `w_buffer`), a message is
nothing, `send()` takes all, some, or fails.  The coroutines of the client protocols are
reduced to their modes: a reader has just returned a request, looks for one,
relays a body, relays everything, or refuses; a writer is new, open, finished
(told that nothing more comes) or over.  What `reactor/client/manager.py` keeps
in the *list* `buffered` is a count of occurrences, since the code appends and
removes without looking in one place.

`HttpReader` opens up the HTTP modes, over the characters that `http.py` tells from one
another, in any pieces: carriage return `r`, line feed `n`, a quote that is not escaped `q`
(`count_quotes`), the semicolon and the digits of a chunk size; `h` and `x` stand for all
others.  `MaxBuffer` is `max_buffer`, the longest text in which the end of a header is
looked for; digits are four instead of sixteen, and `MaxChunk`, 2, stands for the limit of
0x100000 of a chunk.  A message is the lines of a header, one of the two ends it may
have (`CRLF`, `LF`), and a body; `Header` puts the lines and the end together.

**Signals and pipes.**  In `MessageBox` a call may be interrupted (bound
`MaxInterrupts`): a write then fails whatever the pipe has taken, and `put()` writes the
whole message again (`interruptWrite`); a read returns what it has, and fails if it has
nothing (`interruptRead`): it is then tried again in the length of a message, while in its text
`get()` begins a new one.  `broken` is a history: `"write"` once a message was repeated
after a part of it, `"read"` once a text was given up.  What comes of a text that nobody wrote
is up to `pickle`: nothing, or an exception that is not handled (`"failed"`).

**The reactor's batch** is a set of at most `MaxBatch` events, taken in any order:
the code walks a dictionary of lists, whose order it does not choose.

**Clients.**  What a client sends is limited by `Requests[c]`: one request per
connection (`one`), a further one when the answer before is sent out (`answered`), or
whenever the proxy reads the socket (`pipelined`).  `MaxServers` says how many of the
servers have clients at a time.  The names of clients and downloads may be used again
once nothing refers to them.

**The resolver** keeps a list of lookups in the order of time; a timeout is one of the
first entry, at any moment.  Queries are a set of messages from which any may be
answered, rightly or with another name's answer, more than once or never.
`tcpTimedOut` is a history variable: what happens after a lookup timed out while a
TCP worker had it is the subject of a section below.

**The redirector process** is sequential: `at` is its program counter, and
pipes and children move between its steps.  A child is absent, idle, busy,
has answered, has closed its output without having exited, or is dead.  The two
directions of the pipe are sequences of client names.

**The supervisor** is a program counter too: a signal handler runs between any two of
its steps, messages are counted, pipes hold `PipeSize` and `ControlSize` messages, and an
end of a pipe is seen when the other process *and* the programs of its workers, which
inherit the descriptors, are gone.

**A decision** is a command; `Decision` has one worker in the hands of the manager: it
is asked about any request a client can send, its program may go at any moment, and what
the program says, including a changed message, is any member of `URLAnswers` or
`ICAPAnswers`.  What matters of a message is how much of it could be parsed and its
kind of method.

**Checked alone.**  `MCParts` has the variables of nine parts and one, `part`, chosen
at the beginning, that says which of them moves.  The parts that have fairness begin,
when they are not chosen, in a state where they have come to an end.  There is no
interaction between the parts of this module: where two components share something the
composition is a module of its own (`Reactor`, `Resolver`, `RedirectorProcess`,
`Supervisor`).

**Wrong variants.**  An operator whose name has an underscore and a capital in it
(`removeOnce_Unguarded`, `release_KeepsStopping`) is the wrong form of the operator
it precedes.  No specification uses it: it documents a mistake that one of the
properties would catch.

## The runs

| Run | Instance | Shows | States |
|---|---|---|---|
| `MCReused` | seven clients of the five servers with one slot each, two icap clients on two listeners, all commands, batches of two | `OutputIsWatched`, `NoIdleWatch`, `NoStuckClient`, `NoDataAfterEnd`, `SlotAccounting`, `AtMostMaxClients`, `NoStuckFirstDownload`, `BackPressure`, `AskedOnce` | 46k |
| `MCPipelined` | one proxy client that never waits, up to two open questions, two occurrences in `buffered` | `TypeOK`, `ClientTables`, `DownloadTables`, `NoOrphanDownload`, `StartedWriter`, `OutputIsListed` | 27k |
| `MCRedirector` | three clients, up to three workers, minimum and maximum 1, one control command | `PoolTables`, `AlmostMaximum`, the refinement `AnsweredOnce` | 383k |
| `MCResolver` | two clients, a name, an alias and one that is refused; one TCP worker at a time, two retries | `ResolverOK`, `WorkersCounted`, `NobodyForgotten`, `LineMoves`, `AtMostOneResponse`, `KeepsRunning` | 429k |
| `MCShutdown` | one server with one listener, two signals, two requests, one message to a pipe and two to a control pipe | `SupervisorOK`, `FailsOnly`, `ListeningAgrees`, `ProxyEnds`, `RedirectorFollows`, `SoftStopEnds` | 226k |
| `MCParts` | two sockets and two descriptors for the pollers; three idle clients; two messages of four texts and one interrupted call; nine scripts of an HTTP client; all requests and answers for a worker; a pool of one worker and two clients | `PollersPoll`, `PollersReady`, `ExpiredInTurn`, `MessagesWhole`, `MessagesArrive`, `AlarmServes`, `ReadAsSent`, `TransfersGoThrough`, `DecisionsFit`, `EveryoneAnswered` | 104k |
| `MCTwoRequests`, `MCReusedCork`, `MCPartialRequest`, `MCConnectReused`, `MCPoolMaximum`, `MCChunked` | the smallest instance that shows it | a disagreement each, see below | |

`ProxyEnds` is two formulas: a shutdown that was asked for ends the process
(`ShutdownEnds`), and so does the end of the redirector (`ProxyFollows`).  The process has
ended at `gone`; at `failed`, where the main thread died of an exception, the alarm
thread keeps it, which is no end.  The excuses have names: `Jammed`, `Hung`, a request that
was overwritten (`seen.lost`) and `Failed`, a main thread that died of an answer to `STATS`
on the way or of writing to a redirector that is gone; `ProxyFollows` is excused by the last
only, which it needs: see *Signals and shutdown* below.  `SoftStopEnds` has the excuses of
`ShutdownEnds`.  The properties of `MCParts`
gather, under one name each, what the modules of the parts define.

**Bounds, and why they are enough to be interesting.**  Handlers touch one client and
one download at a time, and a batch of two events is what it takes for one handler
to spoil the next.  Two downloads and two hosts let a client change servers
while the first connection is opening or in use.  A second client is needed only
for what clients share: slots, and the pool.  `MaxServers` is 1: the clients of
different servers meet nowhere but in the tables, which the proofs treat for any
number.  `MaxPending` bounds the open questions of a client (two are needed to have an
answer in between); `MaxCopies` the occurrences in `buffered`; `MaxControls` the control
commands.  The pool has three names for workers: with minimum and maximum 1 the pool
reaches its excess of one and still has a worker that is stopping; when all names are used
the model cannot spawn, which cuts behaviours off but adds none.  Three
clients are needed for a backlog of two behind a busy worker.
`IncreaseFrequency` and `DecreaseFrequency` (5 and 60 in the code, in seconds) are 1
and 2: what matters is that they fall together and apart.

For the resolver, two clients meet in the TCP workers, of which there is one place
(`MaxWorkers` counts the UDP worker); a second name for a TCP worker lets one close while
another opens.  `MaxChain` is 1 (10 in the code): an alias is followed and one is not.
`LastId` is 3 (65534), with identifiers never in use twice at a time for UDP, which is the
model's reading of a space that large.  Each client looks up once: a second lookup of a
client while the first is open is excluded (see below).

For the shutdown, a pipe of one message and two requests are enough for both processes to
be blocked in a write; two signals for every pair of handlers, at any two places.

For the parts: two sockets and two descriptors let a descriptor change hands; lengths of
messages have one, two and three digits, in binary; one interrupted call meets every place of
the reader and of the writer.  The HTTP scripts have headers with either end, with quotes, with a
quote that is left open and with more characters than `MaxBuffer`; bodies with and without a
length, that look like the end of a header; two requests; chunks with a trailer, with an
extension, with a size past the limit and with a line that is too long; and a tunnel.

**Deadlock** is checked except where the system or its bounds stop:
`MCPipelined` (a client that has used up `MaxCopies` or its questions), the redirector's
runs (the process may hang, see below, with every client waiting), `MCResolver` (all
lookups done), `MCShutdown` (both processes have ended) and `MCParts` (everything was sent).

**Properties that hold only for well-behaved clients.**  With pipelined requests
`OutputIsWatched`, `NoIdleWatch` and `OneRequestAtATime`, and with a second answer on a connection
`BackPressure` and `NoStuckDownload`, do not hold: this is the subject of `MCTwoRequests`
and `MCReusedCork`.  `MCReused` shows the first two for clients that wait for their answer, and
the last two for the first answer on a connection (`NoStuckFirstDownload`).

## Fairness

The reactor's and the resolver's properties are safety properties; those that say that
nobody is forgotten (`NoStuckClient`, `OutputIsWatched`, `NobodyForgotten`, `LineMoves`) say
*who* will come back, and need no fairness.

`EveryoneAnswered` is checked under the fairness of `RedirectorProcess`:

* `WF(Loop)`: the process is scheduled, and its steps do not block;
* `SF(poll)`: whenever the loop comes round with something readable, it is read
  sooner or later; the alarm that ends a round is periodic (one second) and
  `run()` polls at least once a round;
* `SF(supervise)`: the alarm goes off again and again;
* `WF(Receive)`: the proxy reads the pipe;
* for each worker, `WF` of answering or exiting once it has a request or has closed
  its output: the program is somebody else's, but one that keeps a request for ever
  is outside what the proxy can mend (there is no timeout on a worker).  A child may
  always die; nothing says that it must not die each time.

The conclusion excepts the place `hung`, which the code reaches (below).

`Supervisor`: weak fairness of the main thread, of the dispatcher thread and of the
redirector process, that is, of scheduling, and of a program that reads the end of its
input.  Nothing says that clients leave, that signals come, or that faults do.
`ShutdownEnds` and `SoftStopEnds` except what the code does not mend: the two processes
blocked in a write to each other, a redirector that waits for ever for a program, a request
to stop that was overwritten, and a main thread that failed (`Excused`).

`Alarm`: weak fairness of both threads; the reactor need not end for any reason but the
alarm.  `MessageBox`: weak fairness of the reader, and of the rest of a write that has
begun; new messages need not come, and calls need not be interrupted.

## The proofs

`ReactorProofs` proves, for every choice of the constants that satisfies
`SocketsAssumption` (any sets of clients, listeners, downloads, hosts, any
limits, any commands and bounds), `ReactorAssumption` (a process has finitely many clients
and listeners) and `RequestsAssumption` (each client uses its connection in one of the three
ways of `Requests`):

| Theorem | Property |
|---|---|
| `TypeCorrect` | `TypeOK` |
| `ClientTablesAgree` | `ClientTables` |
| `DownloadTablesAgree` | `DownloadTables` |
| `NoDownloadIsOrphaned` | `NoOrphanDownload` |
| `OutputAlwaysListed` | `OutputIsListed` |
| `NeverAskedTwice` | `AskedOnce` |

None of the six is inductive alone.  `TypeOK` needs that `startData` removes a client
from `buffered` only when it is there (a natural number would become negative), which is
`OutputIsListed`; that needs to know which clients an answer may still reach,
which is `AskedOnce`: for a tls or passthrough client output may
be missing from the list, but then nothing is outstanding.  `NoOrphanDownload` needs
`DownloadTables` (the download of a client that is closed is found through
`byclient`) and `ClientTables` (a client that gets a download is in `bysock`).  The
inductive invariant `IInv` is the six together, stated over values
(`Agree(t, u, s, n, r)`), so that a lemma may speak of the tables between two calls of
one handler; `LoopOK` is the part of the types that only the loop touches.

The argument has three layers:

1. `ClientManagerProofs` and `ContentManagerProofs`: each operator takes tables that
   agree (`ClientsOK`, `DownloadsOK`) to tables that agree, and says what it leaves alone
   (`OnlyFor`: other clients; `SameClients`, `SameDownloads`);
2. in `ReactorProofs`, one lemma per handler, and `EnactOK` for one iteration of
   `enactDecisions`, shared by the four ways an answer arrives;
3. `NextAgrees`, `NextLoopOK`, and the theorems, by PTL.

Three further theorems of `ReactorProofs`:

| Theorem | Property | What it took |
|---|---|---|
| `SlotsAccounted` | `SlotAccounting` | that `Clients` is finite; a server's count is the number of its clients in the tables of `ClientManager`, whichever handler gave the slot back |
| `MaxClientsKept` | `AtMostMaxClients`: the limit of a server plus one for each of its listeners but the first | the same invariant, with the listeners that are watched |
| `WritersStarted` | `StartedWriter` | that a writing coroutine is `new` only until the first request is answered |

`SlotInv`, the invariant behind them, has five parts.  `Slots`: a server's count is the
number of its live clients, and a listening socket is watched exactly when its server has
a free slot.  `Within`: a server's count and the `accept()`s its listening sockets still
wait for in the current batch stay within the limit, plus one for each further listening
socket.  `Notified`: whoever owns a download is a client of a server that is told of its
end.  `Started` and `BatchStarted`: a client with a download, or that is polled for
writing, has had its writing coroutine started, and so has a client that this batch
reports as writable and that is still there.

Six more say how a client and its server hold each other back, and when a client's output is
watched:

| Theorem | Property | What it took |
|---|---|---|
| `SilentAfterEnd` | `NoDataAfterEnd` | whoever has a download has an open writer, and whoever is not in `bysock` a new one |
| `ClientsAreWaitedFor` | `NoStuckClient` | which of its reasons remains when a cork with several reasons is lifted by one of them |
| `FirstDownloadsGoOn`, `ServersHeldBack` | `NoStuckFirstDownload`, `BackPressure` | the two directions of one equivalence: the server is corked exactly while its client has something left |
| `OutputWatched` | `OutputIsWatched` | for a client that waits for its answers, what the list `buffered`, the write interest and the output say of each other |
| `NobodySpins` | `NoIdleWatch` | the same, and that a tls or passthrough client gets one answer |

Their invariant is `RelayInv`, one formula per client, `RelayOK(t, u, n, b, c)`, over the two
tables, the number `n` of its open questions and the batch `b`:

* `Waits`: why a client is corked, who may write to it, and that a client that is gone leaves
  no writer behind (its name may be used again);
* `First`, for the clients that get one answer on their connection: the list `buffered`, the
  write interest, what is left to send and the cork of the download move in step
  (`InStep`); before the answer none of them is set (`Untouched`), and there is one question at
  most.  Without the last, a second answer would find output of the first, which is what
  `MCReusedCork` shows;
* `Unread`: a download that this batch reports as readable is not opening, and not
  corked if its client gets one answer.  A handler of the batch may cork a download that
  another one is about to read; this says that it does so only for the clients excepted here;
* `Output`, for the clients that wait for their answers (`Waiting`): the write interest and
  the list agree with what is left (`OutputKept`), and if something is left while a question is
  open, it came from a server that has been corked since, and that is not in the batch.

`NobodySpins` has a hypothesis on the constants, which `MCReused` satisfies: an http or icap
client waits for its answers.  Without it TLC finds a client that is watched with
nothing left: told that nothing more comes, and still read, it had asked again, and the next
answer gave it a new writer.

None of the properties is inductive alone: `NoStuckClient` needs `Waits`, since a client may
lose its reason in the handler of its server; `BackPressure` needs `Unread`, since data
read from a corked server would be added to what the client has not taken; `OutputIsWatched` needs
that a second answer finds nothing left of the first but what its server is corked for.  The lemmas that
`*Says` in their names describe each operator of the two managers for one client, and say that it
spares the others (`Spares`, `SparesDownloads`); `RelayStep` lifts that to all clients.
`EnactRelay` is the case of an answer, which lifts the cork of a request and
starts a download that may be the one the client already had (`Connected`).

`RedirectorProofs` proves `PoolTablesAgree` (`PoolTables`) for every choice of the
constants that satisfies `PoolAssumption`: the limits are natural numbers, and `NoJob` is
not a request.  There is one lemma per operation of `WorkerPool`.  Between `progress()` and
`release()` a worker is neither available nor busy: `Between(p, w)` says what
holds then, and is what `release` and `reap` need.  The only strengthening is
`PipeOK`: what is in the pipe is a request, and the loop reads one only if there is one.

`RedirectorRefinement` goes on from there:

| Theorem | Property | What it took |
|---|---|---|
| `EveryAnswerOnce` | `AnsweredOnce`, that is `Questions!Spec` under the refinement mapping | the questions of a client that are in the pipe, in the queue, with a worker and being retried, counted together: initial states map to initial states and every step to a step or a stutter |
| `MaximumExceededByOne` | `AlmostMaximum` | `Low <= High`, and that `Workers` is finite |

The hypothesis `Low <= High` is needed: nothing in the configuration prevents a minimum above
the maximum (the defaults are 5 and 25, `application.py:139`), and the pool then has as many
workers as its minimum says.

`SupervisorProofs` proves, under `SupervisorAssumption`:

| Theorem | Property | What it took |
|---|---|---|
| `SupervisorTypes` | `SupervisorOK` | the bounds of the pipes, message by message |
| `FailsForAReason` | `FailsOnly` | where an answer to `STATS` can be, for every place of the main thread: in a pipe, in the dispatcher's hands, or lost with a process |
| `SocketsWatched` | `ListeningAgrees` | that the handlers of the signals which come between two steps of a round set flags and nothing else |

`ResolverProofs` proves, under `ResolverAssumption`, `NoneAssumption` and `AliasesAssumption`
(any number of clients, names, workers, identifiers, retries and lookups of each client):

| Theorem | Property | Holds |
|---|---|---|
| `ResolverTypes` | `ResolverOK` | always |
| `PlacesCounted` | `WorkersCounted` | always |
| `NobodyIsForgotten` | `NobodyForgotten` | until a lookup times out while a TCP worker has it |
| `OneResponse` | `AtMostOneResponse` | until then |
| `ProcessRuns` | `KeepsRunning` | until then |
| `TheLineMoves` | `LineMoves` | until then, if `MaxWorkers > 1` |

The last four come from one inductive invariant, `Sound`.  Its part `Kept(r, a, g, H, E)`
relates the six tables of the resolver (`r`), the lookups that clients have started (`a`) and
the responses they were given (`g`):

* `Filing` and `Tracking`: `resolving` and `clients` are inverse to one another, and every
  lookup in them is the last one of its client, unanswered and in the list of timeouts;
* `Lining`: a lookup in the line for a TCP worker is unanswered, is nowhere else, and is there
  once;
* `Answering`: lookups before the last have one response, and the last one has one or is in a
  table;
* `Timing`: a client has one *current* entry in the list of timeouts (the one that
  `list.remove` finds by its time), and an entry under the socket of a TCP worker is current;
* `Writing` and `Busy`: what a TCP worker has still to send is the lookup that it has, and
  every TCP worker has exactly one.

The operations of the manager call one another with a lookup in hand, out of the tables.  `H` is
the set of clients whose lookup is in hand, and `E` the workers that have just lost theirs:
`forget` goes from `{}, {}` to `{c}, {w}`; `track`, `beginResolvingTCP` and a response go back.
Each operator of `ResolverManager` has one lemma of this form (`ForgetKept`, `TrackKept`,
`WaitKept`, `NextInLine`, `NewWorkerKept`, `FinishKept`, `RespondedKept`...), the two handlers
`getResponse` and `cleanup` are compositions of them, and `KeptStep` has one case per action.

That everything but `ResolverOK` and `WorkersCounted` stops at the first timeout of a TCP
lookup is not weakness of the proof: TLC finds counterexamples to each without the hypothesis,
see *Resolver* below.  The hypothesis of `TheLineMoves` is that there are TCP workers:
`MaxWorkers` counts the UDP worker too, and is ten times the number of retries
(`supervisor.py:104`); a configuration of no retries has no place for TCP, and a lookup
whose answer was truncated waits for ever.

`PartsProofs` proves, under `PartsAssumption`, the safety properties of the parts that are
checked alone.  The assumption says of the constants: the events for reading and for writing
are different, and the values that stand for no socket, no descriptor and no event are none; a
cache has a timeout (without one it keeps no queue) and takes one client at least in a round;
texts are sequences of characters; and a client sends a sequence of messages, whose headers and
bodies are any sequences of characters, with one of the two ends.

| Theorem | Property | What it took |
|---|---|---|
| `DecisionsAlwaysFit` | `DecisionsFit` | what a worker may be asked (`Askable`), and that everything that `decide` and `progress` can make of a message suits the request (`Suits`) |
| `PollersImplementPolling` | `PollersPoll`, that is `Polling` under three refinement mappings | for each poller, how its descriptors, registrations or lists stand for the sockets of `Polling`: initial states map to initial states, every call to a step or a stutter |
| `PollersAlwaysReady` | `PollersReady`, where a socket is unsubscribed before it is closed (`close`) | the same invariants |
| `AlwaysExpiredInTurn` | `ExpiredInTurn` | that the queue has each client once, in the order they came, and whoever is still to be expired is in it |
| `MessagesAlwaysWhole` | `MessagesWhole`: until a write is interrupted after a part of a message or a read in a text, whatever else is interrupted | where in which message the reader is |
| `TransfersAlwaysGoThrough` | `TransfersGoThrough`: for messages whose bodies have a length and whose headers are `Plain` | where in the text the reader and the client are |
| `TransfersReadAsSent` | `ReadAsSent`, for the same messages (`AllOfLength`) | the same, with a label for each character |

Each part has an invariant of its own, which the steps of the others leave alone:

* `WorkerInv`: a worker that is `asked` has a request that a program can be asked about, it is in
  step with its program, and every answer on its way fits (`InStep`, `AnswersFit`).  `URLSuits` and
  `ICAPSuits` go through what the two kinds of programs may say.
* `EpollInv`: the kernel waits for the descriptors of exactly the sockets that are watched and not
  corked (`Registered`); such a socket is open, and the descriptor of a watched
  socket leads back to it through `fdtosock` (`Related`).  `KQueueInv` says the same of filters, and
  that `fdtosock` has no entries but those of the watched sockets (`Matched`), which is what
  makes the assertions of `kqueue.py` hold.  `SelectInv`: a corked socket is in no list, and
  the list of all sockets is out of date only while an event is marked as modified, which no
  wait leaves.
* `IdleInv`: the queue has every client once, in the order they came (`Queue`), the one that a round
  kept aside is older than the queue (`Aside`), and whoever is still to be expired is in one of the two
  (`NobodyOverlooked`).  Without the order, that nobody is expired before one that came
  earlier is not inductive: a round stops at the first client that is not due.
* `BoxInv`: what is in the writer's hands and in the pipe is, from the place `k` on, the end of
  one message and the messages after it (`Held`), and what the reader has, digits or body, is
  the beginning of that message up to `k` (`Reading`).  That the length is read as it was written
  is `DigitsDefined` and `NumberDefined`.  It holds while `broken` is empty: a write that is
  interrupted before the pipe took anything leaves what is to be written as it was, and a read
  that is interrupted leaves the reader where it was, or with a part of what it asked for.
* `HttpInv`: there is one text `w` with the ends `b` of its messages (`Frame`, and `Counted`:
  these are the ends that the client counts with), of which the reader's buffer, the
  socket and what the client has still to send are consecutive extracts (`Placed`), after
  as many characters as were read.  The client sends nothing beyond a message that
  was not read (`HeldBack`), and the coroutine is before a message, waits for a decision
  about its header, or is so many characters before the end of its body (`Phase`).  With
  that the lengths in `nb_to_send` and the places in the text determine each other, and
  `SentSoFar` (every character was read with the label it has in the text) is
  inductive.  That the reader finds the end of a header where it is, and no other, whatever part of
  the text it has, is what `Plain` is for (`EndFound`, `OtherEnd`, `HeaderFound`): the header
  does not begin with the end of a line, its quotes are closed, it is no longer than
  `MaxBuffer`, the end occurs in it once, and the other end does not occur in it, nor, if it is the
  one that is looked for first, in the body.

*Functions that are defined by recursion.*  The prover cannot use the induction theorems of its
library, whose parameter is an operator.  `LeastNumber` (a set of natural numbers that is
not empty has a least one, by `WFMin`) does instead: the set of the arguments
at which a fact fails has no least element.  `Recursion` derives from it that an equation
`f[n] = g(n, f[p(n)])` with `p(n) < n` has one solution on the natural numbers; the digits of a
length, the numbers they stand for, the texts of a sequence of messages and the
number of its requests come from this lemma.

**Only model-checked**: `ReadAsSent` for clients that send chunks or open a tunnel.  It is not true
of whatever `Scripts` allows (a message behind a tunnel is content of the tunnel, and a trailer
that is not made of whole lines has another end than the client meant); five of the
scripts of `MCParts` are a tunnel and chunks for which it is.  Of headers that are not `Plain`
nothing is claimed: a quote left open is never read, a header that is too long closes the
connection, and for two kinds of ends see *HTTP* below.  Liveness (`ProxyEnds`,
`RedirectorFollows`, `SoftStopEnds`, `MessagesArrive`, `AlarmServes`, `EveryoneAnswered`) is out
of the prover's reach.

## Where the code and its comments disagree

Each with a run that ends in a counterexample:

* `MCTwoRequests`: `reactor/client/manager.py:151` corks a client until its request was
  sent on; but a flush in the other direction uncorks it, and a second request is read
  and asked about under the same name.
* `MCReusedCork`: a second answer on a connection empties the client's output inside
  `startData()`, which does not uncork the download that was corked for it
  (`reactor/client/manager.py:281`).
* `MCPartialRequest`: what a connected server does not take of the request is sent only
  when the client sends more (`reactor/content/manager.py:347`).
* `MCConnectReused`: a CONNECT to a host the client is connected to raises
  `UnboundLocalError` (`reactor/content/manager.py:291`) and ends the proxy.
* `MCPoolMaximum`: `provision()` counts before it adds, so the pool exceeds its
  maximum by one (`reactor/redirector/manager.py:170`).  `AlmostMaximum` shows that it
  is never more than one, stopping workers apart.

* `MCChunked`: the chunks that come with their header wait in the reader's buffer for more to
  come from the socket (`reactor/client/http.py:139`): only a body that has a length is
  looked for in the buffer first.  A client that has sent everything waits for ever.

Seen while modelling, without a run here:

*Clients and downloads*

* `startData()` appends to `buffered` without looking whether the client is there
  (`reactor/client/manager.py:276`); the second occurrence survives the flush and
  the next output is not watched.  The same call registers the client as buffering
  without telling the reactor, whose comment (`reactor/reactor.py:226`) says that a server is
  not read meanwhile.
* A page that fits in the socket at once leaves the client open, although
  `reactor/client/http.py:410` means to close it: the result that says so is dropped.  For
  a tls client the other of the two results is dropped, and the rest of a
  page that did not fit is never sent (`reactor/client/tls.py:254`).
* `Server.accept` does not compare the count with the limit first
  (`network/server.py:80`): two listeners of one server in one batch exceed it by one,
  which is what `AtMostMaxClients` allows.
* A client corked by an earlier handler of a batch is still read by a later one,
  contrary to `reactor/client/manager.py:154`.
* What a tls or passthrough client sent before its decision is dropped.  A second request
  in the buffer of an HTTP client whose body has ended waits until more comes from the socket.

*HTTP*

* The end of a body in chunks is looked at as a request (`reactor/client/http.py:269`, against
  `:126`): `_endChunk()` gives the empty string, keeps the count of what is still to give,
  and sets a mode that forgets the count.  With a trailer the chunks go through, with the trailer.
* A body in chunks of which the last line comes in two pieces, the return in one and the line feed
  in the other, ends the proxy: `_endChunk()` returns a variable it has not assigned
  (`reactor/client/http.py:286`), and no clause of `supervisor.py:374-390` is for that.  The model
  has a mode for it, `raised`.
* `checkRequest()` looks for one of the ends of a header in all that it has before it looks
  for the other (`reactor/client/http.py:24`, `:48`): a header that ends with two line feeds
  takes with it a body that came with it and has the other end.  An end within quotes is passed
  over for good (`:58`), and the next one is looked for only when more has come.
* `checkChunkSize()` forgets the size of the chunks it has passed if the text ends in the
  line of a size (`reactor/client/http.py:66`): what it forgot is counted again by the next call.

*Resolver*

* Lookups by TCP are filed in `active` under the UDP socket
  (`reactor/resolver/manager.py:227`).  One that times out is asked for again by UDP under
  the identifier of the TCP worker, which is always the first one; two such lookups take each
  other's place, and a client is forgotten or gets another one's answer; with two TCP workers and
  a second lookup of the client whose first one was misplaced, a wrong answer then ends the
  process (`manager.py:303`).  For this reason `NobodyForgotten`, `LineMoves`,
  `AtMostOneResponse` and `KeepsRunning` speak of the time before (`tcpTimedOut`).
* A TCP worker closed by a timeout while an alias is followed is not counted out
  (`reactor/resolver/manager.py:115`).  Lookups that wait for a TCP worker have no timeout.
* The number of aliases followed is kept by identifier, for all workers together.
* A client with two open lookups at a time has one entry for both, and a wrong answer then
  raises a `TypeError` that nothing handles (`reactor/resolver/manager.py:303`).

*Signals and shutdown*

* `STOP` while an answer to `STATS` is on the way: `wait_stop()` takes the answer for an error
  (`util/control.py:43`), the main thread ends with it, and the alarm thread keeps the
  process alive.  `FailsOnly` shows that this and the death of the redirector are the only
  ways to fail.
* The redirector process disappears, and the main thread dies of the request for
  statistics that it sends in every round (`supervisor.py:312`) before it sees the end of the
  other pipe: the `IOError` is none of those caught (`:374-390`), and the process stays with its
  alarm thread, against the comment of `supervisor.py:272`.
* A redirector blocked in a write to the full pipe of decisions, and a proxy that joins
  its dispatcher or waits for the stop, wait for each other (`Jammed`).
* `self._shutdown = not self.proxy.accepting()` (`supervisor.py:323`) overwrites a shutdown
  that a signal has just asked for; a signal between the use of a flag and its reset is lost
  (`supervisor.py:324`, `:343`); after `SIGQUIT` a `SIGTTIN` in the same round means that
  the soft stop goes on accepting.
* `accepting()` ignores that `listen()` returned nothing (`network/server.py:45`): a server
  may serve no socket.  A soft stop rejects the clients of the proxy server only, and a
  shutdown leaves the icap, tls and passthrough listeners to the end of the process.
* `supervisor.py:427` says to listen only after the fork; the servers listen
  (`initialise`) after the fork has been *started* (`supervisor.py:133`), whatever came of it.
* `manager.stop()` pops from the dictionary it iterates over
  (`reactor/redirector/manager.py:147`); nothing calls it.

*Redirector*

* `readChildResponse()` (`reactor/redirector/worker.py:109`) repeats `readline()` on the
  empty string; for a child that closed its output a moment before it exits, the process
  spins for ever.  The models have a place for it, `hung`.
* The loop that serves the queue when new workers have come
  (`reactor/redirector/reactor.py:33-37`) ends at the first request that is deferred
  to a child, that is, normally after one; `EveryoneAnswered` shows that the others are
  served all the same, later.
* An answer that begins with `http://`, the usual one (`src/README.FIRST:49`), is compared with
  an attribute that a request does not have (`reactor/redirector/worker.py:130`): the worker
  is dropped with its program, so is the next one, and the client is told to close.
* The configured extension methods are never allowed: the test is whether the
  request, not its method, is among them (`reactor/redirector/worker.py:262`).
* A message that the ICAP program modified and that is invalid has no page: the parts of the page are
  taken for a classification nothing knows, and the default is to permit
  (`reactor/redirector/icap.py:187`).  A CONNECT that is permitted so is connected; the
  others fail.
* `_oldest()` finds no worker when the clock was set back to before all of them were created
  (`reactor/redirector/manager.py:152`): no worker is then stopped.  `stopOldest` leaves
  this out: it takes any of the workers.
* A request that cannot be parsed, from a client of the web server, costs two workers
  (`reactor/redirector/worker.py:296`).  A tls client whose program is given
  URLs is asked about and then told to close, whatever the program says.
* The program of `etc/exaproxy/redirector/icap-serve` sends no end of line before the last
  chunk: the reader of its answer waits for ever.

*Pollers, pipes and the alarm*

* `epoll` keeps the socket of a descriptor that was closed while it was corked; `PollersPoll`
  shows that this is harmless.  With `kqueue` a socket that is closed before it is removed trips
  the assertion of `network/async/kqueue.py:46` when its descriptor comes back; `PollersReady`
  shows that nothing else does.  The TCP worker of a lookup that times out while it follows an
  alias is closed so (`reactor/resolver/manager.py:117`).
* `select` replaces a list by a dictionary in `clearRead` (`network/async/selectpoll.py:91`),
  which the next wait could not add up; only the exit clears, and no wait follows.
* The end of a pipe in the middle of a message makes the reader loop for ever on the empty
  string (`util/messagebox.py:20`, `:45`); `EndIsSeen` excepts it.
* `put()` writes the whole message again after a write that was interrupted in the middle
  (`util/messagebox.py:98`, against `src/CHANGELOG:7`): a part of it is in the pipe twice, and the
  reader takes the repetition for the text, or says that there is no message.  The redirector
  has an alarm every second (`reactor/redirector/supervisor.py:58`, `:101`).
* `get()` begins again after a read that was interrupted in a text
  (`util/messagebox.py:105`): what follows of the text is then taken for a message.  The
  exceptions of `pickle` that `:117` does not list end the reader.
* An interrupt pipe that is full when the alarm is stopped holds the thread, and the main
  thread that joins it, for ever; `StopJoins` excepts it.  The alarm is not one-shot
  (`util/alarm.py:22`).

## What is not modelled

* Start-up, configuration, daemon and pid files, logging, statistics and their histories
  (`monitor.py`), the admin web pages, leak detection (vendored), `network/splice.py`
  (imported by nothing): pure input and output, or no state that another component depends on.
* Parsers and codecs of HTTP headers, ICAP, TLS and DNS: pure functions over text; the models
  take their results as choices.
* The framing inside the ICAP and TLS client coroutines, and of an ICAP program's answer, which
  is read in one blocking call.
* `retryDownload` and `reload` (stubs), `SIGTRAP`, and the tables that `stop()` empties when the
  process is about to end.
* The line with the address of the client that a front-end may send before a request (the mode
  `proxy` of `http.py`), and, in `MessageBox`, a reader that goes away: the writer's exception is
  in `Supervisor`.
* A kernel queue's socket that is closed while it is subscribed (`KQueuePoller.close` requires
  that it is not); the paths that do it are listed above.
* Files: a local page opens; that it may be removed between the check and the open
  (`reactor/client/http.py:320`) is the one hazard listed without a property.
* Real time: alarms and timeouts may come at any step; only `IdleClients` has a clock.

## The plan

Modelled, checked and proved: the reactor's tables, slots and backpressure, the redirector
process, the supervisor, the resolver, and the parts checked alone.

A proof planned: `ReadAsSent` for bodies in chunks, with the invariant of `HttpInv` extended by the
place within a chunk, for the chunks and trailers that `checkChunkSize` finds the end of.

Models planned: the framing of ICAP and TLS client hellos; the decoder of DNS names with its
pointers; the reactor composed with the resolver's tables instead of counters.

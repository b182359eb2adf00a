# A TLA+ verification of cpp-asio-study

The repository is a set of network programs on standalone Asio: a small
client/server framework (`src/src/one_lone_coder`), the clients and servers of
the Asio cookbook (`src/src/asio-cookbook`) and a chat server
(`src/src/etc`). This directory models the parts of it that have behaviour of
their own (threads, completion handlers, queues, locks, shutdown) as TLA+
modules, checks them with TLC on small instances, and proves some of the results
for every instance with TLAPS.

Paths below are relative to the repository; short names: T `net_tsqueue.h`,
C `net_connection.h`, S `net_server.h`, L `net_client.h`, M `net_message.h`,
MT `async_tcp_client_mt.cpp`, ST `async_tcp_client.cpp`, IT
`sync_iterative_tcp_server.cpp`, PA `sync_parallel_tcp_server.cpp`, AS
`async_parallel_tcp_server.cpp`, CH `dens_simple_chat_server.cpp`, TC `sync_tcp_client.cpp`, UC
`sync_udp_client.cpp`, SH `socket_shutdown_server.cpp`.

## 1. Inventory

| component | state | operations | interacts with | what makes it correct |
|---|---|---|---|---|
| `tsqueue` (T) | a deque, `muxQueue`, `muxBlocking`, `cvBlocking` | push and pop at both ends, `empty`, `wait` | asio threads push, the main thread waits and pops | a queue: each item once and in order; no deadlock; a consumer that waits is woken |
| `connection` (C) | socket, outgoing queue, message being read | `Send`, `Disconnect`, `ConnectToClient/Server`, read and write handlers | posts to its context; pushes to the queue of its owner; the peer's `connection` | one write at a time; the peer reads the messages that were sent; closing spreads |
| `message` (M) | header (id, size) and body | `<<`, `>>` | carried by `connection` | size is the length of the body |
| `server_interface` (S) | container of connections, incoming queue, context thread | accepting, `MessageClient`, `MessageAllClients`, `Update` | `connection`, `tsqueue`, the application's hooks | accepts for ever; reports a lost client once; destroys nothing in use |
| `client_interface` (L) | one connection, context, its thread | `Connect`, `Disconnect`, `IsConnected`, `Send` | `connection`, `tsqueue` | `Disconnect` returns and closes; `IsConnected` is true of a connected client |
| `AsyncTCPClient(MT)` (ST, MT) | map of active sessions, a mutex for it and one per session, thread pool | request, cancel, close | callbacks to the user | each request reported once; a cancellation is honoured; `Close` waits |
| chat server (CH) | set of sessions, each with an outgoing queue and a read buffer | accept, broadcast, read and write handlers | sessions call the server's `post` and its leave handler | everybody hears the same things in the same order; a departure is announced once |
| synchronous servers (IT, PA) | stop flag, one accepting thread, (PA) detached service threads | accept, handle, stop | main | a failing client does not end the server; `Stop` returns; services finish |
| asynchronous parallel server (AS) | acceptor, self-deleting services, thread pool | accept, read, write handlers, stop | main | nothing freed is used; it keeps listening; it ends cleanly |
| `SyncTCPClient` (TC) | a socket | connect, one request, its answer | a synchronous server | a call comes back, with the answer or an exception |
| `SyncUDPClient` (UC) | a socket without a peer | two requests, to two servers | UDP servers, a network that loses and lets anybody send | an answer is not that of another server; both servers are asked |
| partial I/O, socket shutdown (ch2_io) | a buffer, the number of bytes written | loops and callbacks over `write_some`, `read_some`; half-close | the other end of a stream | bytes in order, none twice; the end of the stream is the end of the message; nobody waits for ever |
| cancelled connect, timers (ch2_io, ch6_etc, etc) | operations that are outstanding | complete, cancel, start again | a second thread, or another handler | the handler learns whether the cancellation came in time; the program ends |
| `simple_example1` | one buffer for all reads | a read per byte printed | a web server | what is printed is what was read |
| `dens_asyn_server`, `simple_example` | a buffer | one read per connection | | not modelled |
| introduction, buffers, options | none | straight-line library calls | | not modelled |

Hard behaviours: a condition variable whose predicate is under another mutex
(T); composed asynchronous operations that a cancellation can miss (MT); two
mutexes taken in two orders (MT); a data structure shared by the asio thread and
the main thread without a lock (S); objects destroyed with handlers outstanding
(C, S); a context stopped with work in it (L, AS); read buffers used again
(C, CH) or shared by operations that overlap (`simple_example1`); a cancellation that finds
nothing to cancel (`dens_timer`); partial transfers; a peer that is ended in the middle of a
message (SH); errors that a handler ignores (C, CH, S). The full list, each at its
line with the properties about it, is `hazards` in `PROJECT.json`.

## 2. Modules

| module | models | abstraction of |
|---|---|---|
| `FifoQueue` | what a queue promises | |
| `TSQueue` | T's `push_back`, `wait`, `empty`, `pop_front`, S's `Update` | implements `FifoQueue` |
| `AsyncTCPClient` | MT, and with one thread ST | |
| `MessageChannel` | what a pair of connections promises, in each direction | |
| `Connection` | C, for both ends of one TCP connection | implements `MessageChannel` |
| `ChatRoom` | what the chat server promises: a room in which everything said is heard | |
| `ChatServer` | CH | implements `ChatRoom` |
| `ServerInterface` | S, with `connection` reduced to what is outstanding for it | |
| `Message` | M: the size in the header, `<<` and `>>` in the arithmetic of `size_t` | |
| `ClientInterface` | L and the application SC, with `connection` reduced to its socket and the message it reads into; extends `Message` | |
| `SyncServer` | IT and PA, chosen by `parallel` in `Init`, together with their clients TC | |
| `AsyncTCPServer` | AS | |
| `StreamPrograms` | SH and five clients of ch2_io, chosen by `program` in `StreamInit` | |
| `SyncUDPClient` | UC, its two servers, anybody else who sends to it, and the network | |
| `CancelPrograms` | `cancel_async_operation.cpp`, `timer_example.cpp`, `dens_timer.cpp`, chosen by `example` in `CancelInit` | |
| `SimpleExample1` | `simple_example1.cpp` | |
| `MC...` | instances for TLC: model values, message sets, symmetry (`MCServerInterface`). `MCPrograms` holds the five modules whose programs are complete in themselves: in every behaviour its variable `module` picks the one that runs | |
| `...Proofs` | theorems and their proofs | |

They were written in this order: first the queue every message goes through and
the client with the most intricate locking, then the connection, then the
servers built from them, and last the single programs.

How the code becomes actions:

* **A thread has a program counter** (`pc`, `ioPc`, `uiPc`, `mainPc`, `udpPc`, `readPc`, `at`). Its steps are
  the pieces of code between two points where another thread can matter: taking
  a mutex, waiting, reading or writing shared state. A critical section around one
  access is one step that needs the mutex to be free.
* **A completion handler is one action** where its context has one thread
  (`Connection`, `ChatServer`, the asio thread of `ServerInterface`), and is
  split where it takes a mutex or competes with another thread (`AsyncTCPClient`,
  the accept handlers of `ServerInterface` and `AsyncTCPServer`).
* **An asynchronous operation has a state**: `pending` with the network,
  then `done`, `error` or the like when its handler is queued. Closing or cancelling
  a socket turns `pending` into an error and leaves a queued handler alone: that
  is the difference most of the findings are about.
* **A posted task** is an element of `posted`/`tasks`, run in order by the context.
* **The network and the peers** are actions of their own (`Net...`, `Client...`, `PeerGoes`),
  marked external in the map: they choose freely among what TCP allows.
* **History variables** (`received`, `sent`, `reported...`, `callbacks`, `misread`, `answers`) record
  what properties compare; no guard reads them, with the exception of
  counters that are bounds, which are named `Max...`.

`PROJECT.json` maps every definition to its lines.

Details worth knowing:

* `TSQueue`: `PushEmplace`, `PushLockBlocking`, `PushNotify`, `PushUnlock` are the four
  visible points of `push_back`, which holds `muxQueue` throughout and takes
  `muxBlocking` inside. `WaitEmpty`, `WaitLock`, `WaitSleep`, `WaitRelock`,
  `WaitUnlock` are those of `wait()`. `SpuriousWakeup` may happen and is never fair.
* `AsyncTCPClient`: a request goes `connect`, `write`, `read`; `partial` is the
  state in which the intermediate handler of `async_write` or
  `async_read_until` is queued. `HandlerCheck` takes `m_cancel_guard`;
  `CompleteErase` needs `m_active_sessions_guard`. `m_id` gives every request an id, which
  several may have: the map then finds the last (`Sessions`).
* `Connection`: bytes are counted in units of eight, so that a header is one unit and
  a body as many as its size says. A reader that is out of step really takes a
  body unit for a header: `misread`.
* `ServerInterface`: shared pointers are counted by what holds one (`Held`): the
  container, the queue, the message being handled, the accept handler. A handler
  of a destroyed connection has no effect in the model (in the program it uses
  freed memory, see section 6). `Accept`, `AcceptPush` and `AcceptConnect` are the accept handler
  up to `push_back`, `push_back`, and `ConnectToClient` of the container's back: the main thread runs
  between them. A ping may be answered with `Send`, as simple_server does, or with
  `MessageClient`; `reportedByAll` and `reportedByClient` count the calls of `OnClientDisconnect`
  that `MessageAllClients` and `MessageClient` make.
* `ChatServer`: a line is two pieces, its text and its newline; `async_read_until` may
  have read past the newline, and `OnRead` takes all of it, as CH:88 does.
* `ClientInterface`: what the server sends is made by `Push` as simple_server makes it, read by
  `Arrives` into the one `m_msgTemporaryIn`, which keeps its body, and popped by
  `HandleMessage` as SC:70-93 does.
* `SyncServer`: a connection that nobody has accepted waits in the backlog (`Queued`), and is
  reset when the acceptor or the process is gone (`Lost`).
* `SyncUDPClient`: `Answer` is a server that was asked, `Intrude` anybody who was not; `ReceiveResponse`
  takes a datagram from either, since UC:49 looks at no sender.
* `StreamPrograms`: a byte is its place in the sender's buffer, so that `got` shows what was lost
  or repeated. `WriteSome` and `ReadSome` take any number of bytes that fit; `Window` makes
  a writer wait for its reader. `Kill` and `NetBreak` may come at any moment: a killed
  process ends its stream like one that has finished.
* `CancelPrograms`: `found` is the state in which `cancel()` met its operation. `rearm` is the
  moment between the expiry of dens_timer's timer and the `async_wait` of its handler.
* `SimpleExample1`: a read is performed at once if data is there and no other read waits, and
  otherwise between two handlers, as asio does it; all fill `vBuffer` from its start.

## 3. Runs

Every passing run has one configuration, in which all properties of its
module, or in `programs` of its modules, are checked together.

| run | instance | states | shows |
|---|---|---|---|
| `queue` | 2 producers, 3 pushes each, a consumer that handles at most 2 messages per `Update` and waits or not, as it likes | 17 076 | the locks implement `FifoQueue`; no circular wait between the two mutexes; a push wakes a sleeping consumer; no message is left behind by one that is awake |
| `async_client` | 2 requests whose ids may be equal, 2 pool threads, 2 cancellations, 1 partial transfer per request | 541 608 | a cancelled request is never a success, starts nothing, and waits for the network only if a transfer had been split; a request can be cancelled until it completes or its id is used again; each request is reported, once, and `CancelRequest` returns, unless a second cancellation has closed the circle of the two mutexes; `Close` waits |
| `connection` | the client sends 2 messages, with or without a body, the server sends pings back; either end may close, either socket may break | 115 896 | the two ends implement `MessageChannel` in each direction, never disagree on where a message begins, and a message is queued with its own body or, if it has none, with that of the one before; a close spreads; what is queued arrives while both ends are open |
| `chat` | 2 clients with 2 and 1 lines, accepts that may fail | 296 135 | the sessions implement `ChatRoom`; one write per session at a time; departures announced once; lines neither lost nor repeated; members hear everything, who is gone is removed |
| `server` | 2 connections, 2 messages each, each a ping or a broadcast | 2 210 230 | a dead client is reported by one broadcast only, and a live one never; no reset pointer stays; whoever is in the container is being read from, but for the one that `ConnectToClient` is about to be called on, which is then at the back |
| `client` | 2 rounds of `Connect`/`Disconnect`, 3 messages sent, at most 2 queued, `size_t` 2^16, header size 2^8 | 15 179 | `Disconnect` returns, an attempt on a context that runs ends; `>>` stays inside the body of every message and gives back what was pushed |
| `async_server` | 2 clients, 2 threads, 1 failed accept | 14 949 | a Service has one operation or one thread while it is live, and neither once it is freed; one accept outstanding until `Stop`; Services end; `Stop` returns |
| `programs` | one module at a time: 3 clients of either synchronous server; requests and responses of 3 bytes, a reader that wants 2, 2 bytes in flight; 2 datagrams from each UDP server and from a stranger; one or two operations to cancel; 4 bytes that overlapping reads print | 75 608 | *servers*: failing clients do not stop the iterative one; `Stop` returns with the next connection; a call of a client comes back, from the parallel one even if others are silent, whatever happens to the server. *streams*: partial reads and writes keep the bytes in order; who takes the end of the stream for the end of the message has all of it, unless the sender was killed; both sides end. *UDP*: no server's answer is taken for another's; the client waits for ever only for a lost datagram. *cancellation*: a handler is told of it exactly if it came in time; dens_timer stops only if its cancellation found the timer set. *reads*: overlapping ones print later bytes for earlier ones, but never fewer or more |

Why these bounds are enough: a hazard of the queue or of the chat takes two
actors that meet and one more item to mix up; of the client's cancellation,
one request in each phase while another one is under way, and two threads so that
a handler of one can pass the other; of the connection, a message after another
on one socket, with a body before one without, and traffic in the other
direction (the ping sent back); of the servers, one client dead and one alive, and
a third to wait behind a silent one; of the streams, a transfer in more than two pieces and a
window smaller than the message; of the overlapping reads, a read that is performed while
two bytes of another are still to be printed. The bounds are the constants named `Max...`, and
they appear in guards of the environment's actions only (`Send`, `NetPartial`,
`CancelFind`, `NetAcceptFails`, `PushEmplace`, `Connect`, `Arrives`, `Answer`, `Intrude`), so that a bound stops the input,
never a handler.

Deadlock is checked in `queue`, whose consumer always goes on, and not in the others: each
of those systems comes to rest when nobody asks it for anything, and stays there. That a system does not stop with work in
hand is what the liveness properties say.

Every property is violated when one definition is replaced by a plausible bug
(`mutants` in `PROJECT.json`; the mutated definitions, named `Mut...`, stand before
the ones they replace): a missing `return`, a mutex not taken, a queue popped at the
wrong end, an error ignored.

Four more runs are counterexamples to what the repository says of itself
(section 6): `queue_lost_wakeup`, `server_iteration`, `server_removal` (2 connections, one message
each) and `udp_servers`, whose configuration instantiates `SyncUDPClient` directly.

## 4. Fairness

Weak fairness only, and only for what the scheduler, asio or TCP provides:

* a thread that can take a step takes one (the operating system), a queued handler
  or task is run (asio's contract, as long as the context runs);
* the network finishes an operation that can finish: TCP delivers to an open
  peer and reports its end. A read that waits for a peer that need not speak is
  *not* fair in `Connection`, `ChatServer` and `SyncServer`;
* `AsyncTCPClient` assumes in addition that a server answers or fails; `AsyncTCPServer`
  that a client sends its request or leaves. `SyncServer` assumes this only as the
  premise of two of its properties (`ClientsGoOn`), since the parallel server must not
  need it.

The fairness of the five single modules stands in `MCPrograms`, where each conjunct holds for the module that
runs and nothing is asked of the others. `StreamPrograms` assumes that a connection attempt that can succeed or be refused is one of
the two, and that the reader's server goes in the end (a process that is neither fed nor ended
would wait for ever); `SyncUDPClient` that a server answers a request it gets, and nothing of
what the network delivers or of strangers; `CancelPrograms` that a connect ends and a timer expires, which asio
and TCP's time-out promise.

Never fair are the applications (nobody has to send, connect, cancel, stop or
disconnect), errors (`NetBreak`, `NetReset`, `AcceptorThrows`, `NetAcceptFails`) and spurious
wakeups. A `Disconnect` or `Stop` that has begun goes on.

## 5. Proofs

| module | inductive invariant | theorems |
|---|---|---|
| `TSQueueProofs` | which mutex is held at which program counter; the queue is not empty at `pop` | `TypeCorrect`, `LocksInOrder`, `PopIsDefined`, `ImplementsFifo` |
| `AsyncTCPClientProofs` | `IInv`, below | `TypeCorrect`, `CancellationHonoured`, `NothingAfterCallback`, `NothingStartedAfterCancel`, `CancelledDoesNotWait`, `CloseIsGraceful`, `FoundUntilReused`, `CircleOnlyAtSecondCancel` |
| `AsyncTCPServerProofs` | the three properties, an accepted client has no Service yet, main is past `StopAcceptor` only with the flag set | `TypeCorrect`, `NothingUsesFreed`, `ListensUntilStopped` |
| `ProgramProofs`, on `SyncServer` | `SyncIInv`: one client in service exactly while the iterative server is in `HandleClient`; answers only to requests; main is past `Join` only when the thread has returned | `SyncTypeCorrect`, `ServesOneAtATime`, `AnswersAreToRequests`, `NothingAfterStop` |
| ... on `SyncUDPClient` | `UDPIInv`: no more datagrams are on their way than were sent, none from a server that was not asked; main turns to the second server only with a socket that is shut down; `Accounted`, below | `NotMixedUp`, `OneAnswer`, `WaitsForSomething` |
| ... on `CancelPrograms` | `CancelIInv`: `Progress`, `Found`, `SecondAfterFirst`, below | `CancelExact`, `CancelledRunsDown` |
| ... on `StreamPrograms` | `StreamIInv`: `Flow` and `WrittenOk` of each end; `Phases`, below | `BytesStayInOrder`, `EndIsWhole`, `OneGoesOn` |
| ... on `SimpleExample1` | `ReadIInv`: `ReadsOk`, `HandlersOk`, `WidestOk`, below | `NoByteLost` |
| `ConnectionProofs` | `IInv`: for each end `Writes`, `Reads` and `Wire`, below | `ChainsAlwaysGoOn`, `AlwaysReadAsSent`, `ImplementsChannel` |
| `ChatServerProofs` | `IInv`: for each client `Session`, `WriteOk`, `LessOk`, `LinesOk`, `QueueOk`; `RoomIsServed`, below | `LeavesAreAnnouncedOnce`, `LinesStayInOrder`, `ImplementsRoom`, `SessionsAreServed` |
| `ServerInterfaceProofs` | `IInv`: `AcceptedOk`, `MessagesOk`, `ContainerOk`, `BroadcastOk`, `ConnectionOk`, below | `ReportedOnce`, `ContainerIsSound` |
| `ClientInterfaceProofs` | what is queued was sent, whole messages in the queue; `Awaited`, below | `PopDefinedIff`, `PopUndoesPush`, `PopsAsPushed`, `ConnectIsAwaited` |

They hold for every number of producers, messages, requests, threads, clients,
connections, lines, bytes, datagrams and cancellations. The assumptions are those stated with the constants:

* names are distinct (threads, the two ends, the "no" values) and bounds are naturals;
* `FreshAssumption`: the messages of `Connection` are well formed, a `size` that is the
  length of the body, which is what `<<` leaves (M:82);
* `BouncedAssumption`: a message that `simple_server` sends back has a body, the time that
  `PingServer` has pushed (SC:34). One without a body would come back with a stale one, and the
  end that trusts `size` would then read a message for a header;
* `WidthAssumption`: a `size_t` and the header's `uint32_t` can hold 8, the length of a time;
* `CloseIsGraceful` also needs a pool with at least one thread (without one nothing
  would ever be reported).

TLC evaluates all of them on every run that extends the module.

**The client.** No property of it is
inductive alone. That a callback is not called twice (`TypeOK`) needs that a request is in
exactly one place, with an operation, with one thread, or behind its callback
(`OnePlace`), and that it is somewhere (`NotLost`, which `CloseWaits` needs). That nothing is
started after a cancellation needs that the thread about to start an operation
holds `m_cancel_guard` and has seen the flag unset (`Guarded`), so that `CancelSet`
cannot run between. That a success is not reported after a cancellation needs that
`CancelRequest` only finds sessions that have not been taken out of the map and
holds the map's mutex while it sets the flag (`Active`, `Reported`). `Drained` says that a
thread which has left `run()` has left nothing behind. Each lemma takes one group
of actions; the temporal steps are only the last line of each theorem.
`CircleOnlyAtSecondCancel` is about `CircularWait`, the state in which `CancelSet` waits for
`m_cancel_guard` and its holder for `m_active_sessions_guard`: a handler holds the former only
after it has found the flag set (`Guarded`), so somebody had set it before.

**The queue.** `ImplementsFifo` is a step simulation: `PushEmplace` is `Put`, `PopFront` is `Take`
(which needs `PopIsDefined`), everything else stutters.

**The connection.** `ReadAsSent` compares messages, but what travels is a stream of bytes in pieces,
and a reader that is once out of step never recovers. So the invariant speaks of places: the
bytes a connection ever writes are its messages `sent` one after another, `Unit(m, j)` being the
header (j = 0) or a byte of the body, and a `Place` is a message and a unit of it. The
writer stands at one place (`WriterPlace`, from the queue and the outstanding write), the reader of
the other end at another (`ReaderPlace`, from what it has received and its outstanding read), and
what is on the wire is exactly the units between (`Between`). `Writes` (`WriterOk`) says that
while the connection is open one write is outstanding exactly if the queue is not empty, of the
queue's first message; `Reads` (`ReaderOk`) that an open primed connection has exactly one read, of
the length the next units have. The lemmas about
`Between` (it is a function of its start; it splits at any length that was read; it grows at
the end by what is written) carry the argument from handler to handler. `ImplementsChannel` maps the wire,
both queues' rest and the half-read message to the channel's undelivered messages: only the end
of a whole message is a `Deliver`, and `Wire` makes it the right one.

**The chat server.** `Session` says that nobody is in the room before its accept, and that before it
nothing is queued, sent or being read; what a session has consumed and what its streambuf holds are ends of
pieces, and a read that is done has found something behind what was consumed. `WriteOk`: at most one
write is outstanding for a session, and only with something queued. `LessOk`: there is one departure
in the log if the session has left, none before, which is why a failed read and a failed write
cannot both announce it. `LinesOk`: the last line of a client in the log ends where what it has
consumed ends, and every line begins where one before it ends. `QueueOk`: what a session has sent and
has queued is the log from where it joined, the refinement of `ChatRoom`.

**The server interface.** `ContainerInv` is about every state of the two threads. `std::remove`
is the operator `WithoutNull` (the library's `SelectSeq` is out of the prover's reach); the lemmas about it show
that it keeps every pointer that is not null, once, in their order, and the last one at the end (`LastStays`).
The accept handler calls `push_back` first (S:101) and then, through `back()`, `ConnectToClient` (S:105).
`AcceptedOk` carries the new connection through both: before `push_back` it is the handler's own, open and
unread; after it, it is the last entry, and stays that, since the main thread resets only closed
ones and erases only reset ones. `ContainerOk`: nobody is in the container
twice, and a connection in it has been made, has been reported by no broadcast, is not the one the handler is
about to push, and is read from if open, but for the last while `ConnectToClient` is still to come.
`BroadcastOk`: a broadcast stays within the container
and has set `bInvalidClientExists` if it has reset a pointer; outside of one none is reset. `MessagesOk`:
messages come from connections that have been made, so that `MessageClient` reports none before its accept.
`ConnectionOk`: no broadcast reports twice, and nobody reports a connection that is open or not yet made.
Nothing bounds the reports of `MessageClient`: the entry it leaves (`server_removal`) is found again.

**The client interface.** `PopsWhatWasPushed` needs that a message in the queue has the body its
header promises, or the one that was read before (`Incoming`), and that `PopDefined` of every pop main makes follows
from the length. `PopDefinedIff` is modular arithmetic: for lengths below 2^w the index does not wrap round
exactly if the body is long enough, and only then the copy ends where the body does.

**Partial input and output.** A byte is its place in the buffer, so `Behind(s, k)`, the piece s begins
behind the first k bytes, says all about a piece, and two pieces follow each other exactly if their
concatenation is `Behind` where the first is (`BehindConcat`, `BehindSplit`). `Flow` is one direction: what was
read is `Behind` 0, what is on its way `Behind` that, and together they are as long as what was sent
(total and, for the chain of callbacks, the bytes whose handler is queued) while the connection is up and
the reader there. `WrittenOk` adds what `EndMeansWhole` needs: who is past the loop, or has half-closed, has
written all, unless killed; `HandlerOk` and `NotConnected` close the induction.

**Cancellation.** `Progress` says that an operation has a handler in the queue exactly from its
completion until the handler runs, `Found` that it was aborted exactly if `cancel()` found it pending,
and `SecondAfterFirst` that the handlers of the two timers run in order, so that the first
cancels the second before that is handled.

**The overlapping reads.** A handler prints from the one buffer, which later reads may have overwritten. The
invariant gives to every queued handler the place in the stream where its piece began (`Pieces`: such
places exist, from what has been printed to what was consumed) and says that the buffer
holds at each index no earlier byte than the handler should find there (`HandlersOk`). So printed
bytes can be too late in the stream, never too early, and none is lost or added. `ReadsOk` counts: every read
but the first was started by a printed byte. `WidestOk`: while no read has brought two bytes there is
at most one read or handler, and then the buffer is exact.

`TypeOK` of `TSQueue`, `AsyncTCPClient`, `AsyncTCPServer` and `SyncServer` is proved and not part of
a run, as are `CallbackIsLast` (a part of the client's `IInv`) and `OneAtATime`. In the other
modules `TypeOK` is the first conjunct of an invariant of the run.

**What liveness rests on.** A liveness property needs two things: that in every state which
waits something is there that will end the wait, and that it does not go on for ever. Fairness and ENABLED are beyond TLAPS, but the first half,
and where there is one the rank, are safety and are proved for every instance:

| liveness property | what is proved of every state, or every step |
|---|---|
| `EverySentArrives` | `ChainsAlwaysGoOn`: an open primed connection has its read, and its write if its queue is not empty |
| `EveryRequestReported` | `CloseIsGraceful`: `Close` has not returned while a request is unreported |
| `WorkEnds` | `NothingUsesFreed`: a live Service has an operation outstanding or a thread at work |
| `MembersHearAll`, `GoneAreRemoved` | `SessionsAreServed`: who is in the room is read from, and written to if anything is queued for it; nothing waits on a socket that was closed |
| `CallsEnd` | `ConnectIsAwaited`: a connection being made is the current one, and a thread runs the context for it, until the context is stopped |
| `ExchangeEnds` | `OneGoesOn`: of two connected processes that have not both ended one can go on |
| `EndsIfCancelled` | `CancelledRunsDown`: every step lowers `ToDo`, and with nothing to do both threads have ended |
| `WaitsOnlyForLost` | `WaitsForSomething`: while the client waits the request or the answer is on its way, if nothing was lost |

`OneGoesOn` is a theorem about deadlock. A writer waits only for room and a reader only for bytes or
their end (`WaitsFor`), so two processes could wait for each other if both wrote into full windows or both
read. `Phases` excludes it: the server only writes, and the client only reads, after the client
has half-closed, and by `WrittenOk` a client that has half-closed has nothing left to write; the
client that is a mere reader never writes, and its server never reads. `CancelledRunsDown` counts two for
an operation that is outstanding (its completion, its handler), one for a handler in the queue, one for the
call of `cancel()` and one for the return of `run()`. `WaitsForSomething` needs that the server which has not been
asked has sent nothing, and that its replies are those it has sent (`Accounted`); what strangers send only helps. `ConnectIsAwaited` needs that the
context thread has only returned, and main only waits for it, once the context is stopped (`Awaited`).

Only model-checked: all liveness (`...Returns`, `...Ends`, `...Arrives`, `...Spreads` and
the like), since TLAPS does not do fairness; for what is in the table above, the step from there to the property.
Every invariant of a passing run is stated by a theorem.

## 6. Where the code and its words disagree

Four are runs that end in a counterexample:

* `queue_lost_wakeup`: `wait()` tests `empty()` and then waits without a predicate
  under a mutex that does not protect the queue (T:90-92). A push in between notifies
  nobody, and `Update(-1, true)` sleeps with a message in the queue until the next push.
* `server_iteration`: the accept handler pushes into `m_deqConnections` while the main
  thread iterates over it (S:101, S:159-170).
* `server_removal`: `MessageClient` reports a client that is gone (S:139) and resets its pointer (S:142)
  before it looks for it in the container (S:145), so that the entry stays and the next message reports the client
  again, though S:144 says "Then physically remove it from the container". No program of the repository calls
  `MessageClient`: here the application answers a ping with it.
* `udp_servers`: UC:18 says that this one class can talk to several servers, and main asks two through one object
  (UC:72, UC:80), but the socket is shut down after the first answer (UC:52): that throws, or
  the second `send_to` does. `OneAnswer` proves that no number of datagrams helps. What is taken for
  the answer of the first may also be a stranger's (UC:49): `AnswersAreNotMixedUp` says how far it may go.

Others are in the models, and the properties state exactly how far they go:

* MT:194: `CancelRequest` takes the map's mutex and then the session's, a handler that has found
  the flag set takes them the other way round (MT:141, 243). A second cancellation of the
  same request can make both wait for ever, though "this thread must not stop for a
  noticeably long time" (`docs/asio-cookbook/3_client.md`:30, of the UI thread).
  `CircleNeedsSecondCancel` and `EveryRequestReported`: nothing else can.
* MT:121: a request whose id is used again can no longer be cancelled (`CancellableUnlessReused`).
* C:197: a message of size 0 is queued with the body of the message before it, though it is called
  "bodyless" (C:195): `BodyIsOwnOrStale` in `ReadAsSent`.
* SH:43: the end of the stream is taken for the end of the message, which it also is when the
  client was killed in the middle: `EndMeansWhole` (which exempts a sender that was killed at any time).
* `dens_timer.cpp`:73: a cancellation between the expiry of the timer and the next `async_wait`
  finds nothing, and the program never ends: `CancelIsExact`, `EndsIfCancelled`.
* `simple_example1.cpp`:34: a read per byte instead of one per handler, all into one buffer: bytes
  are printed twice and others not at all (`PrintedAsRead`).

And others are in the models without a property that denies them:

* MT:204: a cancellation between two transfers of one composed operation aborts
  nothing; the request waits on for the server. `CancelledIsNotWaiting` names this
  as the only such case.
* S:112, S:169: a connection is destroyed while handlers and tasks that use it by a
  plain `this` are outstanding.
* S:89: `remote_endpoint()` throws for a client that has already reset its connection, on
  a thread that catches nothing. IT:83: so does `accept`, outside `main`'s try block.
* L:67, 74: `Disconnect` stops the context before the close it has posted can run, and
  `release()` leaks the connection, socket open. L:80: `IsConnected` is true after a refused
  connect. L:50: the stopped context is never restarted, so a second `Connect` ends
  only if the first context was still running (the premise `~stopped` in `CallsEnd`).
* CH:153: a failed accept becomes a session, is announced as a newcomer and leaves
  again. CH:88: a message may hold part of the next line, or several.
* PA:33: the process may end under detached services (IT finishes the client it serves before `Stop` returns).
* AS:222: after `Stop` the acceptor may still be open and Services with outstanding
  operations are never freed.
* SH:40 makes a string of a buffer without a terminating zero: undefined, and of no effect on the
  exchange, so that the model leaves it out.

## 7. Not modelled, and what is left

Not modelled because there is nothing to check: the introduction, fixed and
extensible buffers, socket options, `simple_example` (straight-line library calls); the
build files. `dens_asyn_server` makes one read per session, and its sessions share nothing.
`write_tcp_async1.cpp` is in no build file; the `...Enhanced` functions of ch2_io and
`ReadFromSocketDelim` are called by nobody. Of S, `Stop` and the destructor are not modelled, which
simple_server does not reach; of T, the operations no other thread competes with.
Abstracted everywhere: contents of messages, logging, wording, addresses.

What is left to do:

1. *Composition*: `ServerInterface` over `TSQueue`'s abstract queue; `Stop` and the destructor of S.
2. *Proofs*: a rank like `ToDo` for the client and the servers, whose operations have many more phases than two.

# A verification development for the SUPL 3GPP LPP client

The program connects to a location server over SUPL (TCP, optionally TLS),
exchanges LPP messages with it and forwards the assistance data it gets. It is
single threaded: one epoll loop (the scheduler) runs callbacks, and a callback
that must not act at once defers a call to the end of the round. What makes it
hard is not parallelism but order: callbacks that run users in the middle of a
handler, deferred calls that run on a state other than the one they were made
for, timers, a server that may answer late, twice, in the wrong transaction or
not at all, sends that fail half way, bytes that are cut anywhere, and
connections that are lost and made again while tables, queues and handles of
the last one live on.

The modules here model the part of the program that carries this: the LPP
session and client (`dependency/lpp`), the SUPL session under them
(`dependency/supl`), the scheduler and its tasks (`dependency/scheduler`,
`dependency/streamline`), the TCP streams of the program (`dependency/io`), the
parsers that find messages in them (`dependency/format`), and of the client
program (`examples/client`) the reconnect timer, the delayed request and the
loops around the parsers.

## Inventory

### Parts of the system

| Part | State it keeps | Operations | Hard behaviour | What makes it correct |
|---|---|---|---|---|
| `lpp::Session`, transactions (`lpp/session.cpp`) | transaction table, lookup by wire number, numbers in use, two counters, queue of messages for the POSINIT | `create_transaction`, `send`, `send_with_end`, `delete_transaction`, `process_supl_pos`, `process_lpp_payload` | numbers wrap at 256; ends from either side; users called in the middle of a payload; stale handles; the table outlives connections | lookup sound, handles never recycled, an end is the last word, messages reach their transaction |
| `lpp::Session`, connection (`lpp/session.cpp`) | state, next state per kind of event, `SessionTask` with what it believes is registered | 12 state functions, the loop `process`, deferred `update`, `connect`, `schedule`, `cancel` | registration is deferred and captures a descriptor by value; closes and resets in every state | the registered socket is the open one, interests follow states, nobody is stranded, lost connections are noticed and made again |
| `lpp::Client` (`lpp/client.cpp`, `periodic_session/`, `single_session.cpp`, `location_information_delivery.cpp`) | sessions by number, three maps from transactions to sessions, single sessions, deliveries | requests, updates, `process_message`, `process_end_transaction`, timers, deferred destruction, `schedule`, `cancel` | facts kept twice; ends that call back into code that is ending; a number that is free again before a deferred call names it | the maps agree, nobody waits for a dead transaction, requests end |
| `supl::Session`, `TcpClient`, TLS (`supl/`) | state, receive ring buffer of 64 KB, socket | `connect`, `handle_connection`, handshake, `send_all`, `fill_receive_buffer`, `try_receive` | partial messages, data already decrypted, a blocking send with a 5 s poll | every message is delivered once and in order, no stall with data at hand |
| `scheduler::Scheduler`, timers | 256 event slots with generations, free list, deferred calls | `register_fd`, `update`, `unregister`, `execute`, `defer` | events of one wait for slots freed and given again in it | an event reaches only the registration it is for |
| `TcpConnectTask`, `io::TcpClientStream`, `WriteBuffer` | connection state, reconnect timer, write interest, bytes to write | `connect`, `event`, `write`, `on_write` | reconnection with bytes and interests left over | bytes are written in order, and missing only where a connection was lost or the buffer made room |
| `io::TcpServerStream`, `SocketListenerTask` | the clients it has accepted, by descriptor | `on_accept`, `write`, `remove_client` deferred | clients that go in the middle of their own callback | a removal finds the client it was made for |
| `streamline` | a bounded queue and an eventfd per consumer | `push`, `pop`, task | the queue at its limit | as many wake-ups as elements |
| `format` parsers | ring buffer, framing state | `append`, `try_parse` | junk, partial frames | resynchronisation |
| client program | configuration, `is_disconnected`, handle of the session | callbacks, reconnect timer, AGNSS processor | callbacks that destroy what calls them | it reconnects, one request at a time |
| `generator`, `coordinates`, `ephemeris`, ... | none that interacts | numerical conversion | floating point | out of reach |

### How they interact

    server <-> TcpClient/TLS <-> supl::Session <-> lpp::Session <-> lpp::Client <-> program
                   |                                   |               |            |   |
                   +--------- scheduler (events, deferred calls, timers) -----------+   |
                                         |                                              |
    devices, files, TCP peers <-> io streams -> parsers (format) -> queues (streamline) +

`lpp::Session` calls `lpp::Client` through `on_message`,
`on_begin_transaction`, `on_end_transaction`, `on_established` and
`on_disconnected`, always synchronously. `lpp::Client` calls back into `send`,
`send_with_end` and `create_transaction`, often from inside those callbacks.
`on_disconnected` defers `Client::cancel`; a session that times out defers its
own destruction. The program schedules the client again from a timer. Streams
call the program from the scheduler; what it reads goes through a parser, and
every message into a queue whose eventfd wakes the inspectors and consumers.

## Modules

| Module | What it is | Composed of |
|---|---|---|
| `LppTransactionTable` | pure operators: the transaction table and what each member function does to it | |
| `LppTransactions` | the sending and receiving side of `lpp::Session` | extends `LppTransactionTable`, implements `LppLink` |
| `LppTableProofs` | lemmas about the operators of `LppTransactionTable` | extends it |
| `LppTransactionsProofs` | theorems about `LppTransactions` | extends it and `LppTableProofs` |
| `LppSession` | the connection state machine with its sockets, deferred calls, tear-down and reconnect timer | implements `LppLink` |
| `LppSessionProofs` | its theorems | extends `LppSession` |
| `LppClient` | `lpp::Client`: requests, sessions, timers, deliveries | extends `LppTransactionTable` |
| `LppClientProofs` | its theorems | extends `LppClient` and `LppTableProofs` |
| `LppLink` | the abstract specification of the connection | |
| `EventLoop` | `scheduler::Scheduler` with its event slots, nested loops and deferred calls, and the tasks on it: `TimeoutTask`, `FileDescriptorTask`, `streamline::QueueTask` | |
| `EventLoopProofs` | its theorems | extends `EventLoop` |
| `ClientStream` | `io::TcpClientStream` with `WriteBuffer` over `TcpConnectTask` with its reconnect timer; the peer is open | |
| `LoopbackStreams` | `io::TcpServerStream`, listener and clients, as that peer | extends `ClientStream` |
| `StreamsProofs` | theorems about `ClientStream`, whatever the peer does, and about both | extends `LoopbackStreams` |
| `SuplReceive` | how `supl::Session` receives: kernel, TLS backend, receive buffer, decoder, and the reading states of `lpp::Session`; and `send_all` meanwhile | implements `MessageFifo` |
| `SuplReceiveProofs` | the proof that it implements `MessageFifo` | extends `SuplReceive` |
| `MessageFifo` | the abstract specification of that: a FIFO of messages | |
| `Framing` | the ring buffer of `helper::Parser`, `try_parse` of UBX, RTCM, NMEA and control, `process` of AT, and the loop of `process_input` | |
| `FramingProofs` | its theorems | extends `Framing` |

### LppTransactionTable

A table is a record with the fields of the C++ class: `transactions`
(`mTransactions`, without the copy of the handle), `lookup`
(`mTransacionLookup`), `clientTransactions` (`mClientTransactions`, which no
code inserts into), and the two counters. `NumIds` stands for the 256
transaction numbers. A handler that calls several member functions is the
composition of their operators. The names of the operators are those of the
functions.

### LppTransactions

`table` is the table, `link` the `supl::Session` as far as `send` sees it,
`posQueue` is `mPosQueue`. `held` is every handle a user was ever given: users
may use any of them at any time they run, ended or not. `payloads` and
`current` are the loop of `process_supl_pos` and the locals of
`process_lpp_payload` around `on_message`: users run before, inside and after
that callback (`UsersRun`), so that a payload's transaction can be ended,
deleted or followed by new ones while it is being processed. `wire` is a
history of what went out; a message remembers whether its sender asked for the
end. `reused` remembers that a number was allocated while a transaction had it.
Encoding, sending and the connection may fail at each send (`Outcomes`).
`PushIds` are the numbers on which the server pushes unasked when
`mHackServerInitiatedPush` is set.

### LppSession

`pc` is the loop of `Session::process`: one action per state function, enabled
while the loop runs, and nothing else runs meanwhile. `Goto` is a result with
a next state, `Wait` one that remembers next states and defers
`SessionTask::update` with the descriptor of that moment. `task` is what the
`SessionTask` believes is registered; the model takes the scheduler at its
word, so that what is believed is what is registered. `supl` abstracts
`supl::Session` with its `TcpClient`: its state, the descriptor, and the
receive buffer as a sequence of whole messages. `peer` and `incoming` are the
other end of the TCP connection (`tls` says whether it begins with a TLS
handshake); the server may accept, send, close and reset at any moment. With
`ManyEvents` other callbacks may run between an event and its deferred calls,
as they may when `max_events_per_wait` is larger than 1; the behaviours of the
default, 1, are among them.
`Schedule` is the program's reconnect timer and `RunTeardown` the deferred
call of `lpp::Client` with `Client::cancel` and `Session::cancel`.

### LppClient

`client` is a record of the containers of `lpp::Client` and of its sessions.
The operators named after member functions (`Register`, `End`,
`EndTransaction`, `Destroyed`, ...) take it and return it. `table` is the
transaction table of `LppTransactionTable`; `Sent` is `send` and
`send_with_end` on it, and `EndRemoved` the callback `on_end_transaction` for
what was removed. One action per request, per kind of LPP message, per timer
and per deferred call. `old` are the requests more than 5 seconds old (time is
one action that makes a request old), `gaveUp` is a history. The number of the
next session stays the one just allocated, as in
`allocate_periodic_session_handle`. `Hacks` are the combinations of the hacks
of the sessions that a run looks at.

`RunTeardown` is the whole deferred call that `on_disconnected` of the session
makes: `cancel`, then the callback of the user (`OnDisconnected`), who may make a
request in it.

Assumptions about the server, each a guard: it makes its requests in
transactions of its own, and uses a transaction for one periodic session. The
code does not check the second: `handle_periodic_begin`
(`periodic_session/handler.cpp:55-58`) overwrites what its map has for the
transaction. A server that began a second session in the transaction of a first
would leave the first listed there with nothing that leads to it; `RoutesAgree` and
what rests on it are about servers that keep to the protocol.

### LppLink

`null`, `connecting`, `handshake`, `established`, `broken`, in that order, with
a break possible everywhere and a tear-down before the next connection.
`LppTransactions` has it as a variable, `LppSession` computes it from the
state, the `TcpClient` and the `supl::Session` (definition `link`). Both are
checked to implement it, so what the transaction module assumes of its
connection is what the connection module provides; for both this is
a theorem as well.

### EventLoop

`stack` is the single thread: a loop (deferred calls, wait, events), the
callback it is in, and a loop nested in that callback by `execute_once`, as
`TbinInput` does. `pool` is `mEventPool` with the flag `pending_free` and the
generation, `kernel` the interest list of epoll, `events` the array `mEvents`,
of which a nested wait overwrites the beginning while the outer loop is still
reading it. `deferred` is `mDeferredCallbacks`; `process_deferred` takes the
calls there are and leaves those made meanwhile (`ProcessDeferred`).
`handle` is the `ScheduledEvent` of each task, and the ghosts `reg` and
`depth` say of a registration and of an event which they are, so that the
properties can tell two uses of a slot apart. A callback may cancel and schedule
tasks, give them another descriptor, push to queues, defer calls, interrupt the
loop, or run a nested one; `TriggeredRequest` is
`AGnssProcessor::schedule_triggered_request`, which replaces a `TimeoutTask`
whose deferred cancel may still be on its way. `Reads` contains what is
undefined in the code: a read of an eventfd that is zero leaves the count
uninitialized.

### ClientStream and LoopbackStreams

`state`, `interests`, `timer` are the `TcpConnectTask`; `stream`, `buffer`,
`writing` the `TcpClientStream`; `socket` the kernel. `Connects` is `connect`
with the ways it ends (`Outcomes`) and what `schedule` makes of it: connected at
once (a path, or a host), in progress (a host), or failed, before there is a
socket or when `::connect` refuses, which leaves the descriptor open without an
event (`unconnected`); `ErrorEvent` and `IoEvent` are
`event` with the callbacks of the stream, `RunDeferred` the three kinds of calls
they and the timer defer. Bytes are numbered, so that the order and loss of
bytes over several connections can be stated.

`LoopbackStreams` conjoins the actions of `ClientStream` with those of the
server: `PeerReads`, `PeerWrites`, `PeerStops`, `PeerRestarts` happen only when
the server does what causes them. `clients` is `mClients`, `removals` the
deferred `remove_client` with, as a ghost, whom it was made for.

### SuplReceive and MessageFifo

A byte is the number of its message and its place in it. The server writes
records of its stream; `socket` holds its bytes and `limits` where the records
end among them. With TLS a record is decrypted as a whole and what does not fit
stays in the backend (`pending`), without it record limits are lost.
`Fill` is the set of outcomes of `fill_receive_buffer`, `Decodable`, `Rest` and
`Consume` are `try_receive` with `parse_receive_buffer` and `rb_consume`,
`HandshakeRead` and `MessageRead` the two states that call them.
`Sends`, `SendsSome` and `SendFails` are `send_all`: while it blocks
(`sending > 0`) nothing else in the program runs, and a server that is itself
blocked in a write does not read. What `on_message` sends in the middle of the loop
of `MessageRead` (`lpp/session.cpp:453`) is taken to be sent after it: the messages
that the loop still has are in the receive buffer, which a send does not touch.
After a handshake that fails the session waits for an error only (`error_only`,
`lpp/session.cpp:378-379`), as it does in `LppSession`.

`MessageFifo` says that messages are handled in order, each once, while the
session is open, and (`Served`) that all are. `Fifo` in `SuplReceive` is the
refinement mapping: sent are the messages of which every byte was written.

### Framing

A byte has a value, as far as a parser looks at it, and the frame and place it
comes from, which only the properties and the checksum (which is perfect) use.
`append` and `skip` are those of the ring buffer, including the read position
that an overflow moves. `UbxParse`, `RtcmParse`, `NmeaParse`, `CtrlParse`,
`AtParse` are one call of `try_parse` each: how much it skips and what it gives.
A stream has frames, frames with an error, and stray bytes; frames may hold
bytes that look like the start of another. A frame without an error need not give
a message: `refused` are those that the parser takes out of the buffer and makes
nothing of (`Decoded`), any of those in the formats where that can happen
(`Refusing`): a UBX message whose decoder refuses the payload
(`ubx/parser.cpp:96-121`), an NMEA sentence whose prefix has not 6 or 8 characters
or that has no data (`nmea/parser.cpp:85-102`), a control line with another command
or other fields (`ctrl/parser.cpp:82-91`). Such a call returns `nullptr`, and
`process_input` ends its loop as if nothing were left. RTCM gives an
`ErrorMessage` instead, and AT every line. Payloads are shorter than the local
buffers that the parsers copy them to, whose sizes are not modelled.

## Runs

Bounds are named constants. A violation run checks one property that states
what a comment, a test or a help text of the repository says, and the finding in
`PROJECT.json` quotes it.

| Run | Shows |
|---|---|
| `lpp_transactions` | all transaction properties: 2 numbers, 3 generations, 2 connections, a queue limit that is reached, pushes under the hack |
| `lpp_session` | all properties of the connection, with and without TLS, many events per wait |
| `lpp_client` | routing, transactions, deferred destruction and cancel agree, without and with the hacks of the sessions; a request whose session has a timer ends, whatever the server does |
| `event_loop` | the pool, the interest list and the handles agree; events and deferred calls find what they were made for; queues and eventfds count alike |
| `loopback_streams` | both streams against each other: order of bytes, registrations, reconnection, removal of clients |
| `supl_receive` | the FIFO, progress, and nothing left in TLS, over every way to cut a stream, with a sender that blocks |
| `framing` | order, completeness and progress of the five parsers |
| `lpp_tx_reach` | a finding about transactions |
| `lpp_session_handshake_close` | a finding about lost connections |
| `lpp_client_untimed` | a finding about requests |
| `client_stream_reconnect` | a finding about reconnection |
| `supl_receive_pending` | a finding about a full receive buffer |

### Why the bounds are enough

* `NumIds = 2` with three generations: every number is given out again while
  its first transaction may be live, which is what 256 numbers do after a wrap.
  Nothing else depends on how many numbers there are; the theorems hold for any
  `NumIds >= 2`. One number of the two has pushes (`PushIds`).
* Two connections: a table, a queue and handles of a first connection meet a
  second. A third meets nothing new, as `cancel` leaves no trace of how many
  there were.
* `QueueLimit` is reached with the messages the bound allows.
* Two descriptors: a new socket may have the number of the old one or another.
* Two periodic sessions: a number is free again while a deferred call still
  names it, and two sessions compete for a transaction.
* `MaxGeneration = 3` in `LppClient`: three transactions, of users and server
  together; as no more requests are made than that, `TimedRequestsEnd` may say that
  again and again none with a timer waits.
* `MaxIncoming = 2`: a message and the one that arrives with it.
* `EventLoop`: a task of each kind; three slots, so that slots are exhausted
  when one waits to be freed; generations begin at 65534, so that they wrap; one
  or two events per wait; `MaxSteps = 5` things that callbacks do in all, which
  is enough to let go of a slot, take it again, and defer in between.
* `LoopbackStreams`: a write buffer of 3 bytes that overflows, a kernel that
  takes 2, two connections, two descriptors.
* `SuplReceive`: messages of 1 and 3 bytes in a buffer of 6, records of up to 3
  bytes: messages span records and reads, records span messages.
  The buffer of the passing run takes what the kernel and the backend can hold
  at once; `SuplReceivePending`, with 4, is the case in which it does not.
* `Framing`: three items of up to five bytes in a ring of 8, so that it wraps and
  overflows; lines of 3, so that some are too long.

Deadlock checking is off where the program really stops: `EventLoop`
(`execute` returns when it is interrupted or has nothing to wait for),
`SuplReceive` (the server has closed) and `Framing` (the stream ends).
Everywhere else users, the peer and the timers can always act.

### Fairness

Safety properties need none. `LppSession` assumes weak fairness of the loop
`process`, of the deferred calls (`process_deferred` runs after every wait), of
the events the system keeps reporting (epoll is level triggered) and of the
program's reconnect timer. `LppClient` assumes it of each timer, of the deferred
calls and of time. `ClientStream` and `LoopbackStreams` assume it of the
schedulers (events, deferred calls), of the reconnect timer and of connections
in progress, which the kernel ends one way or the other. `SuplReceive` assumes
that the scheduler reports a readable socket, that `poll` returns (it has a
timeout), and that a server finishes what it has begun to write as far as the
kernel takes it. Otherwise the server, the network and users are never fair:
they may stop. This is why `CloseIsNoticed` is about a peer that has closed,
`TimedRequestsEnd` about a server that may say nothing, and
`ReconnectsWhenPossible` about a peer that is there to stay.

## What the checks show

Held:

* `LookupSound`, `ServerTransactionsReachable`, `UnreachableOnlyAfterReuse`:
  the table leads a message to its transaction unless a number was reused.
* `NewTransactionsAreFresh`: the generation does what `transaction.hpp` wants
  of it: no handle ever reaches a later transaction.
* `EndedTransactionsAreGone`: nothing follows an end.
* `RegisteredIsOpen`, `InterestsFollowStates`: the deferred registration is
  never about another socket and never lost. `ReconnectIsPossible`,
  `AssertsHold`, `CloseIsNoticed`, `TriesAgain`.
* `RoutesAgree`, `WaitedForIsLive`, `DeallocatesItsOwn`, `CancelStopsSessions`,
  `TimedRequestsEnd`: the facts `lpp::Client` keeps twice agree, and requests
  end.
* `PoolAgrees`, `EventsReachTheirRegistration`: however slots are given up and
  taken again inside a batch, nested loops included, an event reaches only the
  registration it was reported for. `DeferredBeforeWait`,
  `DeferredCancelsFindTheirTask`, `QueueCountsAgree`.
* `StreamFollowsTask`, `BytesInOrder`, `BufferedBytesHaveAnEvent`,
  `ReconnectsWhenPossible`, `RemovalsFindTheirClient`, `GoneClientsAreRemoved`.
* `ImplementsFifo`, `EverythingIsHandled`, `NothingLeftInTls`: the FIFO.
* `PushedInOrder`, `EveryFrameIsAccountedFor`, `NeverStuck`: a frame is given, is
  still there to the last byte, or is refused by its decoder and gone to the last
  byte; otherwise it is lost to the ring buffer, and never to what a parser skips
  for another frame, damaged, refused or given.

What they except, each with a reason in the code:

* `QueueCountsAgree` and a part of `EventsReachTheirRegistration` are about
  configurations in which no loop is nested in a batch of several events
  (`OneBatch`): there, `mEvents` is shared, events are processed twice, and a
  queue that is called with nothing to read pops an undefined number of
  elements. The default, one event per wait, is in.
* `DeferredCancelsFindTheirTask` is about one event per wait: with more, the
  next event may replace the `TimeoutTask` that a deferred call names.
* `BufferedBytesHaveAnEvent` is about the first connection: `on_disconnected`
  leaves `mWriteBuffer` and `mWriteRegistered` as they are, and the next
  connection begins without the interest.
* `ReconnectsWhenPossible` excepts a `connect` that fails outright, the subject
  of a finding.
* `EverythingIsHandled` excepts a message that cannot be decoded: it stays at
  the front of the buffer.
* `NeverStuck` excepts UBX and RTCM candidates that claim more bytes than there
  are yet; `EveryFrameIsAccountedFor` counts, in the formats of lines, what
  comes after bytes that were overwritten as lost up to the end of its line.
  It does not promise that a frame without an error gives a message: one that is
  refused (`ubx/parser.cpp:96-121`, `nmea/parser.cpp:85-102`, `ctrl/parser.cpp:82-91`)
  is gone without one. Nor do these properties say when a frame is given: those
  behind a damaged or refused one wait for the next read, because the loop of
  `process_input` ends at the first call that gives nothing.
* `DeallocatesItsOwn` excepts a request that the user makes in `on_disconnected`
  while a deferred deallocation is still to run. `Client::cancel` empties the
  table of sessions, so the number of the session that deferred it may be given
  to the new request, which the deallocation would then destroy. The users of
  that callback in the repository make no request in it: the client program sets
  flags (`main.cpp:205-214`), `AGnssProcessor` defers the end of its client
  (`agnss.cpp:99-104`).

Disagreements between code and comments, each with a run:

1. `allocate_transaction` consults a set that is never filled, so live numbers
   are reused (`lpp_tx_reach`).
2. A close during the handshake is never noticed
   (`lpp_session_handshake_close`).
3. Sessions made on a scheduled client have no timer, so their requests never
   time out (`lpp_client_untimed`). In the client program that is every
   periodic request.
4. After a `connect` that fails outright, every retry is refused for the state
   that failure left (`client_stream_reconnect`).
5. `fill_receive_buffer` stops at a full buffer although TLS holds plaintext
   that epoll will not report (`supl_receive_pending`).

What else the code does that a reader may not expect, and that the modules
contain without a property of its own: `send_with_end` and `abort` send on a
transaction that the server alone has ended, if one side cannot end it
(`Sendable` looks at the client's end only), although `session.hpp:130-136` has
them sent only while the transaction is alive by both parties; `send_with_end`
when it fails leaves the flag that ends the transaction at the next plain send
(`Asking`); messages go out during the SUPL handshake, before the POSINIT
(`Accepted`); a connection given up after a failed send is noticed only when
the server says something (`SendFails` of `LppSession`); a request that the
server refuses with an abort or an error ends without its user being told
(`ReceiveOther`); a single request that times out is never aborted, because
`try_destroy` forgets the transaction first (`CheckSingle`). But for the first,
no text of the repository says what should happen: they are the hazards in
`PROJECT.json` that have no property.

## Proofs

Every invariant and action property of the passing runs that is listed here is
a theorem for every value of the constants that satisfies the named assumption
of its module: types, at least two transaction numbers, sizes that are not zero.
What the theorems add to those assumptions is said with them. In each module
`IInv` is the inductive invariant, a lemma for each action (or for each operator
the actions are built from) shows that it is kept, and `SpecIInv` combines them;
each `IInv` was checked by TLC on a run before it was proved.

| Module | Theorems | Property of the runs |
|---|---|---|
| `LppTransactionsProofs` | `TypeCorrect`, `LookupIsSound`, `ServerTransactionsAreReachable`, `HandlesAreNeverRecycled`, `EndIsTheLastWord`, `NothingWaitsOnceEstablished`, `OnlyReuseUnreaches`, `TransactionsImplementLink` | all of `lpp_transactions` |
| `LppSessionProofs` | `TypeCorrect`, `RegistrationFollowsTheSocket`, `RegistrationFollowsTheStates`, `TheProgramCanReconnect`, `TheAssertionsHold`, `SessionImplementsLink` | the safety of `lpp_session` |
| `LppClientProofs` | `TypeCorrect`, `TheRoutesAgree`, `NobodyWaitsForTheDead`, `DeallocationsFindTheirOwn`, `CancelStopsAllSessions` | the safety of `lpp_client` |
| `EventLoopProofs` | `TypeCorrect`, `ThePoolAgrees`, `DeferredRunsBeforeTheWait`, `CancelsFindTheirTask`, `EventsFindTheirRegistration`, `QueuesAndEventsAgree` | the safety of `event_loop` |
| `StreamsProofs` | `StreamAndTaskAgree`, `BytesKeepTheirOrder`, `BufferedBytesAreDrained` | those of the client's stream, with any peer |
| | `RemovalsNameTheirClient`, `LoopStreamAndTaskAgree`, `LoopBytesKeepTheirOrder`, `LoopBufferedBytesAreDrained` | the safety of `loopback_streams` |
| `SuplReceiveProofs` | `SuplReceiveImplementsFifo` | `ImplementsFifo` of `supl_receive` |
| `FramingProofs` | `StreamStaysSound`, `FramesAreGivenInOrder`, `FramesAreAccountedFor`, `ParsersMoveOn` | all of `framing` |

### LppTransactions

No invariant of the run is inductive alone; `IInv` is their conjunction with
three more facts.

* Every handle that a user, a message or the table holds is older than the
  generation counter (`HeldInv`). Without this a new handle could be equal to
  an old one, and `NewTransactionsAreFresh` and `EndedTransactionsAreGone`
  would not survive `Create`, `Deliver` and `Resolve`.
* Messages are about handles that were held (`MessagesOK`), so that a message
  with an end stays about a transaction that is gone.
* The payload being processed has a handle that was held (`CurrentInv`), which
  is what `Delivered` needs after users have run in `on_message`.

The proof goes through the table: a lemma of `LppTableProofs` for each of
`AddTransaction`, `RemoveTransaction`, `ServerEnd`, `ClientEnd`,
`CreateTransaction` and `Resolve` says what it does to types, soundness and
reachability; then one step per action of `Next`.

### LppSession

The properties speak of moments (the session is idle, calls are deferred, the
program reconnects), so none says enough between them. `IInv` says in which of
five phases the session is, `Down`, `Starting`, `Running`, `Waiting` or
`Leaving`, and what then holds of all of `state`, `supl`, `task`, the next states
and the deferred calls; in particular that an `update` that is deferred has the
descriptor of the socket that is open, although it captured it by value, because
no step closes the socket while one is deferred. `Filled` is what
`SSL_read` leaves of the records, a function defined by recursion; `PlainType`
proves by induction that it is a sequence of messages.

### LppClient

`RoutesAgree` and `WaitedForIsLive` need each other. A new request must not have
the handle of one that somebody still lists, or the map would lead two sessions
to one transaction; this follows from everything listed being in the table,
whose handles are older than the next generation. And that everything listed is
in the table rests on the maps, by which the end of a transaction finds who
waits for it. `ClientInv` is both, with the shape of the containers;
`DeferredInv` says that the sessions that deferred calls are to destroy are there
and have asked for it, and that no number is given again before those calls are
through. The calls that one handler makes of another are lemmas
about the client as a value, for the handlers call each other in the middle of
a step.

The proof found a fault of the model: of the actions that begin a transaction,
the answer to a request for capabilities alone did not ask whether a number can
be allocated. It has the guard `CanAllocate` now.

### EventLoop

`PoolInv` relates the slots, the interest list, the count and the handles of the
tasks; the lemmas about `RegisterFd` and `Unregister` keep it, whatever callback
runs them. `StackShape` says what may stand on the stack above what.

`EventsFindTheirRegistration` has a hypothesis, `Few == MaxSteps < GenModulus - 1`:
in a run, fewer registrations are made than there are generations. It is
necessary. The generation has 16 bits, `ScheduledEvent` 0 excepted, and after
65535 registrations of a slot between the report of an event and its turn in the
batch the slot has the generation of the event again. In the code nothing
forbids them, but an event of a batch would have to wait for 65535 others to be
made and undone; a batch has at most `EVENT_COUNT` events. The model bounds what
callbacks do in a whole run and not in a batch, so the theorem is about runs of
fewer than 65535 such steps. `EventsInv` counts them: since an event was reported
its slot has had at most as many generations as things were done.

`DeferredCancelsFindTheirTask` is about one event per wait; `CancelsInv` says
why that is enough: the cancel is deferred when the batch has come to its end,
and the calls before it are not callbacks of events.

`QueuesAndEventsAgree` needs more about a batch than that its events reach
their registrations. `CountsInv` says that the callback of a queue is on top of
the stack (it nests no loop), that the size of each queue is its eventfd and the
pops its handler has still to do, and (`Ahead`, `Backed`) that the events of a
batch that are still to come are about different registrations, and that the
eventfd of each that is still one of a queue is not zero: it was not when
`epoll_pwait` reported it, only the event of that registration takes from it, and
a queue has one. `BackedStep` keeps this through callbacks that give up the slot
of a queue and take it again, for which `LiveBefore` shows that a registration
that is alive after a step was alive before it; it has the hypothesis `Few` for
that. `PopsInProgress` is a sum over the stack, a function defined by recursion
over sets of frames; `PopsAreOnTop` unfolds it for the one frame there can be.
The assumption that a task is of one kind (timer, queue or source) is the
classes of the code: `CountsInv` would fail for a queue that is also a source.

### ClientStream and LoopbackStreams

`IInv` has the phase of the task (`Idle`, `Connecting`, `Online`) with what then
holds of event, socket and stream; the order of the bytes in the socket and the
write buffer, each `Between` what the peer has and what was written, and one
before the other; and for the first connection that `mWriteRegistered`, the
interest and the write buffer agree. The peer is any peer: what `PeerReads`,
`PeerWrites` and the rest may do is all that is assumed of it.

A step of `LoopbackStreams` is one of `ClientStream`, one of the server alone,
or a removal that breaks a connection, which is no step of `ClientStream`: so the
theorems are proved again for `LoopSpec`, with the lemmas of
`ClientStream` and one for the removal. `ServerInv` says that each client
has a descriptor of its own and that the removals deferred match the clients
that have gone.

### SuplReceive

`ImplementsFifo` speaks of messages, the session sees bytes, and where a message
ends in its buffer depends on everything the server, the network and TLS did.
`IInv` puts the bytes that `mReceiveBuffer`, the TLS backend, the kernel and the
server hold into one line, and says that the line is what the server's stream
has left after the messages handled: every byte of every later message, once,
in order (`Remainder`). Then

* a write of the server and `fill_receive_buffer` only move a boundary in the
  line (`FillFacts`), whatever a read finds and whatever fits;
* the buffer begins with the first byte of the next message (`FirstByte`), with
  the end of a message it holds all before it (`EarlierMessages`), so that what
  `parse_receive_buffer` gives has no gap (`LoopFollow`, `FirstFollow`, `WithoutGap`);
* what is left after the last message given is again a line that begins with the
  next (`AfterMessage`), and the server has written what was given, for the
  byte it writes next comes later in the line.

The step to `Fifo!Handle` needs that the messages of an interval, in order, are
its numbers (`InOrderOfInterval`). The proof needs nothing of the
sizes: the buffer may be smaller than a message (then nothing is ever given).

### Framing

Again a line of bytes: what the ring buffer holds and what has not been read.
`process_input` only ever takes a piece out of it (`Cut`). `append` takes one from
the front, when the oldest bytes make room, or from the middle, when a read is
larger than the ring (`AppendTakes`); a parser takes what it skips (`ParseKeeps`).
`IInv` says of that line

* what no cut can change: the bytes of frames are in order, neighbours in a frame
  are neighbours in the line, and each has the value of its place (`Sound`, kept by
  `CutSound`), and the frames given come before them (`After`);
* and for each frame that is neither given nor lost that it is `Whole` in the line
  and, in the formats of lines, at the beginning of one (`StartsLine`); or that
  it is one of `refused` and no byte of it is left (`Absent`), for what is gone does
  not come back.

The second part is the hard one. For each format there is a lemma (`UbxCall`,
`RtcmCall`, `NmeaCall`, `CtrlCall`, `AtCall`) about one call of `try_parse` on any
buffer: it gives a frame that begins in the bytes it skips, skips a refused one
whole or not at all (`Refuses`), and skips no byte of another that is whole, however the bytes before it look. For AT it must not
skip one byte of the end of line before a frame either, which is why `StartsLine`
says that both bytes of it are there. `LosesOnlyLost` shows that a cut made by
`append` costs only the frames that `lost` names. The loop, a function defined by
recursion, is `ParseInvariant`: what one turn keeps, the loop keeps
(`Recursion` shows that there is such a function). `StreamGood` shows the invariant
of every stream of items, through the places where they begin (`Places`).

`FramesAreAccountedFor` has the hypothesis `LinesFit`: in the formats `ctrl` and
`at` a frame ends within the bound up to which the end of a line is looked for
(128 bytes, AT 120). It is necessary: a longer line is skipped in pieces, by the
code as by the model. The order of frames and `NeverStuck` hold without it.
Nothing is assumed of the sizes of ring and stream, nor of the reads.

### Only model-checked

* Liveness under fairness (`CloseIsNoticed`, `TriesAgain`, `TimedRequestsEnd`,
  `ReconnectsWhenPossible`, `GoneClientsAreRemoved`, `EverythingIsHandled`): the
  prover does not handle ENABLED.
* `NothingLeftInTls` holds because of the sizes of the run: with a smaller
  buffer it is a finding (`supl_receive_pending`).
* The properties of the violation runs, which are false.

## Not modelled, and why

* Encoding and decoding (ASN.1, generated code), TLS itself, DNS: each is an
  operation that succeeds, fails or has to wait.
* Each module takes what lies below it at its word: `LppSession` has whole
  messages, which `SuplReceive` justifies, and a `register_fd` that succeeds;
  `EventLoop` shows what a failing `register_fd` leaves in the pool, not what
  each caller makes of it.
* Time: a timer may fire at any moment, a request may grow old at any moment.
  `execute_timeout` and `execute_while` are the same loop with another reason to
  end.
* Of `io`: UDP, serial, pty and file streams (the same registration and reading
  without a connection), and the read timeout of streams.
* Numerical code, tables and formatting (generators, coordinates, ephemeris, ...):
  no state that interacts. They are most of the lines of the repository.
* `modem` and the other programs: front ends over the same libraries. The lines
  the modem reads are those of the AT parser in `Framing`; its loop over callbacks
  and lines, which does not return while an answer is incomplete, is in the plan.
* `Client::~Client` (the client of the program lives as long as the program; that of
  `AGnssProcessor` is in the plan), pushes under the hack as `LppClient` sees them,
  and the contents of messages.
* The end of line `mLfOnly` of NMEA, and the timestamps that parsers attach.

## Plan

Done: all modules above; the theorems above.

Next, in this order:

1. The destructor of `lpp::Client` in `LppClient`, for a user that destroys its
   client in a deferred call (`AGnssProcessor`).
2. `Modem`, and the NTRIP source of the client program with its repeating timers.
3. An abstract specification of assistance requests (waiting, answered, failed
   or dropped, and told about once) that `LppClient` implements.

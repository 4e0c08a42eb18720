----------------------------- MODULE ClientStream -----------------------------
(***************************************************************************)
(* io::TcpClientStream with its WriteBuffer, over                          *)
(* scheduler::TcpConnectTask with its reconnect timer, against a kernel    *)
(* socket and a peer that comes and goes.                                  *)
(*                                                                         *)
(* Bytes are numbers, in the order in which the program writes them.  The  *)
(* calls that event handlers defer run before the next event of this       *)
(* socket; other tasks may write to the stream in between.  register_fd is *)
(* taken to succeed.                                                       *)
(***************************************************************************)
EXTENDS Integers, Sequences

CONSTANTS
    BufferSize,     \* mMaxSize of the WriteBuffer
    SocketSize,     \* what the kernel takes from us before the peer reads
    Lengths,        \* lengths of what the program writes
    MaxBytes,       \* bound: bytes the program writes in all
    MaxConnections  \* bound: connections the peer accepts, and that it drops

ASSUME ClientStreamAssumption ==
    /\ BufferSize \in Nat \ {0} /\ SocketSize \in Nat \ {0}
    /\ Lengths \subseteq Nat \ {0}
    /\ MaxBytes \in Nat /\ MaxConnections \in Nat

VARIABLES
    config,    \* the options path (a unix socket) and reconnect
    state,     \* TcpConnectTask::mState
    interests, \* what mEvent is registered for; {} when it is invalid
    timer,     \* mReconnectTimeout: off, armed, or expired and not cancelled
    deferred,  \* the calls the task has deferred
    stream,    \* Stream::mState
    buffer,    \* mWriteBuffer
    writing,   \* mWriteRegistered
    socket,    \* the kernel's end of mFd: its state, what the peer has not
               \* read, whether we have something to read
    up,        \* the peer accepts connections
    accepted,  \* connections it has accepted (bounded by MaxConnections)
    written,   \* the last byte the program has written
    got        \* the last byte the peer has read

task == <<state, interests, timer>>
peer == <<up, accepted, got>>
vars == <<config, task, deferred, stream, buffer, writing, socket, peer, written>>

NoSocket == [st |-> "none", out |-> <<>>, readable |-> FALSE]

Always == {"Error", "Hangup"}   \* every registration asks for these

----------------------------------------------------------------------------
(***************************************************************************)
(* TcpConnectTask                                                          *)
(***************************************************************************)

\* TcpConnectTask::connect and what schedule does after it.  It fails before
\* there is a socket (a host is looked up) or ::connect refuses, which leaves
\* the socket open; a path connects at once, a host at once or later.
\* on_connected runs before the event is registered.  A failure arms the timer,
\* or, without reconnect, makes the stream set_error.
Outcomes ==
    IF state \notin {"Unscheduled", "Disconnected"} THEN {"fails"}
    ELSE {"fails", "refused"} \cup
         (IF config.path THEN {} ELSE {"in progress"}) \cup
         (IF up /\ accepted < MaxConnections THEN {"at once"} ELSE {})

Connects(how) ==
    CASE how = "at once" ->
           /\ state' = "Connected"
           /\ stream' = "Connected"
           /\ interests' = Always \cup {"Read"}
           /\ socket' = [NoSocket EXCEPT !.st = "open"]
           /\ accepted' = accepted + 1
           /\ timer' = "off"
      [] how = "in progress" ->
           /\ state' = "Connecting"
           /\ stream' = "Connecting"
           /\ interests' = Always \cup {"Read", "Write"}
           /\ socket' = [NoSocket EXCEPT !.st = "connecting"]
           /\ timer' = "off"
           /\ UNCHANGED accepted
      [] how \in {"fails", "refused"} ->
           /\ state' = "Error"
           /\ stream' = IF config.reconnect THEN "Connecting" ELSE "Error"
           /\ timer' = IF config.reconnect THEN "armed" ELSE "off"
           /\ socket' = IF how = "fails" THEN socket
                        ELSE [NoSocket EXCEPT !.st = "unconnected"]
           /\ UNCHANGED <<interests, accepted>>

Init ==
    /\ config \in [path : BOOLEAN, reconnect : BOOLEAN]
    /\ state = "Unscheduled"
    /\ interests = {}
    /\ timer = "off"
    /\ deferred = <<>>
    /\ stream = "Initial"
    /\ buffer = <<>>
    /\ writing = FALSE
    /\ socket = NoSocket
    /\ up \in BOOLEAN
    /\ accepted = 0
    /\ written = 0
    /\ got = 0

\* TcpClientStream::schedule.
Schedule ==
    /\ stream = "Initial"
    /\ \E how \in Outcomes : Connects(how)
    /\ UNCHANGED <<config, deferred, buffer, writing, up, got, written>>

\* Mutant of the next operator: the descriptor is closed and stays registered.
DisconnectRegistered ==
    IF state \notin {"Connecting", "Connected"}
    THEN UNCHANGED <<task, stream, socket>>
    ELSE /\ state' = "Disconnected"
         /\ socket' = NoSocket
         /\ stream' = IF state # "Connected" THEN stream
                      ELSE IF config.reconnect THEN "Connecting"
                      ELSE "Disconnected"
         /\ UNCHANGED <<interests, timer>>

\* TcpConnectTask::disconnect, deferred by error(); on_disconnected of the
\* stream runs only if there was a connection.
Disconnect ==
    IF state \notin {"Connecting", "Connected"}
    THEN UNCHANGED <<task, stream, socket>>
    ELSE /\ state' = "Disconnected"
         /\ interests' = {}
         /\ socket' = NoSocket
         /\ stream' = IF state # "Connected" THEN stream
                      ELSE IF config.reconnect THEN "Connecting"
                      ELSE "Disconnected"
         /\ UNCHANGED timer

\* What the reconnect timer defers: cancel it, schedule again.  schedule
\* refuses while the task is registered.
Retry ==
    IF interests # {}
    THEN /\ timer' = "off"
         /\ UNCHANGED <<state, interests, stream, socket, accepted>>
    ELSE \E how \in Outcomes : Connects(how)

RunDeferred ==
    /\ deferred # <<>>
    /\ deferred' = Tail(deferred)
    /\ CASE Head(deferred) = "disconnect" -> Disconnect /\ UNCHANGED accepted
         [] Head(deferred) = "retry"      -> Retry
         [] Head(deferred) = "arm"        ->
              /\ timer' = IF timer = "off" THEN "armed" ELSE timer
              /\ UNCHANGED <<state, interests, stream, socket, accepted>>
    /\ UNCHANGED <<config, buffer, writing, up, got, written>>

TimerExpires ==
    /\ timer = "armed" /\ deferred = <<>>
    /\ timer' = "expired"
    /\ deferred' = <<"retry">>
    /\ UNCHANGED <<config, state, interests, stream, buffer, writing, socket,
                   peer, written>>

----------------------------------------------------------------------------
(***************************************************************************)
(* Events of the socket                                                    *)
(***************************************************************************)

\* What epoll reports: a connection that is lost or refused always, a change
\* for which the event is registered otherwise.
Triggered ==
    IF interests = {} THEN {}
    ELSE (IF socket.st \in {"lost", "refused"} THEN {"Hangup"} ELSE {}) \cup
         (IF socket.readable THEN {"Read"} \cap interests ELSE {}) \cup
         (IF socket.st = "open" /\ Len(socket.out) < SocketSize
          THEN {"Write"} \cap interests ELSE {})

\* Mutant of the next action: an error disconnects and arms no timer.
ErrorEventWithoutTimer ==
    /\ deferred = <<>>
    /\ "Hangup" \in Triggered
    /\ deferred' = <<"disconnect">>
    /\ UNCHANGED <<config, task, stream, buffer, writing, socket, peer, written>>

\* TcpConnectTask::error.
ErrorEvent ==
    /\ deferred = <<>>
    /\ "Hangup" \in Triggered
    /\ deferred' = <<"disconnect">> \o
                   (IF config.reconnect /\ timer = "off" THEN <<"arm">> ELSE <<>>)
    /\ UNCHANGED <<config, task, stream, buffer, writing, socket, peer, written>>

\* on_read of the stream.  The connection may have been reset since the event
\* was reported: then the read fails, which is set_error.
AfterRead(lost) ==
    IF lost THEN [NoSocket EXCEPT !.st = "lost"]
    ELSE [socket EXCEPT !.readable = FALSE]

StreamAfterRead(lost) == IF lost THEN "Error" ELSE stream

\* What the kernel takes of bytes.
Taken(bytes) ==
    IF Len(bytes) < SocketSize - Len(socket.out) THEN Len(bytes)
    ELSE SocketSize - Len(socket.out)

\* Mutant of the next operator: a write that takes a part consumes nothing.
DrainWhole ==
    LET n == Taken(buffer)
        left == IF n < Len(buffer) THEN buffer ELSE <<>>
    IN  /\ buffer' = left
        /\ socket' = [AfterRead(FALSE) EXCEPT !.out = @ \o SubSeq(buffer, 1, n)]
        /\ IF left = <<>> /\ writing
           THEN /\ interests' = Always \cup {"Read"}
                /\ writing' = FALSE
           ELSE UNCHANGED <<interests, writing>>

\* Mutant of the next operator: the interest is given up after every write.
DrainOnce ==
    LET n == Taken(buffer)
    IN  /\ buffer' = SubSeq(buffer, n + 1, Len(buffer))
        /\ socket' = [AfterRead(FALSE) EXCEPT !.out = @ \o SubSeq(buffer, 1, n)]
        /\ interests' = Always \cup {"Read"}
        /\ writing' = FALSE

\* on_write of the stream: what the kernel takes leaves the buffer.  When the
\* buffer is empty the interest in writing is given up.
Drain ==
    LET n == Taken(buffer)
        left == SubSeq(buffer, n + 1, Len(buffer))
    IN  /\ buffer' = left
        /\ socket' = [AfterRead(FALSE) EXCEPT !.out = @ \o SubSeq(buffer, 1, n)]
        /\ IF left = <<>> /\ writing
           THEN /\ interests' = Always \cup {"Read"}
                /\ writing' = FALSE
           ELSE UNCHANGED <<interests, writing>>

\* TcpConnectTask::event without an error: on_read, then on_write, or the end
\* of connecting, after which the task asks for reading only.  on_write gives
\* up when the connection is lost.
IoEvent ==
    /\ deferred = <<>>
    /\ Triggered # {} /\ "Hangup" \notin Triggered
    /\ \E lost \in BOOLEAN :
         /\ lost => "Read" \in Triggered /\ accepted < MaxConnections
         /\ IF "Write" \in Triggered /\ state = "Connecting"
            THEN /\ state' = "Connected"
                 /\ stream' = "Connected"
                 /\ interests' = Always \cup {"Read"}
                 /\ socket' = AfterRead(lost)
                 /\ UNCHANGED <<buffer, writing>>
            ELSE IF "Write" \in Triggered /\ ~lost
            THEN /\ Drain
                 /\ UNCHANGED <<state, stream>>
            ELSE /\ stream' = StreamAfterRead(lost)
                 /\ socket' = AfterRead(lost)
                 /\ UNCHANGED <<state, interests, buffer, writing>>
    /\ UNCHANGED <<config, timer, deferred, peer, written>>

----------------------------------------------------------------------------
(***************************************************************************)
(* TcpClientStream::write                                                  *)
(***************************************************************************)

\* WriteBuffer::enqueue keeps the last BufferSize bytes.
Enqueue(b, bytes) ==
    LET all == b \o bytes
    IN  IF Len(all) <= BufferSize THEN all
        ELSE SubSeq(all, Len(all) - BufferSize + 1, Len(all))

\* Written at once as far as the kernel takes it, if nothing waits already;
\* the rest is buffered, and the task asks for writing, unless it has.
Write(length) ==
    /\ written + length <= MaxBytes
    /\ written' = written + length
    /\ LET bytes == [i \in 1..length |-> written + i]
           n == IF buffer = <<>> THEN Taken(bytes) ELSE 0
           rest == SubSeq(bytes, n + 1, length)
       IN  IF stream # "Connected" \/ (buffer = <<>> /\ socket.st = "lost")
           THEN UNCHANGED <<interests, buffer, writing, socket>>
           ELSE /\ socket' = [socket EXCEPT !.out = @ \o SubSeq(bytes, 1, n)]
                /\ IF rest = <<>>
                   THEN UNCHANGED <<interests, buffer, writing>>
                   ELSE /\ buffer' = Enqueue(buffer, rest)
                        /\ writing' = TRUE
                        /\ interests' = IF writing THEN interests
                                        ELSE Always \cup {"Read", "Write"}
    /\ UNCHANGED <<config, state, timer, deferred, stream, peer>>

----------------------------------------------------------------------------
(***************************************************************************)
(* The peer and the network                                                *)
(***************************************************************************)

\* A connection in progress is established or refused.
Establishes ==
    /\ socket.st = "connecting"
    /\ IF up /\ accepted < MaxConnections
       THEN /\ socket' = [socket EXCEPT !.st = "open"]
            /\ accepted' = accepted + 1
       ELSE /\ socket' = [socket EXCEPT !.st = "refused"]
            /\ UNCHANGED accepted
    /\ UNCHANGED <<config, task, deferred, stream, buffer, writing, up, got,
                   written>>

\* The peer closes the connection, stops, or the connection breaks; a peer
\* keeps the last of its MaxConnections.
Lost ==
    /\ socket.st = "open" /\ accepted < MaxConnections
    /\ socket' = [socket EXCEPT !.st = "lost", !.out = <<>>]
    /\ UNCHANGED <<config, task, deferred, stream, buffer, writing, peer, written>>

PeerStops ==
    /\ up
    /\ socket.st = "open" /\ accepted < MaxConnections
    /\ up' = FALSE
    /\ socket' = [socket EXCEPT !.st = "lost", !.out = <<>>]
    /\ UNCHANGED <<config, task, deferred, stream, buffer, writing, accepted, got,
                   written>>

PeerReads ==
    /\ socket.out # <<>>
    /\ got' = Head(socket.out)
    /\ socket' = [socket EXCEPT !.out = Tail(@)]
    /\ UNCHANGED <<config, task, deferred, stream, buffer, writing, up, accepted,
                   written>>

PeerWrites ==
    /\ socket.st = "open" /\ ~socket.readable
    /\ socket' = [socket EXCEPT !.readable = TRUE]
    /\ UNCHANGED <<config, task, deferred, stream, buffer, writing, peer, written>>

PeerRestarts ==
    /\ up' = ~up
    /\ UNCHANGED <<config, task, deferred, stream, buffer, writing, socket,
                   accepted, got, written>>

Next ==
    \/ Schedule \/ RunDeferred \/ TimerExpires \/ ErrorEvent \/ IoEvent
    \/ \E length \in Lengths : Write(length)
    \/ Establishes \/ Lost \/ PeerReads \/ PeerWrites
    \/ PeerStops \/ PeerRestarts

\* The scheduler processes what is ready, timers expire, a connection in
\* progress comes to an end, and the peer reads what it is sent.
Fairness ==
    /\ WF_vars(Schedule) /\ WF_vars(RunDeferred) /\ WF_vars(TimerExpires)
    /\ WF_vars(ErrorEvent) /\ WF_vars(IoEvent)
    /\ WF_vars(Establishes) /\ WF_vars(PeerReads)

Spec == Init /\ [][Next]_vars
FairSpec == Spec /\ Fairness

----------------------------------------------------------------------------
(***************************************************************************)
(* Properties                                                              *)
(***************************************************************************)
\* A task that is connecting or connected has an event that will tell it how
\* that goes on; no other has one, nor a connection.  The stream takes itself for
\* connected only while the task is.
StreamFollowsTask ==
    /\ state \in {"Connecting", "Connected"} <=> Always \subseteq interests
    /\ state \in {"Connecting", "Connected"} <=> socket.st \notin {"none", "unconnected"}
    /\ state = "Connecting" => "Write" \in interests
    /\ stream = "Connected" => state = "Connected"
    /\ state = "Connected" => stream \in {"Connected", "Error"}

\* What the peer reads, over all connections, is what the program wrote, in
\* its order and no byte twice: bytes may be missing, where a connection was
\* lost or the buffer made room.
Increasing(s) == \A i, j \in DOMAIN s : i < j => s[i] < s[j]

BytesInOrder == Increasing(<<got>> \o socket.out \o buffer)

\* Bytes in the buffer of a connected stream wait for an event that is
\* registered.  (Only in the first connection: on_disconnected leaves the
\* buffer and mWriteRegistered as they are.)
BufferedBytesHaveAnEvent ==
    state = "Connected" /\ accepted = 1 =>
        (buffer # <<>> => "Write" \in interests)

\* A stream that reconnects is connected again once the peer is there to stay,
\* unless connect() has failed outright.
ReconnectsWhenPossible ==
    <>[](config.reconnect /\ up /\ state # "Error") => []<>(state = "Connected")

\* reconnect=true, as its users read it: the stream is connected again once
\* the peer is there to stay.
ReconnectsOnceReachable ==
    <>[](config.reconnect /\ up) => []<>(state = "Connected")

==============================================================================

------------------------------ MODULE SuplReceive ------------------------------
(***************************************************************************)
(* How a supl::Session that is connected receives: the kernel's buffer,    *)
(* the TLS backend, mReceiveBuffer, the decoder, and the two states of     *)
(* lpp::Session that read, SuplHandshakeRecv and MESSAGE.  And how it      *)
(* sends meanwhile: send_all blocks the scheduler.                         *)
(*                                                                         *)
(* A byte of the server's stream is <<message, position>>.  The server     *)
(* writes its stream in records; over plain TCP their limits are lost.     *)
(***************************************************************************)
EXTENDS Integers, Sequences, FiniteSets, SequencesExt, FiniteSetsExt, Functions

CONSTANTS
    BufferSize,   \* mReceiveBufferSize
    Lengths,      \* lengths of messages
    Kinds,        \* kinds of messages
    RecordSize,   \* what the server writes at once, at most
    SocketSize,   \* what the kernel holds, in each direction
    MaxMessages,  \* bound: messages of the server
    MaxSends      \* bound: messages of the client

ASSUME SuplReceiveAssumption ==
    /\ BufferSize \in Nat /\ Lengths \subseteq Nat \ {0}
    /\ Kinds \subseteq {"RESPONSE", "POS", "END", "foreign", "other", "malformed"}
    /\ RecordSize \in Nat \ {0} /\ SocketSize \in Nat \ {0}
    /\ MaxMessages \in Nat /\ MaxSends \in Nat

VARIABLES
    tls,      \* the connection uses TLS
    messages, \* what the server sends, and has begun to send
    outbox,   \* bytes the server has not written yet
    socket,   \* bytes in the kernel, to be read by the client
    limits,   \* where records end among them
    closed,   \* the server has closed its end
    pending,  \* plaintext that the TLS backend holds
    buffer,   \* mReceiveBuffer, up to mReceiveBufferOffset
    handled,  \* messages decoded
    phase,    \* the state of lpp::Session: handshake, message, disconnected, or
              \* error_only, in which it waits for an error and reads no more
    connected,\* TcpClient::is_connected
    sending,  \* bytes left of the message in send_all
    sends,    \* messages sent (bounded by MaxSends)
    wire      \* bytes the kernel holds for the server

server == <<messages, outbox, closed>>
sender == <<sending, sends, wire>>
kernel == <<socket, limits>>
vars == <<tls, server, kernel, pending, buffer, handled, phase, connected, sender>>

Init ==
    /\ tls \in BOOLEAN
    /\ messages = <<>> /\ outbox = <<>> /\ closed = FALSE
    /\ socket = <<>> /\ limits = {}
    /\ pending = <<>> /\ buffer = <<>> /\ handled = <<>>
    /\ phase = "handshake" /\ connected = TRUE
    /\ sending = 0 /\ sends = 0 /\ wire = 0

\* The session reads no more.
Ended == {"disconnected", "error_only"}

Least(a, b) == IF a < b THEN a ELSE b

----------------------------------------------------------------------------
(***************************************************************************)
(* The server and the network                                              *)
(***************************************************************************)

\* A server answers START with one message, and goes on after the POSINIT.
ServerSends ==
    /\ ~closed
    /\ Len(messages) < (IF phase = "message" THEN MaxMessages ELSE 1)
    /\ \E kind \in Kinds, len \in Lengths :
         /\ messages' = Append(messages, [kind |-> kind, len |-> len])
         /\ outbox' = outbox \o [k \in 1..len |-> <<Len(messages) + 1, k>>]
    /\ UNCHANGED <<tls, kernel, closed, pending, buffer, handled, phase, connected,
                   sender>>

\* A server that is in the middle of writing does not read.
ServerWrites ==
    /\ ~closed
    /\ \E n \in 1..Least(RecordSize, Least(Len(outbox), SocketSize - Len(socket))) :
         /\ socket' = socket \o SubSeq(outbox, 1, n)
         /\ limits' = (IF tls THEN limits ELSE {}) \cup {Len(socket) + n}
         /\ outbox' = SubSeq(outbox, n + 1, Len(outbox))
    /\ UNCHANGED <<tls, messages, closed, pending, buffer, handled, phase, connected,
                   sender>>

ServerReads ==
    /\ wire > 0 /\ outbox = <<>>
    /\ wire' = wire - 1
    /\ UNCHANGED <<tls, server, kernel, pending, buffer, handled, phase, connected,
                   sending, sends>>

ServerCloses ==
    /\ ~closed
    /\ closed' = TRUE
    /\ UNCHANGED <<tls, messages, outbox, kernel, pending, buffer, handled, phase,
                   connected, sender>>

----------------------------------------------------------------------------
(***************************************************************************)
(* fill_receive_buffer                                                     *)
(***************************************************************************)

\* What a read may find: what the TLS backend holds, or what it decrypts, one
\* record or several; the kernel's bytes without TLS.
Found ==
    IF pending # <<>> THEN {[data |-> pending, left |-> socket, limits |-> limits]}
    ELSE {[data |-> SubSeq(socket, 1, k),
           left |-> SubSeq(socket, k + 1, Len(socket)),
           limits |-> {l - k : l \in {x \in limits : x > k}}] : k \in limits}

Room == BufferSize - Len(buffer)

Filled(found, n) ==
    LET rest == SubSeq(found.data, n + 1, Len(found.data))
    IN  [buffer  |-> buffer \o SubSeq(found.data, 1, n),
         pending |-> IF tls THEN rest ELSE <<>>,
         socket  |-> IF tls THEN found.left ELSE rest \o found.left,
         limits  |-> IF tls \/ rest = <<>> THEN found.limits ELSE {Len(rest)}]

\* Mutant of the next operator: a single read of a fixed size.
FillOnce ==
    IF Room = 0 \/ Found = {}
    THEN {[buffer |-> buffer, pending |-> pending, socket |-> socket, limits |-> limits]}
    ELSE {Filled(found, Least(1, Len(found.data))) : found \in Found}

\* Reads until the buffer is full or the backend holds nothing more.  What is
\* left over stays in the backend, or, without TLS, in the kernel.
Fill ==
    IF Room = 0 \/ Found = {}
    THEN {[buffer |-> buffer, pending |-> pending, socket |-> socket, limits |-> limits]}
    ELSE {Filled(found, Least(Room, Len(found.data))) : found \in Found}

\* It fails when the client has given up the connection, or the server has
\* closed it and there is nothing more to read.
FillFails ==
    \/ ~connected
    \/ Room > 0 /\ Found = {} /\ closed

----------------------------------------------------------------------------
(***************************************************************************)
(* try_receive                                                             *)
(***************************************************************************)

\* Mutant of the next operator: the last message stays in the buffer.
ConsumeNone(b, n) == IF n >= Len(b) THEN b ELSE SubSeq(b, n + 1, Len(b))

\* rb_consume.
Consume(b, n) == IF n >= Len(b) THEN <<>> ELSE SubSeq(b, n + 1, Len(b))

\* The messages that the decoder finds in the buffer, call after call: those
\* that are there to the last byte, up to one on which it fails, for then it
\* consumes nothing.
Decodable(b) ==
    IF b = <<>> \/ b[1][2] # 1 THEN {}
    ELSE {m \in b[1][1]..Len(messages) :
            /\ <<m, messages[m].len>> \in Range(b)
            /\ \A j \in b[1][1]..m : messages[j].kind # "malformed"}

\* What calls that give the messages up to last leave in the buffer.
Rest(b, last) ==
    Consume(b, CHOOSE k \in DOMAIN b : b[k] = <<last, messages[last].len>>)

\* A message that ends the session: an END, or one of another session.
Ending(m) == messages[m].kind \in {"END", "foreign"}

\* Mutant of the next operator: a single call.
LoopOnce(b) == IF Decodable(b) = {} THEN {} ELSE {Min(Decodable(b))}

\* The loop of state_message: until there is no message, or one that ends.
Loop(b) ==
    {m \in Decodable(b) : \A j \in b[1][1]..(m - 1) : ~Ending(j)}

----------------------------------------------------------------------------
(***************************************************************************)
(* The session                                                             *)
(***************************************************************************)

\* The messages ms in the order in which the calls give them.
InOrder(ms) ==
    CHOOSE q \in [1..Cardinality(ms) -> ms] :
        \A i, j \in DOMAIN q : i < j => q[i] < q[j]

\* One read of the socket: what is received, then the messages it gives.
Reads(Given(_), Goes(_), failed) ==
    /\ sending = 0
    /\ IF FillFails
       THEN /\ phase' = failed
            /\ UNCHANGED <<kernel, pending, buffer, handled>>
       ELSE \E filled \in Fill :
              LET given == Given(filled.buffer)
              IN  /\ pending' = filled.pending
                  /\ socket' = filled.socket
                  /\ limits' = filled.limits
                  /\ IF given = {}
                     THEN /\ buffer' = filled.buffer
                          /\ UNCHANGED <<handled, phase>>
                     ELSE /\ buffer' = Rest(filled.buffer, Max(given))
                          /\ handled' = handled \o InOrder(given)
                          /\ phase' = Goes(Max(given))
    /\ UNCHANGED <<tls, server, connected, sender>>

\* state_handshake_recv: one message, which must be a RESPONSE.  After anything
\* else, and after a read that fails, it waits for an error.
HandshakeRead ==
    /\ phase = "handshake"
    /\ Reads(LAMBDA b : Decodable(b) \cap {b[k][1] : k \in DOMAIN b \cap {1}},
             LAMBDA m : IF messages[m].kind = "RESPONSE" THEN "message"
                        ELSE "error_only",
             "error_only")

\* state_message: all there are.  What is not a POS is skipped.
MessageRead ==
    /\ phase = "message"
    /\ Reads(Loop, LAMBDA m : IF Ending(m) THEN "disconnected" ELSE phase,
             "disconnected")

\* The scheduler reports the socket while there is something to read in the
\* kernel; it may also report a record that is not complete yet.
Readable == socket # <<>> \/ closed

ReadEvent ==
    /\ Readable
    /\ HandshakeRead \/ MessageRead

EarlyEvent ==
    /\ ~Readable
    /\ HandshakeRead \/ MessageRead

\* Session::send and send_all: what the kernel takes goes out, and poll waits
\* until it takes more.
Sends ==
    /\ phase = "message" /\ connected
    /\ sending = 0 /\ sends < MaxSends
    /\ \E len \in Lengths : sending' = len
    /\ sends' = sends + 1
    /\ UNCHANGED <<tls, server, kernel, pending, buffer, handled, phase, connected,
                   wire>>

SendsSome ==
    /\ sending > 0 /\ wire < SocketSize
    /\ LET n == Least(sending, SocketSize - wire)
       IN  /\ sending' = sending - n
           /\ wire' = wire + n
    /\ UNCHANGED <<tls, server, kernel, pending, buffer, handled, phase, connected,
                   sends>>

\* poll times out, or reports that the connection is gone: the message stays
\* cut, and the client gives up the connection.
SendFails ==
    /\ sending > 0
    /\ wire = SocketSize \/ closed
    /\ sending' = 0
    /\ connected' = FALSE
    /\ UNCHANGED <<tls, server, kernel, pending, buffer, handled, phase, sends, wire>>

Next ==
    \/ ServerSends \/ ServerWrites \/ ServerReads \/ ServerCloses
    \/ ReadEvent \/ EarlyEvent
    \/ Sends \/ SendsSome \/ SendFails

\* The server writes what it has begun to, as far as the kernel takes it; the
\* scheduler reports what is ready; poll returns.
Fairness ==
    /\ WF_vars(ServerWrites)
    /\ WF_vars(ReadEvent)
    /\ WF_vars(SendsSome \/ SendFails)

Spec == Init /\ [][Next]_vars /\ Fairness

----------------------------------------------------------------------------
(***************************************************************************)
(* Properties                                                              *)
(***************************************************************************)
\* What the server has sent: the messages of which it has written every byte.
Sent ==
    SubSeq([k \in DOMAIN messages |-> k], 1,
           IF outbox = <<>> THEN Len(messages) ELSE Head(outbox)[1] - 1)

Fifo == INSTANCE MessageFifo
        WITH sent <- Sent, open <- phase \notin Ended

\* Messages are handled in order, each once, however the stream is cut into
\* records and reads.
ImplementsFifo == Fifo!Spec

\* What the server has sent is handled, unless the session ends, or a message
\* cannot be decoded (it stays in the buffer, and all that follows behind it):
\* no byte stays where no event will report it, and a sender that is blocked
\* does not block the session for ever.
EverythingIsHandled ==
    \/ Fifo!Served
    \/ <>(\E m \in DOMAIN messages : messages[m].kind = "malformed")

\* When the session waits for the socket, the TLS backend holds nothing that it
\* will not be told of.
NothingLeftInTls ==
    phase \notin Ended /\ connected /\ ~Readable => pending = <<>>

==============================================================================

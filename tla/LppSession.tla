----------------------------- MODULE LppSession -----------------------------
(***************************************************************************)
(* The connection state machine of lpp::Session, with the supl::Session    *)
(* and TcpClient under it, the SessionTask that registers its socket with  *)
(* the scheduler through deferred calls, and, above it, the part of        *)
(* lpp::Client and of the client program that tears a lost connection down *)
(* and makes the next one.                                                 *)
(*                                                                         *)
(* Everything runs on the thread of the scheduler.  Session::process is a  *)
(* loop over the state functions: one action per state function, enabled   *)
(* only while the loop runs (pc), and nothing else runs meanwhile.         *)
(***************************************************************************)
EXTENDS Integers, Sequences

CONSTANTS
    Fds,         \* descriptor numbers the system may give to a socket
    ManyEvents,  \* max_events_per_wait is larger than its default 1
    MaxIncoming  \* bound: SUPL messages under way from the server

ASSUME SessionAssumption ==
    /\ Fds \subseteq Nat
    /\ ManyEvents \in BOOLEAN
    /\ MaxIncoming \in Nat

VARIABLES
    tls,      \* TlsConfig::enabled, as the program was configured
    state,    \* mState
    nexts,    \* mNextReadState, mNextWriteState, mNextErrorState
    supl,     \* *mSession: state, state and descriptor of its TcpClient,
              \* receive buffer
    task,     \* mTask
    attached, \* mScheduler is set, in the session and in the client
    deferred, \* Scheduler::mDeferredCallbacks, and those being run
    running,  \* Scheduler::process_deferred has begun with them
    pc,       \* where Session::process is: not running, in its loop, in the
              \* loop of state_message
    disconnected, \* Program::is_disconnected (TRUE before the first schedule)
    peer,     \* the other end of the TCP connection
    incoming  \* what it has sent and nobody has read

vars == <<tls, state, nexts, supl, task, attached, deferred, running, pc,
          disconnected, peer, incoming>>
net  == <<peer, incoming>>
app  == <<tls, attached, disconnected, running>>

States == {"UNKNOWN", "CONNECT", "CONNECTING", "CONNECTED", "ConnectionFailed",
           "DISCONNECTED", "SuplHandshakeSend", "SuplHandshakeRecv",
           "SuplPosinit", "ESTABLISHED", "MESSAGE", "ERROR", "EXIT"}

\* What the server sends: SUPL messages, or records of the TLS handshake.  END
\* stands for any message that ends the session, RESPONSE outside the
\* handshake for any that is not expected.
Pdus == {"RESPONSE", "POS", "END", "TLS"}

NoSupl == [st |-> "null", tcp |-> "none", fd |-> -1, buffer |-> <<>>]
NoTask == [fd |-> -1, scheduled |-> FALSE,
           read |-> FALSE, write |-> FALSE, error |-> FALSE]
NoNexts == [read |-> "UNKNOWN", write |-> "UNKNOWN", error |-> "UNKNOWN"]

\* The deferred calls: of SessionTask::update with its arguments, and of the
\* one lpp::Client makes in on_disconnected.
Update(fd, n) == [call |-> "update", fd |-> fd,
                  read  |-> n.read # "UNKNOWN",
                  write |-> n.write # "UNKNOWN",
                  error |-> n.error # "UNKNOWN"]
Teardown == [call |-> "teardown", fd |-> -1,
             read |-> FALSE, write |-> FALSE, error |-> FALSE]

----------------------------------------------------------------------------
(***************************************************************************)
(* What the state functions share.                                         *)
(***************************************************************************)

\* A result with a next state: the loop goes on.
Goto(s) ==
    /\ state' = s
    /\ pc' = "process"
    /\ UNCHANGED <<nexts, deferred>>

\* A result that waits for events: the states to go to are remembered, the
\* registration of the socket is deferred, the loop is left.  s is the
\* supl::Session as the state function leaves it.  The state does not change,
\* except on the path "invalid supl session".
Wait(s, n) ==
    /\ pc' = "idle"
    /\ IF s.fd = -1 \/ s.st = "DISCONNECTED" \/ ~attached
       THEN /\ state' = "DISCONNECTED"
            /\ UNCHANGED <<nexts, deferred>>
       ELSE /\ nexts' = n
            /\ deferred' = Append(deferred, Update(s.fd, n))
            /\ UNCHANGED state

\* supl::Session::send can succeed.
CanSend == supl.tcp = "CONNECTED" /\ peer # "reset"

CutUnknown(s) ==                                                   \* mutant
    [s EXCEPT !.tcp = IF @ = "none" THEN @ ELSE "UNKNOWN"]

\* supl::Session::disconnect, that is TcpClient::disconnect: the socket stays
\* open and registered, and supl::Session::mState as it was.
Cut(s) == [s EXCEPT !.tcp = IF @ = "none" THEN @ ELSE "DISCONNECTED"]

\* supl::Session::fill_receive_buffer: fails, or what it leaves buffered.  A
\* record of TLS itself carries no data.
Plain ==
    LET kept[i \in 0 .. Len(incoming)] ==
            IF i = 0 THEN <<>>
            ELSE IF incoming[i] = "TLS" THEN kept[i - 1]
            ELSE Append(kept[i - 1], incoming[i])
    IN  kept[Len(incoming)]
Fills  == supl.tcp = "CONNECTED" /\ (Plain # <<>> \/ peer = "open")
Filled == supl.buffer \o Plain

\* Mutant of the next operator: only a new descriptor is registered.
TaskUpdatedOnMove(u) ==
    IF task.fd = u.fd THEN task
    ELSE [fd |-> u.fd, scheduled |-> u.fd # -1,
          read |-> u.read, write |-> u.write, error |-> u.error]

\* SessionTask::update; schedule always gets a slot and a registration.
TaskUpdated(u) ==
    LET moved   == task.fd # u.fd
        changed == \/ task.read # u.read
                   \/ task.write # u.write
                   \/ task.error # u.error
        kept    == task.scheduled /\ ~(task.fd # -1 /\ (moved \/ changed))
    IN  [fd |-> u.fd, read |-> u.read, write |-> u.write, error |-> u.error,
         scheduled |-> kept \/ (u.fd # -1 /\ (moved \/ changed))]

----------------------------------------------------------------------------

Init ==
    /\ tls \in BOOLEAN
    /\ state = "UNKNOWN"
    /\ nexts = NoNexts
    /\ supl = NoSupl
    /\ task = NoTask
    /\ attached = FALSE
    /\ deferred = <<>>
    /\ running = FALSE
    /\ pc = "idle"
    /\ disconnected = TRUE
    /\ peer = "none"
    /\ incoming = <<>>

In(s) == pc = "process" /\ state = s

\* The scheduler may run a callback of another event before the deferred
\* calls only when it takes several events from one wait.
OtherEvents == pc = "idle" /\ ~running /\ (deferred = <<>> \/ ManyEvents)

\* Client::schedule, at the start of the program and from its reconnect timer:
\* Session::connect, which does nothing in the wrong state, and
\* Session::schedule.
Schedule ==
    /\ OtherEvents
    /\ disconnected
    /\ disconnected' = FALSE
    /\ attached' = TRUE
    /\ state' = IF state \in {"UNKNOWN", "EXIT"} THEN "CONNECT" ELSE state
    /\ pc' = "process"
    /\ UNCHANGED <<tls, nexts, supl, task, deferred, running, net>>

\* state_connect: the socket gets any free number.
StateConnect ==
    /\ In("CONNECT")
    /\ \/ /\ supl # NoSupl
          /\ Goto("DISCONNECTED")
          /\ UNCHANGED <<supl, net>>
       \/ /\ supl = NoSupl
          /\ supl' = [NoSupl EXCEPT !.st = "UNKNOWN"]
          /\ Goto("DISCONNECTED")
          /\ UNCHANGED net
       \/ /\ supl = NoSupl
          /\ \E fd \in Fds :
                supl' = [st |-> "CONNECTING", tcp |-> "CONNECTING",
                         fd |-> fd, buffer |-> <<>>]
          /\ peer' = "syn"
          /\ incoming' = <<>>
          /\ Wait(supl', [read |-> "CONNECTING", write |-> "CONNECTING",
                          error |-> "ERROR"])
    /\ UNCHANGED <<task, app>>

\* Mutant of the next action: a failed connection waits for the error.
StateConnectingWaiting ==
    /\ In("CONNECTING")
    /\ \/ /\ supl.tcp # "CONNECTING" \/ peer = "reset" \/ tls
          /\ supl' = [Cut(supl) EXCEPT !.st = "DISCONNECTED"]
          /\ Wait(supl', [NoNexts EXCEPT !.error = "ConnectionFailed"])
       \/ /\ supl.tcp = "CONNECTING" /\ peer # "reset" /\ ~tls
          /\ supl' = [supl EXCEPT !.st = "CONNECTED", !.tcp = "CONNECTED"]
          /\ Goto("CONNECTED")
    /\ UNCHANGED <<task, app, net>>

\* state_connecting: without TLS the connection is there once the socket is
\* connected; with TLS the handshake reads what the server has sent.
StateConnecting ==
    /\ In("CONNECTING")
    /\ \/ /\ supl.tcp # "CONNECTING" \/ peer = "reset" \/ tls
          /\ supl' = [Cut(supl) EXCEPT !.st = "DISCONNECTED"]
          /\ Goto("ConnectionFailed")
          /\ UNCHANGED incoming
       \/ /\ supl.tcp = "CONNECTING" /\ peer # "reset"
          /\ tls => incoming # <<>> /\ Head(incoming) = "TLS"
          /\ incoming' = IF tls THEN Tail(incoming) ELSE incoming
          /\ supl' = [supl EXCEPT !.st = "CONNECTED", !.tcp = "CONNECTED"]
          /\ Goto("CONNECTED")
       \/ /\ supl.tcp = "CONNECTING" /\ peer = "open" /\ tls
          /\ incoming' = IF incoming # <<>> THEN Tail(incoming) ELSE incoming
          /\ \/ Wait(supl, [NoNexts EXCEPT !.read = "CONNECTING", !.error = "ERROR"])
             \/ Wait(supl, [NoNexts EXCEPT !.write = "CONNECTING", !.error = "ERROR"])
          /\ UNCHANGED supl
    /\ UNCHANGED <<task, app, peer>>

\* state_connection_failed and state_error.
StateFailed ==
    /\ In("ConnectionFailed") \/ In("ERROR")
    /\ Goto("DISCONNECTED")
    /\ UNCHANGED <<supl, task, app, net>>

\* state_connected.
StateConnected ==
    /\ In("CONNECTED")
    /\ Goto("SuplHandshakeSend")
    /\ UNCHANGED <<supl, task, app, net>>

\* state_handshake_send.
StateHandshakeSend ==
    /\ In("SuplHandshakeSend")
    /\ \/ /\ Goto("DISCONNECTED")
          /\ UNCHANGED supl
       \/ /\ supl.st = "CONNECTED" /\ CanSend
          /\ supl' = [supl EXCEPT !.st = "WaitForHandshake"]
          /\ Wait(supl', [NoNexts EXCEPT !.read  = "SuplHandshakeRecv",
                                         !.error = "DISCONNECTED"])
    /\ UNCHANGED <<task, app, net>>

\* state_handshake_recv: on an error the session waits for an error of the
\* socket.
StateHandshakeRecv ==
    LET answer == IF ~Fills \/ supl.st # "WaitForHandshake" THEN "error"
                  ELSE IF Filled = <<>> THEN "nodata"
                  ELSE IF Head(Filled) = "RESPONSE" THEN "response"
                  ELSE "error"
        reads  == Fills /\ supl.st = "WaitForHandshake"
        rest   == IF ~reads THEN supl.buffer
                  ELSE IF Filled = <<>> THEN <<>> ELSE Tail(Filled)
    IN  /\ In("SuplHandshakeRecv")
        /\ incoming' = IF reads THEN <<>> ELSE incoming
        /\ \/ /\ answer = "nodata"
              /\ supl' = [supl EXCEPT !.buffer = rest]
              /\ Wait(supl', [NoNexts EXCEPT !.read  = "SuplHandshakeRecv",
                                             !.error = "DISCONNECTED"])
           \/ /\ answer = "error"
              /\ supl' = [supl EXCEPT !.buffer = rest]
              /\ Wait(supl', [NoNexts EXCEPT !.error = "DISCONNECTED"])
           \/ /\ answer = "response"
              /\ supl' = [supl EXCEPT !.buffer = rest, !.st = "CONNECTED"]
              /\ Goto("SuplPosinit")
        /\ UNCHANGED <<task, app, peer>>

\* state_posinit.
StatePosinit ==
    /\ In("SuplPosinit")
    /\ \/ Goto("DISCONNECTED")
       \/ CanSend /\ Goto("ESTABLISHED")
    /\ UNCHANGED <<supl, task, app, net>>

\* state_established: on_established may send a message, and fail.
StateEstablished ==
    /\ In("ESTABLISHED")
    /\ supl' \in {supl, Cut(supl)}
    /\ Wait(supl', [NoNexts EXCEPT !.read = "MESSAGE", !.error = "DISCONNECTED"])
    /\ UNCHANGED <<task, app, net>>

\* Mutants of the next action: a connection that cannot be read is waited for,
\* or the SUPL handshake is made again.
StateMessageWaiting ==
    /\ In("MESSAGE")
    /\ \/ /\ ~Fills
          /\ Wait(supl, [NoNexts EXCEPT !.error = "DISCONNECTED"])
          /\ UNCHANGED <<supl, incoming>>
       \/ /\ Fills
          /\ supl' = [supl EXCEPT !.buffer = Filled]
          /\ incoming' = <<>>
          /\ pc' = "receive"
          /\ UNCHANGED <<state, nexts, deferred>>
    /\ UNCHANGED <<task, app, peer>>

StateMessageRestarting ==
    /\ In("MESSAGE")
    /\ \/ /\ ~Fills
          /\ Goto("SuplHandshakeSend")
          /\ UNCHANGED <<supl, incoming>>
       \/ /\ Fills
          /\ supl' = [supl EXCEPT !.buffer = Filled]
          /\ incoming' = <<>>
          /\ pc' = "receive"
          /\ UNCHANGED <<state, nexts, deferred>>
    /\ UNCHANGED <<task, app, peer>>

\* state_message, up to its loop.
StateMessage ==
    /\ In("MESSAGE")
    /\ \/ /\ ~Fills
          /\ Goto("DISCONNECTED")
          /\ UNCHANGED <<supl, incoming>>
       \/ /\ Fills
          /\ supl' = [supl EXCEPT !.buffer = Filled]
          /\ incoming' = <<>>
          /\ pc' = "receive"
          /\ UNCHANGED <<state, nexts, deferred>>
    /\ UNCHANGED <<task, app, peer>>

\* One round of the loop of state_message.  The callback on_message of a POS
\* may send a message, and fail.
Receive ==
    /\ pc = "receive"
    /\ \/ /\ supl.tcp # "CONNECTED"
          /\ Goto("DISCONNECTED")
          /\ UNCHANGED supl
       \/ /\ supl.tcp = "CONNECTED" /\ supl.buffer = <<>>
          /\ Wait(supl, [NoNexts EXCEPT !.read = "MESSAGE", !.error = "DISCONNECTED"])
          /\ UNCHANGED supl
       \/ /\ supl.tcp = "CONNECTED" /\ supl.buffer # <<>>
          /\ LET rest == [supl EXCEPT !.buffer = Tail(@)]
             IN  \/ /\ Head(supl.buffer) = "END"
                    /\ supl' = rest
                    /\ Goto("DISCONNECTED")
                 \/ /\ Head(supl.buffer) = "POS"
                    /\ supl' \in {rest, Cut(rest)}
                    /\ UNCHANGED <<state, nexts, deferred, pc>>
                 \/ /\ Head(supl.buffer) \notin {"END", "POS"}
                    /\ supl' = rest
                    /\ UNCHANGED <<state, nexts, deferred, pc>>
    /\ UNCHANGED <<task, app, net>>

\* state_disconnected: the callback of lpp::Client defers the tear-down.
StateDisconnected ==
    /\ In("DISCONNECTED")
    /\ state' = "EXIT"
    /\ deferred' = Append(deferred, Teardown)
    /\ UNCHANGED <<nexts, supl, task, app, pc, net>>

\* The end of the loop: the registration is to be dropped.
StateExit ==
    /\ In("EXIT")
    /\ deferred' = Append(deferred, Update(-1, NoNexts))
    /\ pc' = "idle"
    /\ UNCHANGED <<state, nexts, supl, task, app, net>>

----------------------------------------------------------------------------

\* A deferred SessionTask::update.
RunUpdate ==
    /\ pc = "idle"
    /\ deferred # <<>> /\ Head(deferred).call = "update"
    /\ task' = TaskUpdated(Head(deferred))
    /\ deferred' = Tail(deferred)
    /\ running' = (Tail(deferred) # <<>>)
    /\ UNCHANGED <<tls, state, nexts, supl, attached, pc, disconnected, net>>

\* Mutants of the next action: the task stays registered, or the program is not
\* told.
RunTeardownRegistered ==
    /\ pc = "idle"
    /\ deferred # <<>> /\ Head(deferred).call = "teardown"
    /\ state' = "EXIT"
    /\ supl' = NoSupl
    /\ attached' = FALSE
    /\ disconnected' = TRUE
    /\ peer' = "none"
    /\ incoming' = <<>>
    /\ deferred' = Tail(deferred)
    /\ running' = (Tail(deferred) # <<>>)
    /\ UNCHANGED <<tls, nexts, task, pc>>

RunTeardownUntold ==
    /\ pc = "idle"
    /\ deferred # <<>> /\ Head(deferred).call = "teardown"
    /\ state' = "EXIT"
    /\ task' = [task EXCEPT !.scheduled = FALSE]
    /\ supl' = NoSupl
    /\ attached' = FALSE
    /\ peer' = "none"
    /\ incoming' = <<>>
    /\ deferred' = Tail(deferred)
    /\ running' = (Tail(deferred) # <<>>)
    /\ UNCHANGED <<tls, nexts, disconnected, pc>>

\* The deferred call of lpp::Client: Client::cancel, with Session::cancel,
\* and the callback of the program.
RunTeardown ==
    /\ pc = "idle"
    /\ deferred # <<>> /\ Head(deferred).call = "teardown"
    /\ state' = "EXIT"
    /\ task' = [task EXCEPT !.scheduled = FALSE]
    /\ supl' = NoSupl
    /\ attached' = FALSE
    /\ disconnected' = TRUE
    /\ peer' = "none"
    /\ incoming' = <<>>
    /\ deferred' = Tail(deferred)
    /\ running' = (Tail(deferred) # <<>>)
    /\ UNCHANGED <<tls, nexts, pc>>

\* What the system reports of the socket.
Readable == incoming # <<>> \/ peer \in {"fin", "reset"}
Writable == peer \in {"open", "fin", "reset"}
Failing  == peer = "reset"

\* Mutant of the next operator: what is ready decides, not what is waited for.
EventStateReady ==
    IF Readable THEN nexts.read
    ELSE IF Writable THEN nexts.write
    ELSE nexts.error

\* SessionTask::event: read goes before write and write before error.
EventState ==
    IF task.read /\ Readable THEN nexts.read
    ELSE IF task.write /\ Writable THEN nexts.write
    ELSE nexts.error

SessionEvent ==
    /\ pc = "idle" /\ deferred = <<>>
    /\ task.scheduled
    /\ (task.read /\ Readable) \/ (task.write /\ Writable) \/ Failing
    /\ state' = EventState
    /\ pc' = "process"
    /\ UNCHANGED <<nexts, supl, task, app, deferred, net>>

\* A send of a user outside the callbacks fails.
SendFails ==
    /\ OtherEvents
    /\ supl # NoSupl
    /\ supl' = Cut(supl)
    /\ UNCHANGED <<state, nexts, task, app, deferred, pc, net>>

----------------------------------------------------------------------------
(***************************************************************************)
(* The server and the network.                                             *)
(***************************************************************************)

PeerAccepts ==
    /\ peer = "syn"
    /\ peer' = "open"
    /\ UNCHANGED <<state, nexts, supl, task, app, deferred, pc, incoming>>

PeerSends ==
    /\ peer = "open"
    /\ Len(incoming) < MaxIncoming
    /\ \E m \in Pdus : /\ m = "TLS" <=> tls /\ supl.tcp = "CONNECTING"
                       /\ incoming' = Append(incoming, m)
    /\ UNCHANGED <<state, nexts, supl, task, app, deferred, pc, peer>>

PeerCloses ==
    /\ peer = "open"
    /\ peer' = "fin"
    /\ UNCHANGED <<state, nexts, supl, task, app, deferred, pc, incoming>>

PeerResets ==
    /\ peer \in {"syn", "open", "fin"}
    /\ peer' = "reset"
    /\ UNCHANGED <<state, nexts, supl, task, app, deferred, pc, incoming>>

Process ==
    \/ StateConnect \/ StateConnecting \/ StateFailed \/ StateConnected
    \/ StateHandshakeSend \/ StateHandshakeRecv \/ StatePosinit
    \/ StateEstablished \/ StateMessage \/ Receive \/ StateDisconnected
    \/ StateExit

Peer == PeerAccepts \/ PeerSends \/ PeerCloses \/ PeerResets

Next == \/ Process
        \/ Schedule \/ RunUpdate \/ RunTeardown \/ SessionEvent \/ SendFails
        \/ Peer

\* The scheduler runs what it has been given, reports what the system reports,
\* and its timers fire; users and the server may do nothing at all.
Fairness == /\ WF_vars(Process)
            /\ WF_vars(RunUpdate) /\ WF_vars(RunTeardown)
            /\ WF_vars(SessionEvent)
            /\ WF_vars(Schedule)

Spec == Init /\ [][Next]_vars /\ Fairness

----------------------------------------------------------------------------
(***************************************************************************)
(* Properties.                                                             *)
(***************************************************************************)

Calls == [call : {"update", "teardown"}, fd : Fds \cup {-1},
          read : BOOLEAN, write : BOOLEAN, error : BOOLEAN]
Supls == [st  : {"null", "UNKNOWN", "CONNECTING", "CONNECTED",
                 "WaitForHandshake", "DISCONNECTED"},
          tcp : {"none", "CONNECTING", "CONNECTED", "DISCONNECTED"},
          fd  : Fds \cup {-1}, buffer : Seq(Pdus)]
Tasks == [fd : Fds \cup {-1}, scheduled : BOOLEAN,
          read : BOOLEAN, write : BOOLEAN, error : BOOLEAN]
NextStates == [read : States, write : States, error : States]

\* Every variable has its type.
TypeOK ==
    /\ tls \in BOOLEAN
    /\ state \in States
    /\ nexts \in NextStates
    /\ supl \in Supls
    /\ task \in Tasks
    /\ attached \in BOOLEAN
    /\ deferred \in Seq(Calls)
    /\ running \in BOOLEAN
    /\ pc \in {"idle", "process", "receive"}
    /\ disconnected \in BOOLEAN
    /\ peer \in {"none", "syn", "open", "fin", "reset"}
    /\ incoming \in Seq(Pdus)

\* The socket that is registered is the one that is open: no event of a closed
\* descriptor, or of another socket with its number, reaches the session.
RegisteredIsOpen == task.scheduled => supl # NoSupl /\ task.fd = supl.fd

\* Once the deferred calls have run, a session with a connection waits for
\* exactly the events it has states for, and one without waits for none
\* (SessionTask::update compares with what it believes is registered).
InterestsFollowStates ==
    pc = "idle" /\ deferred = <<>> =>
        task = IF supl = NoSupl THEN NoTask
               ELSE [fd |-> supl.fd, scheduled |-> TRUE,
                     read  |-> nexts.read # "UNKNOWN",
                     write |-> nexts.write # "UNKNOWN",
                     error |-> nexts.error # "UNKNOWN"]

\* When the program reconnects, the session is in a state in which connect
\* works and Client::schedule does not assert; and no session is left in
\* DISCONNECTED, where process stops for an invalid supl session with nobody
\* told and no event to come.
ReconnectIsPossible ==
    /\ disconnected => state \in {"UNKNOWN", "EXIT"} /\ supl = NoSupl /\ ~attached
    /\ pc = "idle" => state # "DISCONNECTED"

\* The assertions of the code hold.  UNREACHABLE in state_unknown: no event is
\* reported for which mNextReadState, mNextWriteState or mNextErrorState holds
\* no state, although they are set at once and the interests only when the
\* deferred update runs.  The ASSERTs on mScheduler in process, Client::cancel
\* and Session::cancel: a tear-down is deferred at most once, while the session
\* is scheduled.
AssertsHold ==
    LET teardowns == {i \in 1 .. Len(deferred) : deferred[i].call = "teardown"}
    IN  /\ pc # "idle" => attached /\ state # "UNKNOWN"
        /\ \A i \in teardowns : attached /\ \A j \in teardowns : i = j

\* The link as the users of the session see it.
link ==
    IF supl = NoSupl THEN "null"
    ELSE IF \/ supl.tcp \in {"none", "DISCONNECTED"}
            \/ state \in {"ConnectionFailed", "ERROR", "DISCONNECTED", "EXIT"}
         THEN "broken"
    ELSE IF supl.tcp = "CONNECTING" THEN "connecting"
    ELSE IF state \in {"ESTABLISHED", "MESSAGE"} THEN "established"
    ELSE "handshake"

Link == INSTANCE LppLink WITH link <- link

\* The connection goes through its phases in order and is torn down before the
\* next one begins: LppSession implements LppLink.
ImplementsLink == Link!Spec

\* A server that closes an established connection is noticed, and the
\* connection is torn down.
CloseIsNoticed ==
    link = "established" /\ peer \in {"fin", "reset"} ~> supl = NoSupl

\* After every tear-down, and after a connection that could not be begun, the
\* program tries again.
TriesAgain == supl = NoSupl ~> supl # NoSupl

\* session.hpp:142-143 "Called when the session is disconnected from the
\* server": whenever the server closes the connection.
AnyCloseIsNoticed == peer = "fin" ~> supl = NoSupl
============================================================================

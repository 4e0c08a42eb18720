-------------------------- MODULE LppSessionProofs --------------------------
(***************************************************************************)
(* Proofs about LppSession, for every set of descriptors, however many     *)
(* events the scheduler takes at once and however much is under way: the   *)
(* session goes round the cycle of the six phases defined below, and every *)
(* property follows from the phase it is in.                               *)
(***************************************************************************)
EXTENDS LppSession, SequenceTheorems, WellFoundedInduction, TLAPS

----------------------------------------------------------------------------
(***************************************************************************)
(* The inductive invariant.                                                *)
(***************************************************************************)

\* What the session can have remembered when it waits in state s, and what
\* the link has then come to: before the connection, in the handshake, after
\* it.
Connecting == {"CONNECT", "CONNECTING"}
Handshake  == {"SuplHandshakeSend", "SuplHandshakeRecv"}
Messages   == {"ESTABLISHED", "MESSAGE"}

WaitsFor(s) ==
    IF s \in Connecting
    THEN [read : {"UNKNOWN", "CONNECTING"}, write : {"UNKNOWN", "CONNECTING"},
          error : {"ERROR"}]
    ELSE IF s \in Handshake
    THEN [read : {"UNKNOWN", "SuplHandshakeRecv"}, write : {"UNKNOWN"},
          error : {"DISCONNECTED"}]
    ELSE [read : {"MESSAGE"}, write : {"UNKNOWN"}, error : {"DISCONNECTED"}]

\* The registration that goes with the states remembered.
Interests == [fd |-> supl.fd, scheduled |-> TRUE,
              read  |-> nexts.read # "UNKNOWN",
              write |-> nexts.write # "UNKNOWN",
              error |-> nexts.error # "UNKNOWN"]

\* Nothing is registered, or the socket of the session is.
TaskOfSupl == task = NoTask \/ (task.scheduled /\ task.fd = supl.fd)

\* What a supl::Session with an open socket looks like.
Usable == supl.fd # -1 /\ supl.st \in {"CONNECTING", "CONNECTED", "WaitForHandshake"}

\* No session: at the start, and from the tear-down to the reconnect timer.
Down ==
    /\ disconnected /\ ~attached
    /\ supl = NoSupl /\ pc = "idle" /\ state \in {"UNKNOWN", "EXIT"}
    /\ \/ deferred = <<>> /\ task = NoTask /\ ~running
       \/ deferred = <<Update(-1, NoNexts)>> /\ ~task.scheduled /\ running

Up == attached /\ ~disconnected /\ ~running

\* The reconnect timer has fired.
Starting ==
    /\ Up /\ supl = NoSupl /\ task = NoTask
    /\ pc = "process" /\ state = "CONNECT" /\ deferred = <<>>

\* A state function of a usable session runs, or the loop of state_message.
Running ==
    /\ Up /\ supl.st # "null" /\ TaskOfSupl
    /\ deferred = <<>>
    /\ \/ pc = "process" /\ state \notin {"UNKNOWN", "CONNECT", "EXIT"}
       \/ pc = "receive" /\ state = "MESSAGE"
    /\ Usable \/ (pc = "process" /\ state \in {"ConnectionFailed", "DISCONNECTED"})

\* The session waits for its socket, once the deferred update has run.
Waiting ==
    /\ Up /\ Usable
    /\ pc = "idle" /\ state \in Connecting \cup Handshake \cup Messages
    /\ nexts \in WaitsFor(state)
    /\ \/ deferred = <<>> /\ task = Interests
       \/ deferred = <<Update(supl.fd, nexts)>> /\ TaskOfSupl

\* state_disconnected has run, and then the loop has been left.
Leaving ==
    /\ Up /\ supl.st # "null" /\ TaskOfSupl /\ state = "EXIT"
    /\ \/ pc = "process" /\ deferred = <<Teardown>>
       \/ pc = "idle" /\ deferred = <<Teardown, Update(-1, NoNexts)>>

IInv == TypeOK /\ (Down \/ Starting \/ Running \/ Waiting \/ Leaving)

----------------------------------------------------------------------------
(***************************************************************************)
(* What SSL_read leaves of the records is a sequence of messages.          *)
(***************************************************************************)

\* Induction over a set of numbers.
LEMMA Induction ==
    ASSUME NEW S, 0 \in S, \A n \in Nat : n \in S => n + 1 \in S
    PROVE  Nat \subseteq S
<1> DEFINE T == Nat \ S
<1> SUFFICES ASSUME T # {} PROVE FALSE
  OBVIOUS
<1>1. T \subseteq Nat
  OBVIOUS
<1>2. PICK i \in T : \A j \in T : ~(<<j, i>> \in OpToRel(<, Nat))
  <2> HIDE DEF T
  <2> QED BY <1>1, NatLessThanWellFounded, WFMin
<1>3. i \in Nat /\ i # 0 /\ i - 1 \in Nat
  OBVIOUS
<1>4. i - 1 \notin T
  <2>1. <<i - 1, i>> \in OpToRel(<, Nat)
    BY <1>3 DEF OpToRel
  <2>2. QED
    BY <1>2, <2>1
<1>5. (i - 1) + 1 \in S
  BY <1>3, <1>4
<1>6. QED
  BY <1>3, <1>5

\* fill_receive_buffer appends messages and nothing else.
LEMMA PlainType == incoming \in Seq(Pdus) => Plain \in Seq(Pdus)
<1> SUFFICES ASSUME incoming \in Seq(Pdus) PROVE Plain \in Seq(Pdus)
  OBVIOUS
<1> DEFINE n == Len(incoming)
           Step(f, i) == IF i = 0 THEN <<>>
                         ELSE IF incoming[i] = "TLS" THEN f[i - 1]
                         ELSE Append(f[i - 1], incoming[i])
           Keeps(f, k) == \A i \in 0 .. k : f[i] = Step(f, i)
           Definable == {k \in Nat : \E f : Keeps(f, k)}
<1>1. 0 \in Definable
  <2>1. Keeps([i \in 0 .. 0 |-> <<>>], 0)
    OBVIOUS
  <2>2. QED
    BY <2>1
<1>2. ASSUME NEW k \in Nat, k \in Definable
      PROVE  k + 1 \in Definable
  <2>1. PICK f : Keeps(f, k)
    BY <1>2
  <2> DEFINE g == [i \in 0 .. k + 1 |-> IF i = k + 1 THEN Step(f, k + 1) ELSE f[i]]
  <2>2. g[k + 1] = Step(f, k + 1) /\ \A i \in 0 .. k : g[i] = f[i]
    OBVIOUS
  <2> HIDE DEF g
  <2>3. Keeps(g, k + 1)
    <3> SUFFICES ASSUME NEW i \in 0 .. k + 1 PROVE g[i] = Step(g, i)
      OBVIOUS
    <3>1. CASE i = k + 1
      BY <2>2, <3>1
    <3>2. CASE i \in 1 .. k
      <4>1. g[i] = f[i] /\ g[i - 1] = f[i - 1]
        BY <2>2, <3>2
      <4>2. f[i] = Step(f, i)
        BY <2>1, <3>2
      <4>3. QED
        BY <4>1, <4>2
    <3>3. CASE i = 0
      <4>1. g[0] = f[0] /\ f[0] = Step(f, 0)
        BY <2>1, <2>2
      <4>2. QED
        BY <3>3, <4>1
    <3>4. QED
      BY <3>1, <3>2, <3>3
  <2>4. QED
    BY <2>3
<1>3. PICK f : Keeps(f, n)
  <2> HIDE DEF Keeps
  <2>1. Nat \subseteq Definable
    <3> HIDE DEF Definable
    <3> QED BY <1>1, <1>2, Induction
  <2>2. QED
    BY <2>1
<1> DEFINE g == [i \in 0 .. n |-> f[i]]
<1>4. Keeps(g, n)
  <2>1. \A i \in 0 .. n : g[i] = f[i] 
    OBVIOUS
  <2>2. \A i \in 0 .. n : i # 0 => g[i - 1] = f[i - 1] 
    OBVIOUS
  <2> HIDE DEF g
  <2> SUFFICES ASSUME NEW i \in 0 .. n PROVE g[i] = Step(g, i)
    OBVIOUS
  <2>3. f[i] = Step(f, i)
    BY <1>3
  <2>4. QED
    BY <2>1, <2>2, <2>3
<1>5. g = [i \in 0 .. n |-> g[i]]
  OBVIOUS
<1>6. g = [i \in 0 .. n |-> Step(g, i)]
  <2> HIDE DEF g
  <2>1. \A i \in 0 .. n : g[i] = Step(g, i)
    BY <1>4
  <2>2. [i \in 0 .. n |-> g[i]] = [i \in 0 .. n |-> Step(g, i)]
    <3> HIDE DEF Step, n
    <3> QED BY <2>1
  <2>3. QED
    BY <1>5, <2>2
<1> DEFINE kept == CHOOSE h : h = [i \in 0 .. n |-> Step(h, i)]
<1>7. kept = [i \in 0 .. n |-> Step(kept, i)]
  <2> HIDE DEF Step, n, g
  <2> QED BY <1>6
<1>8. Plain = kept[n]
  BY DEF Plain
<1> HIDE DEF kept
<1>9. \A i \in 0 .. n : kept[i] = Step(kept, i)
  <2> DEFINE h == [i \in 0 .. n |-> Step(kept, i)]
  <2>1. \A i \in 0 .. n : h[i] = Step(kept, i)
    OBVIOUS
  <2>2. kept = h
    BY <1>7
  <2> HIDE DEF h, Step
  <2>3. QED
    BY <2>1, <2>2
<1> DEFINE Typed == {i \in Nat : i <= n => kept[i] \in Seq(Pdus)}
<1>10. 0 \in Typed
  <2>1. kept[0] = <<>>
    BY <1>9
  <2>2. <<>> \in Seq(Pdus)
    OBVIOUS
  <2>3. QED
    BY <2>1, <2>2
<1>11. ASSUME NEW i \in Nat, i \in Typed
       PROVE  i + 1 \in Typed
  <2> SUFFICES ASSUME i + 1 <= n PROVE kept[i + 1] \in Seq(Pdus)
    OBVIOUS
  <2>1. kept[i + 1] = Step(kept, i + 1)
    BY <1>9
  <2>2. kept[i] \in Seq(Pdus) /\ incoming[i + 1] \in Pdus
    BY <1>11
  <2>3. Step(kept, i + 1) \in Seq(Pdus)
    BY <2>2
  <2>4. QED
    BY <2>1, <2>3
<1>12. QED
  <2>1. Nat \subseteq Typed
    <3> HIDE DEF Typed
    <3> QED BY <1>10, <1>11, Induction
  <2>2. QED
    BY <1>8, <2>1

----------------------------------------------------------------------------
(***************************************************************************)
(* What the state functions share.                                         *)
(***************************************************************************)

\* A queue of two calls.
LEMMA QueueOfTwo ==
    ASSUME NEW S, NEW a \in S, NEW b \in S
    PROVE  /\ Append(<<a>>, b) = <<a, b>>
           /\ Head(<<a, b>>) = a /\ Tail(<<a, b>>) = <<b>>
           /\ Head(<<a>>) = a /\ Tail(<<a>>) = <<>>
           /\ Append(<<>>, a) = <<a>> /\ <<a>> # <<>>
<1>1. <<a>> \in Seq(S) /\ <<a, b>> \in Seq(S)
  OBVIOUS
<1>2. Append(<<a>>, b) = <<a, b>>
  <2>1. Append(<<a>>, b) \in Seq(S) /\ Len(Append(<<a>>, b)) = 2
    BY <1>1
  <2>2. Append(<<a>>, b)[1] = a /\ Append(<<a>>, b)[2] = b
    BY <1>1
  <2>3. Len(<<a, b>>) = 2 /\ <<a, b>>[1] = a /\ <<a, b>>[2] = b
    OBVIOUS
  <2>4. \A i \in 1 .. 2 : Append(<<a>>, b)[i] = <<a, b>>[i]
    BY <2>2, <2>3
  <2>5. QED
    BY <1>1, <2>1, <2>3, <2>4, SeqEqual
<1>3. QED
  BY <1>1, <1>2

\* The deferred calls are calls, and a queue of one or two of them is one.
LEMMA CallsType ==
    /\ Teardown \in Calls
    /\ Update(-1, NoNexts) \in Calls
    /\ \A fd \in Fds \cup {-1} : \A n : Update(fd, n) \in Calls
    /\ \A a, b \in Calls : <<a>> \in Seq(Calls) /\ <<a, b>> \in Seq(Calls)
BY DEF Calls, Teardown, Update

\* Descriptors are not -1.
LEMMA FdsAreNumbers == \A fd \in Fds : fd # -1
BY SessionAssumption

\* What a session remembers while it waits has the type of nexts, holds a
\* state to go to when the socket fails, and none that belongs to a
\* connection still to be begun.
LEMMA WaitsForType ==
    ASSUME NEW s, NEW n \in WaitsFor(s)
    PROVE  /\ n \in NextStates
           /\ n.error # "UNKNOWN"
           /\ {n.read, n.write, n.error} \cap {"CONNECT", "EXIT"} = {}
BY DEF WaitsFor, States, NextStates

\* A state function that waits leaves a session that waits, if its socket is
\* still usable and it remembers what belongs to its state: never through the
\* path "invalid supl session".
LEMMA WaitStep ==
    ASSUME TypeOK, Up, TaskOfSupl, deferred = <<>>,
           UNCHANGED <<task, app>>,
           supl'.fd \in Fds, task = NoTask \/ supl'.fd = supl.fd,
           supl'.st \in {"CONNECTING", "CONNECTED", "WaitForHandshake"},
           state \in Connecting \cup Handshake \cup Messages,
           NEW n \in WaitsFor(state), Wait(supl', n)
    PROVE  /\ Waiting'
           /\ state' \in States /\ pc' = "idle" /\ deferred' \in Seq(Calls)
           /\ nexts' \in NextStates
<1>1. supl'.fd # -1
  BY FdsAreNumbers
<1>2. /\ nexts' = n /\ state' = state /\ pc' = "idle"
      /\ deferred' = <<Update(supl'.fd, nexts')>>
  BY <1>1 DEF Wait, Up
<1>3. deferred' \in Seq(Calls)
  BY <1>2, CallsType
<1>4. Usable' /\ Up' /\ TaskOfSupl'
  BY <1>1 DEF Usable, Up, TaskOfSupl, app
<1>5. QED
  BY <1>2, <1>3, <1>4, WaitsForType DEF Waiting, TypeOK

\* A state function that names the next state leaves a session that runs.
LEMMA GotoStep ==
    ASSUME TypeOK, Up, deferred = <<>>, UNCHANGED <<task, app>>,
           task = NoTask \/ (TaskOfSupl /\ supl'.fd = supl.fd),
           supl'.st # "null",
           NEW s \in States \ {"UNKNOWN", "CONNECT", "EXIT"}, Goto(s),
           Usable' \/ s \in {"ConnectionFailed", "DISCONNECTED"}
    PROVE  /\ Running'
           /\ state' \in States /\ pc' = "process" /\ deferred' \in Seq(Calls)
           /\ nexts' \in NextStates
<1>1. state' = s /\ pc' = "process" /\ UNCHANGED <<nexts, deferred>>
  BY DEF Goto
<1>2. Up' /\ TaskOfSupl'
  BY DEF Up, TaskOfSupl, app
<1>3. QED
  BY <1>1, <1>2 DEF Running, TypeOK

\* Cutting a connection leaves its descriptor and its state.
LEMMA CutType ==
    ASSUME TypeOK
    PROVE  /\ Cut(supl).fd = supl.fd /\ Cut(supl).st = supl.st
           /\ Cut(supl).buffer = supl.buffer
           /\ Cut(supl).tcp \in {"none", "DISCONNECTED"}
           /\ Cut(supl) \in Supls
BY DEF Cut, TypeOK, Supls

----------------------------------------------------------------------------
(***************************************************************************)
(* The steps: each takes the session to the phase that follows.            *)
(***************************************************************************)

LEMMA InitIInv == Init => IInv
<1> SUFFICES ASSUME Init PROVE IInv
  OBVIOUS
<1>1. TypeOK
  <2>1. supl \in Supls
    BY DEF Init, NoSupl, Supls
  <2>2. nexts \in NextStates
    BY DEF Init, NoNexts, States, NextStates
  <2>3. task \in Tasks
    BY DEF Init, NoTask, Tasks
  <2>4. tls \in BOOLEAN /\ attached \in BOOLEAN /\ running \in BOOLEAN
        /\ disconnected \in BOOLEAN
    BY DEF Init
  <2>5. state \in States /\ deferred \in Seq(Calls) /\ incoming \in Seq(Pdus)
    BY DEF Init, States
  <2>6. pc \in {"idle", "process", "receive"}
        /\ peer \in {"none", "syn", "open", "fin", "reset"}
    BY DEF Init
  <2>7. QED
    BY <2>1, <2>2, <2>3, <2>4, <2>5, <2>6 DEF TypeOK
<1>2. Down
  BY DEF Init, Down
<1>3. QED
  BY <1>1, <1>2 DEF IInv

\* The reconnect timer finds the session as after its construction.
LEMMA ScheduleStep == IInv /\ Schedule => IInv' /\ Starting'
<1> SUFFICES ASSUME IInv, Schedule PROVE IInv' /\ Starting'
  OBVIOUS
<1>1. Down /\ deferred = <<>>
  BY DEF IInv, Schedule, OtherEvents, Down, Starting, Running, Waiting, Leaving, Up
<1>2. Starting'
  BY <1>1 DEF Down, Starting, Up, Schedule, net
<1>3. TypeOK'
  <2>1. state' \in States
    BY DEF IInv, TypeOK, Schedule, States
  <2>2. attached' \in BOOLEAN /\ disconnected' \in BOOLEAN /\ pc' \in {"idle", "process", "receive"}
    BY DEF Schedule
  <2>3. UNCHANGED <<tls, nexts, supl, task, deferred, running, peer, incoming>>
    BY DEF Schedule, net
  <2>4. QED
    BY <2>1, <2>2, <2>3 DEF IInv, TypeOK
<1>4. QED
  BY <1>2, <1>3 DEF IInv

\* state_connect: a connection is begun or given up.
LEMMA ConnectStep == IInv /\ StateConnect => IInv'
<1> SUFFICES ASSUME IInv, StateConnect PROVE IInv'
  OBVIOUS
<1> USE DEF net
<1>1. Starting /\ UNCHANGED <<task, app>>
  BY DEF IInv, StateConnect, In, Down, Starting, Running, Waiting, Leaving
<1>2. Up /\ TaskOfSupl /\ deferred = <<>> /\ supl = NoSupl /\ task = NoTask
      /\ state = "CONNECT" /\ TypeOK
  BY <1>1 DEF Starting, TaskOfSupl, IInv
<1>3. CASE supl' = [NoSupl EXCEPT !.st = "UNKNOWN"] /\ Goto("DISCONNECTED")
           /\ UNCHANGED net
  <2>1. supl'.st = "UNKNOWN" /\ supl'.fd = -1 /\ supl'.tcp = "none" /\ supl'.buffer = <<>>
        /\ DOMAIN supl' = DOMAIN NoSupl
    BY <1>3 DEF NoSupl
  <2>2. Running' /\ state' \in States /\ pc' = "process" /\ deferred' \in Seq(Calls)
        /\ nexts' \in NextStates
    BY <1>1, <1>2, <1>3, <2>1, GotoStep DEF States
  <2>3. QED
    BY <1>1, <1>2, <1>3, <2>1, <2>2 DEF IInv, TypeOK, app, NoSupl, Supls
<1>4. ASSUME NEW fd \in Fds,
             supl' = [st |-> "CONNECTING", tcp |-> "CONNECTING",
                      fd |-> fd, buffer |-> <<>>],
             peer' = "syn", incoming' = <<>>,
             Wait(supl', [read |-> "CONNECTING", write |-> "CONNECTING",
                          error |-> "ERROR"])
      PROVE  IInv'
  <2>1. [read |-> "CONNECTING", write |-> "CONNECTING", error |-> "ERROR"]
          \in WaitsFor(state)
    BY <1>2 DEF WaitsFor, Connecting
  <2>2. /\ Waiting' /\ state' \in States /\ pc' = "idle" /\ deferred' \in Seq(Calls)
        /\ nexts' \in NextStates
    <3>1. supl'.fd \in Fds /\ supl'.st = "CONNECTING"
      BY <1>4
    <3>2. QED
      BY <1>1, <1>2, <1>4, <2>1, <3>1, WaitStep DEF Connecting
  <2>3. QED
    BY <1>1, <1>2, <1>4, <2>2 DEF IInv, TypeOK, app, Supls
<1>5. QED
  BY <1>2, <1>3, <1>4 DEF StateConnect

\* state_connecting: the connection is there, has failed, or is waited for.
LEMMA ConnectingStep == IInv /\ StateConnecting => IInv'
<1> SUFFICES ASSUME IInv, StateConnecting PROVE IInv'
  OBVIOUS
<1>1. Running /\ UNCHANGED <<task, app, peer>>
  BY DEF IInv, StateConnecting, In, Down, Starting, Running, Waiting, Leaving
<1>2. /\ Up /\ TaskOfSupl /\ deferred = <<>> /\ TypeOK /\ Usable
      /\ state = "CONNECTING"
  BY <1>1 DEF Running, StateConnecting, In, IInv
<1>3. incoming' \in Seq(Pdus)
  <2>1. \/ UNCHANGED incoming
        \/ incoming # <<>> /\ incoming' = Tail(incoming)
    BY DEF StateConnecting
  <2>2. QED
    BY <1>2, <2>1 DEF TypeOK
<1>4. CASE supl' = [Cut(supl) EXCEPT !.st = "DISCONNECTED"] /\ Goto("ConnectionFailed")
  <2>1. /\ supl'.st = "DISCONNECTED" /\ supl'.fd = supl.fd
        /\ supl' \in Supls
    BY <1>2, <1>4, CutType DEF Supls
  <2>2. Running' /\ state' \in States /\ pc' = "process" /\ deferred' \in Seq(Calls)
        /\ nexts' \in NextStates
    BY <1>1, <1>2, <1>4, <2>1, GotoStep DEF States
  <2>3. QED
    BY <1>1, <1>2, <1>3, <2>1, <2>2 DEF IInv, TypeOK, app
<1>5. CASE supl' = [supl EXCEPT !.st = "CONNECTED", !.tcp = "CONNECTED"] /\ Goto("CONNECTED")
  <2>1. supl'.st = "CONNECTED" /\ supl'.fd = supl.fd
    BY <1>2, <1>5 DEF TypeOK
  <2>2. Running' /\ state' \in States /\ pc' = "process" /\ deferred' \in Seq(Calls)
        /\ nexts' \in NextStates
    BY <1>1, <1>2, <1>5, <2>1, GotoStep DEF States, Usable
  <2>3. QED
    BY <1>1, <1>2, <1>3, <1>5, <2>2 DEF IInv, TypeOK, app, Supls
<1>6. ASSUME NEW n \in {[NoNexts EXCEPT !.read = "CONNECTING", !.error = "ERROR"],
                        [NoNexts EXCEPT !.write = "CONNECTING", !.error = "ERROR"]},
             UNCHANGED supl, Wait(supl, n)
      PROVE  IInv'
  <2>1. n \in WaitsFor(state)
    BY <1>2 DEF WaitsFor, Connecting, NoNexts
  <2>2. /\ Waiting' /\ state' \in States /\ pc' = "idle" /\ deferred' \in Seq(Calls)
        /\ nexts' \in NextStates
    <3>1. supl'.fd \in Fds /\ supl'.st \in {"CONNECTING", "CONNECTED", "WaitForHandshake"}
      BY <1>2, <1>6 DEF Usable, TypeOK, Supls
    <3>2. QED
      BY <1>1, <1>2, <1>6, <2>1, <3>1, WaitStep DEF Connecting
  <2>3. QED
    BY <1>1, <1>2, <1>3, <1>6, <2>2 DEF IInv, TypeOK, app
<1>7. QED
  BY <1>4, <1>5, <1>6 DEF StateConnecting

\* The session keeps its supl::Session, and the state function only names
\* the next state: state_connection_failed, state_error, state_connected,
\* state_posinit.
LEMMA PlainGotoStep ==
    IInv /\ (StateFailed \/ StateConnected \/ StatePosinit) => IInv'
<1> SUFFICES ASSUME IInv, StateFailed \/ StateConnected \/ StatePosinit PROVE IInv'
  OBVIOUS
<1>1. PICK s \in {"DISCONNECTED", "SuplHandshakeSend", "ESTABLISHED"} :
         /\ Goto(s) /\ UNCHANGED <<supl, task, app, net>>
         /\ state = "ConnectionFailed" => s = "DISCONNECTED"
  BY DEF StateFailed, StateConnected, StatePosinit, In
<1>2. Running
  BY DEF IInv, StateFailed, StateConnected, StatePosinit, In, Down, Starting,
     Running, Waiting, Leaving
<1>3. Up /\ TaskOfSupl /\ deferred = <<>> /\ TypeOK /\ supl.st # "null"
  BY <1>2 DEF Running, IInv
<1>4. Usable' \/ s = "DISCONNECTED"
  <2>1. state # "DISCONNECTED"
    BY DEF StateFailed, StateConnected, StatePosinit, In
  <2>2. QED
    BY <1>1, <1>2, <2>1 DEF Running, Usable
<1>5. /\ Running' /\ state' \in States /\ pc' = "process" /\ deferred' \in Seq(Calls)
      /\ nexts' \in NextStates
  BY <1>1, <1>3, <1>4, GotoStep DEF States
<1>6. QED
  BY <1>1, <1>3, <1>5 DEF IInv, TypeOK, app, net

\* state_handshake_send.
LEMMA HandshakeSendStep == IInv /\ StateHandshakeSend => IInv'
<1> SUFFICES ASSUME IInv, StateHandshakeSend PROVE IInv'
  OBVIOUS
<1>1. Running /\ UNCHANGED <<task, app, net>>
  BY DEF IInv, StateHandshakeSend, In, Down, Starting, Running, Waiting, Leaving
<1>2. /\ Up /\ TaskOfSupl /\ deferred = <<>> /\ TypeOK /\ Usable
      /\ state = "SuplHandshakeSend"
  BY <1>1 DEF Running, StateHandshakeSend, In, IInv
<1>3. CASE Goto("DISCONNECTED") /\ UNCHANGED supl
  <2>1. supl'.st # "null"
    BY <1>3, <1>2 DEF Usable
  <2>2. /\ Running' /\ state' \in States /\ pc' = "process" /\ deferred' \in Seq(Calls)
        /\ nexts' \in NextStates
    BY <1>1, <1>2, <1>3, <2>1, GotoStep DEF States
  <2>3. QED
    BY <1>1, <1>2, <1>3, <2>2 DEF IInv, TypeOK, app, net
<1>4. CASE /\ supl' = [supl EXCEPT !.st = "WaitForHandshake"]
           /\ Wait(supl', [NoNexts EXCEPT !.read  = "SuplHandshakeRecv",
                                          !.error = "DISCONNECTED"])
  <2>1. [NoNexts EXCEPT !.read = "SuplHandshakeRecv", !.error = "DISCONNECTED"]
          \in WaitsFor(state)
    BY <1>2 DEF WaitsFor, Connecting, Handshake, NoNexts
  <2>2. supl'.fd = supl.fd /\ supl.fd \in Fds /\ supl'.st = "WaitForHandshake"
    BY <1>2, <1>4 DEF Usable, TypeOK, Supls
  <2>3. /\ Waiting' /\ state' \in States /\ pc' = "idle" /\ deferred' \in Seq(Calls)
        /\ nexts' \in NextStates
    BY <1>1, <1>2, <1>4, <2>1, <2>2, WaitStep DEF Handshake
  <2>4. QED
    BY <1>1, <1>2, <1>4, <2>3 DEF IInv, TypeOK, app, net, Supls
<1>5. QED
  BY <1>3, <1>4 DEF StateHandshakeSend

\* What a read leaves in the receive buffer.
LEMMA ReadType ==
    ASSUME TypeOK
    PROVE  /\ Filled \in Seq(Pdus)
           /\ Filled # <<>> => Tail(Filled) \in Seq(Pdus)
<1>1. Plain \in Seq(Pdus) /\ supl.buffer \in Seq(Pdus)
  BY PlainType DEF TypeOK, Supls
<1>2. Filled \in Seq(Pdus)
  BY <1>1 DEF Filled
<1>3. QED
  BY <1>2

\* state_handshake_recv.
LEMMA HandshakeRecvStep == IInv /\ StateHandshakeRecv => IInv'
<1> SUFFICES ASSUME IInv, StateHandshakeRecv PROVE IInv'
  OBVIOUS
<1>1. Running /\ UNCHANGED <<task, app, peer>>
  BY DEF IInv, StateHandshakeRecv, In, Down, Starting, Running, Waiting, Leaving
<1>2. /\ Up /\ TaskOfSupl /\ deferred = <<>> /\ TypeOK /\ Usable
      /\ state = "SuplHandshakeRecv"
  BY <1>1 DEF Running, StateHandshakeRecv, In, IInv
<1>3. incoming' \in Seq(Pdus)
  BY <1>2 DEF StateHandshakeRecv, TypeOK
<1>4. PICK rest \in Seq(Pdus) :
        \/ /\ supl' = [supl EXCEPT !.buffer = rest]
           /\ \/ Wait(supl', [NoNexts EXCEPT !.read  = "SuplHandshakeRecv",
                                             !.error = "DISCONNECTED"])
              \/ Wait(supl', [NoNexts EXCEPT !.error = "DISCONNECTED"])
        \/ /\ supl' = [supl EXCEPT !.buffer = rest, !.st = "CONNECTED"]
           /\ Goto("SuplPosinit")
  <2> DEFINE reads == Fills /\ supl.st = "WaitForHandshake"
             rest == IF ~reads THEN supl.buffer
                     ELSE IF Filled = <<>> THEN <<>> ELSE Tail(Filled)
  <2>1. rest \in Seq(Pdus)
    BY <1>2, ReadType DEF TypeOK, Supls
  <2>2. QED
    BY <2>1 DEF StateHandshakeRecv
<1>5. supl'.fd = supl.fd /\ supl.fd \in Fds
      /\ supl'.st \in {"CONNECTING", "CONNECTED", "WaitForHandshake"}
  BY <1>2, <1>4 DEF Usable, TypeOK, Supls
<1>6. supl' \in Supls
  BY <1>2, <1>4 DEF TypeOK, Supls
<1>7. ASSUME NEW n \in {[NoNexts EXCEPT !.read  = "SuplHandshakeRecv",
                                        !.error = "DISCONNECTED"],
                        [NoNexts EXCEPT !.error = "DISCONNECTED"]},
             Wait(supl', n), supl' = [supl EXCEPT !.buffer = rest]
      PROVE  IInv'
  <2>1. n \in WaitsFor(state)
    BY <1>2 DEF WaitsFor, Connecting, Handshake, NoNexts
  <2>2. /\ Waiting' /\ state' \in States /\ pc' = "idle" /\ deferred' \in Seq(Calls)
        /\ nexts' \in NextStates
    BY <1>1, <1>2, <1>5, <1>7, <2>1, WaitStep DEF Handshake
  <2>3. QED
    BY <1>1, <1>2, <1>3, <1>6, <2>2 DEF IInv, TypeOK, app
<1>8. CASE /\ supl' = [supl EXCEPT !.buffer = rest, !.st = "CONNECTED"]
           /\ Goto("SuplPosinit")
  <2>1. /\ Running' /\ state' \in States /\ pc' = "process" /\ deferred' \in Seq(Calls)
        /\ nexts' \in NextStates
    BY <1>1, <1>2, <1>5, <1>8, GotoStep, FdsAreNumbers DEF States, Usable
  <2>2. QED
    BY <1>1, <1>2, <1>3, <1>6, <2>1 DEF IInv, TypeOK, app
<1>9. QED
  BY <1>4, <1>7, <1>8

\* state_established: also when the first send of a user fails.
LEMMA EstablishedStep == IInv /\ StateEstablished => IInv'
<1> SUFFICES ASSUME IInv, StateEstablished PROVE IInv'
  OBVIOUS
<1> DEFINE n == [NoNexts EXCEPT !.read = "MESSAGE", !.error = "DISCONNECTED"]
<1>1. Running /\ UNCHANGED <<task, app, net>> /\ Wait(supl', n)
  BY DEF IInv, StateEstablished, In, Down, Starting, Running, Waiting, Leaving
<1>2. /\ Up /\ TaskOfSupl /\ deferred = <<>> /\ TypeOK /\ Usable
      /\ state = "ESTABLISHED"
  BY <1>1 DEF Running, StateEstablished, In, IInv
<1>3. supl' \in Supls /\ supl'.fd = supl.fd /\ supl'.st = supl.st /\ supl.fd \in Fds
  BY <1>2, CutType DEF StateEstablished, Usable, TypeOK, Supls
<1>4. n \in WaitsFor(state)
  BY <1>2 DEF WaitsFor, Connecting, Handshake, NoNexts
<1>5. /\ Waiting' /\ state' \in States /\ pc' = "idle" /\ deferred' \in Seq(Calls)
      /\ nexts' \in NextStates
  <2>1. supl'.fd \in Fds /\ supl'.st \in {"CONNECTING", "CONNECTED", "WaitForHandshake"}
    BY <1>2, <1>3 DEF Usable
  <2> HIDE DEF n
  <2>2. QED
    BY <1>1, <1>2, <1>3, <1>4, <2>1, WaitStep DEF Messages
<1>6. QED
  BY <1>1, <1>2, <1>3, <1>5 DEF IInv, TypeOK, app, net

\* state_message, up to its loop.
LEMMA MessageStep == IInv /\ StateMessage => IInv'
<1> SUFFICES ASSUME IInv, StateMessage PROVE IInv'
  OBVIOUS
<1>1. Running /\ UNCHANGED <<task, app, peer>>
  BY DEF IInv, StateMessage, In, Down, Starting, Running, Waiting, Leaving
<1>2. /\ Up /\ TaskOfSupl /\ deferred = <<>> /\ TypeOK /\ Usable
      /\ state = "MESSAGE"
  BY <1>1 DEF Running, StateMessage, In, IInv
<1>3. CASE Goto("DISCONNECTED") /\ UNCHANGED <<supl, incoming>>
  <2>1. /\ Running' /\ state' \in States /\ pc' = "process" /\ deferred' \in Seq(Calls)
        /\ nexts' \in NextStates
    BY <1>1, <1>2, <1>3, GotoStep DEF States, Usable
  <2>2. QED
    BY <1>1, <1>2, <1>3, <2>1 DEF IInv, TypeOK, app
<1>4. CASE /\ supl' = [supl EXCEPT !.buffer = Filled] /\ incoming' = <<>>
           /\ pc' = "receive" /\ UNCHANGED <<state, nexts, deferred>>
  <2>1. supl' \in Supls /\ supl'.fd = supl.fd /\ supl'.st = supl.st
    BY <1>2, <1>4, ReadType DEF TypeOK, Supls
  <2>2. Running'
    BY <1>1, <1>2, <1>4, <2>1 DEF Running, Usable, Up, TaskOfSupl, app
  <2>3. QED
    BY <1>1, <1>2, <1>4, <2>1, <2>2 DEF IInv, TypeOK, app
<1>5. QED
  BY <1>3, <1>4 DEF StateMessage

\* One round of the loop of state_message.
LEMMA ReceiveStep == IInv /\ Receive => IInv'
<1> SUFFICES ASSUME IInv, Receive PROVE IInv'
  OBVIOUS
<1>1. Running /\ UNCHANGED <<task, app, net>>
  BY DEF IInv, Receive, Down, Starting, Running, Waiting, Leaving
<1>2. /\ Up /\ TaskOfSupl /\ deferred = <<>> /\ TypeOK /\ Usable
      /\ state = "MESSAGE"
  BY <1>1 DEF Running, Receive, IInv
<1>3. supl' \in Supls /\ supl'.fd = supl.fd /\ supl'.st = supl.st
  <2> DEFINE rest == [supl EXCEPT !.buffer = Tail(@)]
  <2>1. supl.buffer # <<>> => rest \in Supls /\ rest.fd = supl.fd /\ rest.st = supl.st
    <3>1. supl.buffer # <<>> => Tail(supl.buffer) \in Seq(Pdus)
      BY <1>2 DEF TypeOK, Supls
    <3>2. QED
      BY <1>2, <3>1 DEF TypeOK, Supls
  <2>2. supl.buffer # <<>> =>
          Cut(rest) \in Supls /\ Cut(rest).fd = supl.fd /\ Cut(rest).st = supl.st
    <3> HIDE DEF rest
    <3> QED BY <2>1 DEF Cut, Supls
  <2>3. supl' = supl \/ (supl.buffer # <<>> /\ supl' \in {rest, Cut(rest)})
    BY DEF Receive
  <2>4. QED
    BY <1>2, <2>1, <2>2, <2>3 DEF TypeOK
<1>4. CASE Goto("DISCONNECTED")
  <2>1. /\ Running' /\ state' \in States /\ pc' = "process" /\ deferred' \in Seq(Calls)
        /\ nexts' \in NextStates
    BY <1>1, <1>2, <1>3, <1>4, GotoStep DEF States, Usable
  <2>2. QED
    BY <1>1, <1>2, <1>3, <2>1 DEF IInv, TypeOK, app, net
<1>5. CASE /\ Wait(supl, [NoNexts EXCEPT !.read = "MESSAGE", !.error = "DISCONNECTED"])
           /\ UNCHANGED supl
  <2> DEFINE n == [NoNexts EXCEPT !.read = "MESSAGE", !.error = "DISCONNECTED"]
  <2>1. n \in WaitsFor(state)
    BY <1>2 DEF WaitsFor, Connecting, Handshake, NoNexts
  <2>2. /\ supl'.fd \in Fds /\ supl'.st \in {"CONNECTING", "CONNECTED", "WaitForHandshake"}
        /\ Wait(supl', n)
    BY <1>2, <1>5 DEF Usable, TypeOK, Supls
  <2> HIDE DEF n
  <2>3. /\ Waiting' /\ state' \in States /\ pc' = "idle" /\ deferred' \in Seq(Calls)
        /\ nexts' \in NextStates
    BY <1>1, <1>2, <1>3, <2>1, <2>2, WaitStep DEF Messages
  <2>4. QED
    BY <1>1, <1>2, <1>3, <2>3 DEF IInv, TypeOK, app, net
<1>6. CASE UNCHANGED <<state, nexts, deferred, pc>>
  <2>1. Running' 
    BY <1>1, <1>2, <1>3, <1>6 DEF Running, Receive, Usable, Up, TaskOfSupl, app
  <2>2. QED
    BY <1>1, <1>2, <1>3, <1>6, <2>1 DEF IInv, TypeOK, app, net
<1>7. QED
  BY <1>4, <1>5, <1>6 DEF Receive

\* state_disconnected and the end of the loop: at most one tear-down is
\* deferred, and the update after it.
LEMMA LeaveStep == IInv /\ (StateDisconnected \/ StateExit) => IInv'
<1> SUFFICES ASSUME IInv, StateDisconnected \/ StateExit PROVE IInv'
  OBVIOUS
<1>1. TypeOK
  BY DEF IInv
<1>2. CASE StateDisconnected
  <2>1. Running
    BY <1>2 DEF IInv, StateDisconnected, In, Down, Starting, Running, Waiting, Leaving
  <2>2. deferred' = <<Teardown>> /\ deferred' \in Seq(Calls) /\ state' = "EXIT"
        /\ UNCHANGED <<nexts, supl, task, app, pc, net>> /\ pc = "process"
    BY <1>2, <2>1, CallsType DEF StateDisconnected, Running, In
  <2>3. Leaving'
    BY <2>1, <2>2 DEF Running, Leaving, Up, TaskOfSupl, Usable, app
  <2>4. QED
    BY <1>1, <2>2, <2>3 DEF IInv, TypeOK, States, app, net
<1>3. CASE StateExit
  <2>1. Leaving /\ deferred = <<Teardown>>
    BY <1>3 DEF IInv, StateExit, In, Down, Starting, Running, Waiting, Leaving
  <2>2. /\ deferred' = <<Teardown, Update(-1, NoNexts)>> /\ deferred' \in Seq(Calls)
        /\ pc' = "idle" /\ UNCHANGED <<state, nexts, supl, task, app, net>>
    <3>1. Append(<<Teardown>>, Update(-1, NoNexts)) = <<Teardown, Update(-1, NoNexts)>>
      BY CallsType, QueueOfTwo
    <3>2. <<Teardown, Update(-1, NoNexts)>> \in Seq(Calls)
      BY CallsType
    <3>3. QED
      BY <1>3, <2>1, <3>1, <3>2 DEF StateExit
  <2>3. Leaving'
    BY <2>1, <2>2 DEF Leaving, Up, TaskOfSupl, app
  <2>4. QED
    BY <1>1, <2>2, <2>3 DEF IInv, TypeOK, app, net
<1>4. QED
  BY <1>2, <1>3

\* What SessionTask::update does with the registration of an open socket: it
\* is made, or moved to the new interests, whatever was registered before.
LEMMA UpdateTask ==
    ASSUME Usable, task \in Tasks, TaskOfSupl
    PROVE  TaskUpdated(Update(supl.fd, nexts)) = Interests
<1>1. task \in [fd : Fds \cup {-1}, scheduled : {TRUE, FALSE}, read : {TRUE, FALSE},
                write : {TRUE, FALSE}, error : {TRUE, FALSE}]
  BY DEF Tasks
<1>2. CASE task = NoTask
  BY <1>2 DEF TaskUpdated, Update, Interests, NoTask, Usable
<1>3. CASE task.scheduled /\ task.fd = supl.fd
  BY <1>1, <1>3 DEF TaskUpdated, Update, Interests, Usable
<1>4. QED
  BY <1>2, <1>3 DEF TaskOfSupl

\* A deferred SessionTask::update: of a session that waits, or the last one
\* after the tear-down.
LEMMA RunUpdateStep == IInv /\ RunUpdate => IInv'
<1> SUFFICES ASSUME IInv, RunUpdate PROVE IInv'
  OBVIOUS
<1>1. TypeOK /\ pc = "idle" /\ deferred # <<>> /\ Head(deferred).call = "update"
      /\ task' = TaskUpdated(Head(deferred))
      /\ deferred' = Tail(deferred) /\ running' = (Tail(deferred) # <<>>)
      /\ UNCHANGED <<tls, state, nexts, supl, attached, pc, disconnected, net>>
  BY DEF RunUpdate, IInv
<1>2. CASE Waiting
  <2>1. deferred = <<Update(supl.fd, nexts)>> /\ TaskOfSupl /\ Usable
    BY <1>1, <1>2 DEF Waiting
  <2>2. Head(deferred) = Update(supl.fd, nexts) /\ Tail(deferred) = <<>>
    BY <2>1
  <2>3. task' = Interests
    BY <1>1, <2>1, <2>2, UpdateTask DEF TypeOK
  <2>4. Waiting'
    BY <1>1, <1>2, <2>2, <2>3 DEF Waiting, Up, Usable, Interests
  <2>5. task' \in Tasks
    <3>1. (nexts.read # "UNKNOWN") \in BOOLEAN /\ (nexts.write # "UNKNOWN") \in BOOLEAN
          /\ (nexts.error # "UNKNOWN") \in BOOLEAN
      OBVIOUS
    <3>2. supl.fd \in Fds \cup {-1}
      BY <1>1 DEF TypeOK, Supls
    <3>3. QED
      BY <2>3, <3>1, <3>2 DEF Interests, Tasks
  <2>6. running' = FALSE
    BY <1>1, <2>2
  <2>7. QED
    BY <1>1, <2>2, <2>4, <2>5, <2>6 DEF IInv, TypeOK, net
<1>3. CASE Down
  <2>1. deferred = <<Update(-1, NoNexts)>> /\ ~task.scheduled
    BY <1>1, <1>3 DEF Down
  <2>2. Head(deferred) = Update(-1, NoNexts) /\ Tail(deferred) = <<>>
    BY <2>1
  <2>3. task' = NoTask
    <3> DEFINE u == Update(-1, NoNexts)
    <3>1. u.fd = -1 /\ u.read = FALSE /\ u.write = FALSE /\ u.error = FALSE
      BY DEF Update, NoNexts
    <3> HIDE DEF u
    <3>2. TaskUpdated(u) = NoTask
      BY <2>1, <3>1 DEF TaskUpdated, NoTask
    <3>3. QED
      BY <1>1, <2>2, <3>2 DEF u
  <2>4. task' \in Tasks
    BY <2>3 DEF NoTask, Tasks
  <2>5. running' = FALSE
    BY <1>1, <2>2
  <2>6. Down'
    BY <1>1, <1>3, <2>2, <2>3, <2>5 DEF Down
  <2>7. QED
    BY <1>1, <2>2, <2>4, <2>5, <2>6 DEF IInv, TypeOK, net
<1>4. ~Leaving
  <2>1. Head(<<Teardown, Update(-1, NoNexts)>>) = Teardown
    OBVIOUS
  <2>2. QED
    BY <1>1, <2>1 DEF Leaving, Teardown
<1>5. QED
  BY <1>1, <1>2, <1>3, <1>4 DEF IInv, Starting, Running

\* The deferred call of lpp::Client.
LEMMA RunTeardownStep == IInv /\ RunTeardown => IInv'
<1> SUFFICES ASSUME IInv, RunTeardown PROVE IInv'
  OBVIOUS
<1>1. /\ TypeOK /\ pc = "idle" /\ deferred # <<>> /\ Head(deferred).call = "teardown"
      /\ state' = "EXIT" /\ task' = [task EXCEPT !.scheduled = FALSE]
      /\ supl' = NoSupl /\ attached' = FALSE /\ disconnected' = TRUE
      /\ peer' = "none" /\ incoming' = <<>>
      /\ deferred' = Tail(deferred) /\ running' = (Tail(deferred) # <<>>)
      /\ UNCHANGED <<tls, nexts, pc>>
  BY DEF RunTeardown, IInv
<1>2. Leaving
  <2>1. \A fd, n : Head(<<Update(fd, n)>>).call = "update"
    BY DEF Update
  <2>2. QED
    BY <1>1, <2>1 DEF IInv, Down, Starting, Running, Waiting
<1>3. deferred = <<Teardown, Update(-1, NoNexts)>>
  BY <1>1, <1>2 DEF Leaving
<1>4. deferred' = <<Update(-1, NoNexts)>> /\ deferred' \in Seq(Calls)
  BY <1>1, <1>3, CallsType
<1>5. running' = TRUE
  BY <1>1, <1>4, CallsType, QueueOfTwo
<1>6. task' \in Tasks /\ task'.scheduled = FALSE
  BY <1>1 DEF TypeOK, Tasks
<1>7. supl' \in Supls
  BY <1>1 DEF NoSupl, Supls
<1>8. Down'
  BY <1>1, <1>4, <1>5, <1>6 DEF Down
<1>9. QED
  <2>1. state' \in States /\ attached' \in BOOLEAN /\ disconnected' \in BOOLEAN
        /\ running' \in BOOLEAN
    BY <1>1, <1>5 DEF States
  <2>2. peer' \in {"none", "syn", "open", "fin", "reset"} /\ incoming' \in Seq(Pdus)
    BY <1>1
  <2>3. QED
    BY <1>1, <1>4, <1>6, <1>7, <1>8, <2>1, <2>2 DEF IInv, TypeOK

\* An event of the socket: there is a state to go to.
LEMMA EventStep ==
    IInv /\ SessionEvent
      => /\ IInv' /\ Running' /\ Waiting
         /\ \/ state \in Connecting /\ state' \in {"CONNECTING", "ERROR"}
            \/ state \in Handshake /\ state' \in {"SuplHandshakeRecv", "DISCONNECTED"}
            \/ state \in Messages /\ state' \in {"MESSAGE", "DISCONNECTED"}
<1> SUFFICES ASSUME IInv, SessionEvent
             PROVE  /\ IInv' /\ Running' /\ Waiting
                    /\ \/ state \in Connecting /\ state' \in {"CONNECTING", "ERROR"}
                       \/ state \in Handshake
                            /\ state' \in {"SuplHandshakeRecv", "DISCONNECTED"}
                       \/ state \in Messages /\ state' \in {"MESSAGE", "DISCONNECTED"}
  OBVIOUS
<1>1. /\ TypeOK /\ pc = "idle" /\ deferred = <<>> /\ task.scheduled
      /\ state' = EventState /\ pc' = "process"
      /\ UNCHANGED <<nexts, supl, task, app, deferred, net>>
  BY DEF IInv, SessionEvent
<1>2. Waiting /\ task = Interests
  BY <1>1 DEF IInv, Down, Starting, Running, Waiting, Leaving, NoTask
<1>3. nexts \in WaitsFor(state) /\ state \in Connecting \cup Handshake \cup Messages
  BY <1>2 DEF Waiting
<1>4. state' \in {nexts.read, nexts.write, nexts.error} \ {"UNKNOWN"}
  <2>1. nexts.error # "UNKNOWN"
    BY <1>3, WaitsForType
  <2>2. /\ task.read => nexts.read # "UNKNOWN"
        /\ task.write => nexts.write # "UNKNOWN"
    BY <1>2 DEF Interests
  <2>3. QED
    BY <1>1, <2>1, <2>2 DEF EventState
<1>5. \/ state \in Connecting /\ state' \in {"CONNECTING", "ERROR"}
      \/ state \in Handshake /\ state' \in {"SuplHandshakeRecv", "DISCONNECTED"}
      \/ state \in Messages /\ state' \in {"MESSAGE", "DISCONNECTED"}
  BY <1>3, <1>4 DEF WaitsFor, Connecting, Handshake, Messages
<1>6. Running'
  <2>1. Up' /\ TaskOfSupl' /\ Usable' /\ supl'.st # "null"
    BY <1>1, <1>2 DEF Waiting, Up, TaskOfSupl, Interests, Usable, app
  <2>2. QED
    BY <1>1, <1>5, <2>1 DEF Running
<1>7. TypeOK'
  <2>1. state' \in States
    BY <1>5 DEF States
  <2>2. QED
    BY <1>1, <2>1 DEF TypeOK, app, net
<1>8. QED
  BY <1>2, <1>5, <1>6, <1>7 DEF IInv

\* A send that fails outside the callbacks cuts the connection, and the
\* server and the network change nothing of the session.
LEMMA OutsideStep == IInv /\ (SendFails \/ Peer) => IInv'
<1> SUFFICES ASSUME IInv, SendFails \/ Peer PROVE IInv'
  OBVIOUS
<1>1. UNCHANGED <<state, nexts, task, app, deferred, pc>> /\ TypeOK
  BY DEF IInv, SendFails, Peer, PeerAccepts, PeerSends, PeerCloses, PeerResets
<1>2. CASE Peer
  <2>1. UNCHANGED supl /\ peer' \in {"none", "syn", "open", "fin", "reset"}
        /\ incoming' \in Seq(Pdus)
    BY <1>1, <1>2 DEF Peer, PeerAccepts, PeerSends, PeerCloses, PeerResets, TypeOK
  <2>2. (Down \/ Starting \/ Running \/ Waiting \/ Leaving)'
    BY <1>1, <2>1 DEF IInv, Down, Starting, Running, Waiting, Leaving, Up,
       Usable, TaskOfSupl, Interests, app
  <2>3. QED
    BY <1>1, <2>1, <2>2 DEF IInv, TypeOK, app
<1>3. CASE SendFails
  <2>1. supl # NoSupl /\ supl' = Cut(supl) /\ pc = "idle" /\ UNCHANGED net
    BY <1>3 DEF SendFails, OtherEvents
  <2>2. supl' \in Supls /\ supl'.fd = supl.fd /\ supl'.st = supl.st
    BY <1>1, <2>1, CutType
  <2>3. Waiting \/ Leaving
    BY <2>1 DEF IInv, Down, Starting, Running
  <2>4. (Waiting \/ Leaving)'
    BY <1>1, <2>2, <2>3 DEF Waiting, Leaving, Up, Usable, TaskOfSupl,
       Interests, app
  <2>5. QED
    BY <1>1, <2>1, <2>2, <2>4 DEF IInv, TypeOK, app, net
<1>4. QED
  BY <1>2, <1>3

LEMMA NextIInv == IInv /\ [Next]_vars => IInv'
<1> SUFFICES ASSUME IInv, [Next]_vars PROVE IInv'
  OBVIOUS
<1>1. CASE Process
  BY <1>1, ConnectStep, ConnectingStep, PlainGotoStep, HandshakeSendStep,
     HandshakeRecvStep, EstablishedStep, MessageStep, ReceiveStep, LeaveStep
     DEF Process
<1>2. CASE Schedule \/ RunUpdate \/ RunTeardown \/ SessionEvent \/ SendFails \/ Peer
  BY <1>2, ScheduleStep, RunUpdateStep, RunTeardownStep, EventStep, OutsideStep
<1>3. CASE UNCHANGED vars
  <2>1. TypeOK'
    BY <1>3 DEF vars, IInv, TypeOK
  <2>2. (Down \/ Starting \/ Running \/ Waiting \/ Leaving)'
    BY <1>3 DEF vars, IInv, Down, Starting, Running, Waiting, Leaving, Up,
       Usable, TaskOfSupl, Interests
  <2>3. QED
    BY <2>1, <2>2 DEF IInv
<1>4. QED
  BY <1>1, <1>2, <1>3 DEF Next

LEMMA SpecIInv == Spec => []IInv
BY InitIInv, NextIInv, PTL DEF Spec

----------------------------------------------------------------------------
(***************************************************************************)
(* The theorems.                                                           *)
(***************************************************************************)

\* Every variable has its type, in every reachable state, for every set of
\* descriptors and however much the server sends.
THEOREM TypeCorrect == Spec => []TypeOK
<1>1. IInv => TypeOK
  BY DEF IInv
<1>2. QED
  BY <1>1, SpecIInv, PTL

\* The socket that is registered with the scheduler is the one that is open,
\* although SessionTask::update is deferred (session.cpp, SessionTask).
THEOREM RegistrationFollowsTheSocket == Spec => []RegisteredIsOpen
<1>1. IInv => RegisteredIsOpen
  BY DEF IInv, RegisteredIsOpen, Down, Starting, Running, Waiting, Leaving,
     TaskOfSupl, Interests, Usable, NoTask, NoSupl
<1>2. QED
  BY <1>1, SpecIInv, PTL

\* A session that waits is registered for exactly the events it has states
\* for: SessionTask::update, which only compares with what it remembers, never
\* leaves a registration behind or out.
THEOREM RegistrationFollowsTheStates == Spec => []InterestsFollowStates
<1>1. IInv => InterestsFollowStates
  <2> SUFFICES ASSUME IInv, pc = "idle", deferred = <<>>
               PROVE  task = IF supl = NoSupl THEN NoTask ELSE Interests
    BY DEF InterestsFollowStates, Interests
  <2>1. CASE Down
    BY <2>1 DEF Down
  <2>2. CASE Waiting
    BY <2>2 DEF Waiting, Usable, NoSupl
  <2>3. QED
    BY <2>1, <2>2 DEF IInv, Starting, Running, Leaving
<1>2. QED
  BY <1>1, SpecIInv, PTL

\* The program reconnects from a state in which that works, and process never
\* stops in DISCONNECTED with nobody told (session.cpp, "invalid supl session").
THEOREM TheProgramCanReconnect == Spec => []ReconnectIsPossible
<1>1. IInv => ReconnectIsPossible
  BY DEF IInv, ReconnectIsPossible, Down, Starting, Running, Waiting, Leaving,
     Up, Connecting, Handshake, Messages
<1>2. QED
  BY <1>1, SpecIInv, PTL

\* The assertions of session.cpp and client.cpp hold: UNREACHABLE in
\* state_unknown, and the ASSERTs that a scheduler is set when the session
\* runs and when the one deferred tear-down does.
THEOREM TheAssertionsHold == Spec => []AssertsHold
<1> DEFINE teardowns == {i \in 1 .. Len(deferred) : deferred[i].call = "teardown"}
<1>1. ASSUME IInv PROVE AssertsHold
  <2>1. pc # "idle" => attached /\ state # "UNKNOWN"
    BY <1>1 DEF IInv, Down, Starting, Running, Waiting, Leaving, Up
  <2>2. teardowns = {} \/ (attached /\ teardowns \subseteq {1})
    <3>1. CASE Down \/ Waiting
      <4>1. \A fd, n : Update(fd, n).call = "update"
        BY DEF Update
      <4>2. deferred = <<>> \/ \E fd, n : deferred = <<Update(fd, n)>>
        BY <3>1 DEF Down, Waiting
      <4>3. QED
        BY <4>1, <4>2
    <3>2. CASE Starting \/ Running
      BY <3>2 DEF Starting, Running
    <3>3. CASE Leaving
      <4>1. attached /\ (\/ deferred = <<Teardown>>
                         \/ deferred = <<Teardown, Update(-1, NoNexts)>>)
        BY <3>3 DEF Leaving, Up
      <4>2. Update(-1, NoNexts).call = "update"
        BY DEF Update
      <4>3. QED
        BY <4>1, <4>2
    <3>4. QED
      BY <1>1, <3>1, <3>2, <3>3 DEF IInv
  <2> HIDE DEF teardowns
  <2>3. \A i \in teardowns : attached /\ \A j \in teardowns : i = j
    BY <2>2
  <2>4. QED
    BY <2>1, <2>3 DEF AssertsHold, teardowns
<1>2. QED
  BY <1>1, SpecIInv, PTL

----------------------------------------------------------------------------
(***************************************************************************)
(* The refinement of LppLink.                                              *)
(***************************************************************************)

\* The states of a connection that is over.
Over == {"ConnectionFailed", "ERROR", "DISCONNECTED", "EXIT"}

\* The link does not move while the state of the TcpClient does not and the
\* state of the session stays on its side of the handshake and of the end.
LEMMA LinkStays ==
    ASSUME supl.st # "null", supl'.st # "null", supl'.tcp = supl.tcp,
           state \in Over <=> state' \in Over,
           state \in Messages <=> state' \in Messages
    PROVE  link' = link
BY DEF link, NoSupl, Over, Messages

\* It breaks with the TcpClient and at the end of the session.
LEMMA LinkBreaks ==
    ASSUME supl.st # "null", supl'.st # "null",
           supl'.tcp \in {"none", "DISCONNECTED"} \/ state' \in Over
    PROVE  Link!Break
BY DEF link, NoSupl, Over, Link!Break

\* A state function that waits, with the supl::Session as it was or cut.
LEMMA WaitLink ==
    ASSUME supl.st # "null", supl'.st # "null",
           supl'.tcp \in {supl.tcp, "none", "DISCONNECTED"},
           NEW n, Wait(supl', n)
    PROVE  [Link!Next]_link
<1>1. CASE supl'.tcp = supl.tcp /\ state' = state
  BY <1>1, LinkStays
<1>2. CASE supl'.tcp \in {"none", "DISCONNECTED"} \/ state' = "DISCONNECTED"
  BY <1>2, LinkBreaks DEF Over, Link!Next
<1>3. QED
  BY <1>1, <1>2 DEF Wait

\* The state functions of a session with a connection.
LEMMA ProcessLink ==
    ASSUME IInv, Process, ~StateConnect
    PROVE  [Link!Next]_link
<1>1. TypeOK /\ (Running \/ Leaving)
  BY DEF IInv, Process, StateConnecting, StateFailed, StateConnected,
     StateHandshakeSend, StateHandshakeRecv, StatePosinit, StateEstablished,
     StateMessage, Receive, StateDisconnected, StateExit, In, Down, Starting,
     Waiting
<1>2. supl.st # "null" /\ supl \in Supls
  BY <1>1 DEF Running, Leaving, TypeOK
<1>3. CASE StateConnecting
  <2>1. CASE /\ supl' = [Cut(supl) EXCEPT !.st = "DISCONNECTED"]
             /\ Goto("ConnectionFailed")
    <3>1. supl'.st = "DISCONNECTED" /\ state' \in Over
      BY <1>1, <2>1, CutType DEF Supls, Goto, Over
    <3>2. QED
      BY <1>2, <3>1, LinkBreaks DEF Link!Next
  <2>2. CASE /\ supl.tcp = "CONNECTING" /\ Goto("CONNECTED")
             /\ supl' = [supl EXCEPT !.st = "CONNECTED", !.tcp = "CONNECTED"]
    <3>1. link = "connecting"
      BY <1>2, <1>3, <2>2 DEF link, NoSupl, StateConnecting, In
    <3>2. supl'.st = "CONNECTED" /\ supl'.tcp = "CONNECTED" /\ state' = "CONNECTED"
      BY <1>2, <2>2 DEF Goto, Supls
    <3>3. link' = "handshake"
      BY <3>2 DEF link, NoSupl
    <3>4. QED
      BY <3>1, <3>3 DEF Link!Next, Link!Connected
  <2>3. ASSUME NEW n, UNCHANGED supl, Wait(supl, n)
        PROVE  [Link!Next]_link
    BY <1>2, <2>3, WaitLink
  <2>4. QED
    BY <1>3, <2>1, <2>2, <2>3 DEF StateConnecting
<1>4. CASE StateFailed \/ StateDisconnected \/ StateExit
  <2>1. UNCHANGED supl /\ state \in Over /\ state' \in Over
    BY <1>4 DEF StateFailed, StateDisconnected, StateExit, In, Goto, Over
  <2>2. QED
    BY <1>2, <2>1, LinkBreaks DEF Link!Next
<1>5. CASE StateConnected
  <2>1. UNCHANGED supl /\ state = "CONNECTED" /\ state' = "SuplHandshakeSend"
    BY <1>5 DEF StateConnected, In, Goto
  <2>2. QED
    BY <1>2, <2>1, LinkStays DEF Over, Messages
<1>6. CASE StateHandshakeSend
  <2>1. CASE UNCHANGED supl /\ state' = "DISCONNECTED"
    BY <1>2, <2>1, LinkBreaks DEF Over, Link!Next
  <2>2. ASSUME NEW n, supl' = [supl EXCEPT !.st = "WaitForHandshake"], Wait(supl', n)
        PROVE  [Link!Next]_link
    <3>1. supl'.st = "WaitForHandshake" /\ supl'.tcp = supl.tcp
      BY <1>2, <2>2 DEF Supls
    <3>2. QED
      BY <1>2, <2>2, <3>1, WaitLink
  <2>3. QED
    BY <1>6, <2>1, <2>2 DEF StateHandshakeSend, Goto
<1>7. CASE StateHandshakeRecv
  <2>1. ASSUME NEW n, NEW rest, supl' = [supl EXCEPT !.buffer = rest], Wait(supl', n)
        PROVE  [Link!Next]_link
    <3>1. supl'.st = supl.st /\ supl'.tcp = supl.tcp
      BY <1>2, <2>1 DEF Supls
    <3>2. QED
      BY <1>2, <2>1, <3>1, WaitLink
  <2>2. ASSUME NEW rest, supl' = [supl EXCEPT !.buffer = rest, !.st = "CONNECTED"],
               Goto("SuplPosinit")
        PROVE  [Link!Next]_link
    <3>1. supl'.st = "CONNECTED" /\ supl'.tcp = supl.tcp
      BY <1>2, <2>2 DEF Supls
    <3>2. state = "SuplHandshakeRecv" /\ state' = "SuplPosinit"
      BY <1>7, <2>2 DEF StateHandshakeRecv, In, Goto
    <3>3. QED
      BY <1>2, <3>1, <3>2, LinkStays DEF Over, Messages
  <2>3. QED
    BY <1>7, <2>1, <2>2 DEF StateHandshakeRecv
<1>8. CASE StatePosinit
  <2>1. UNCHANGED supl /\ state = "SuplPosinit"
    BY <1>8 DEF StatePosinit, In
  <2>2. CASE state' = "DISCONNECTED"
    BY <1>2, <2>1, <2>2, LinkBreaks DEF Over, Link!Next
  <2>3. CASE supl.tcp = "CONNECTED" /\ state' = "ESTABLISHED"
    BY <1>2, <2>1, <2>3 DEF link, NoSupl, Link!Next, Link!Establish
  <2>4. QED
    BY <1>8, <2>2, <2>3 DEF StatePosinit, Goto, CanSend
<1>9. CASE StateEstablished
  <2>1. supl'.st = supl.st /\ supl'.tcp \in {supl.tcp, "none", "DISCONNECTED"}
    BY <1>1, <1>9, CutType DEF StateEstablished
  <2>2. QED
    BY <1>2, <1>9, <2>1, WaitLink DEF StateEstablished
<1>10. CASE StateMessage
  <2>1. CASE state' = "DISCONNECTED" /\ UNCHANGED supl
    BY <1>2, <2>1, LinkBreaks DEF Over, Link!Next
  <2>2. CASE UNCHANGED state /\ supl' = [supl EXCEPT !.buffer = Filled]
    <3>1. supl'.st = supl.st /\ supl'.tcp = supl.tcp
      BY <1>2, <2>2 DEF Supls
    <3>2. QED
      BY <1>2, <2>2, <3>1, LinkStays
  <2>3. QED
    BY <1>10, <2>1, <2>2 DEF StateMessage, Goto
<1>11. CASE Receive
  <2> DEFINE rest == [supl EXCEPT !.buffer = Tail(@)]
  <2>1. rest.st = supl.st /\ rest.tcp = supl.tcp /\ DOMAIN rest = DOMAIN supl
    BY <1>2 DEF Supls
  <2>2. Cut(rest).st = supl.st /\ Cut(rest).tcp \in {"none", "DISCONNECTED"}
    <3>1. rest \in [st : {supl.st}, tcp : {supl.tcp}, fd : {supl.fd},
                    buffer : {Tail(supl.buffer)}]
      BY <1>2 DEF Supls
    <3> HIDE DEF rest
    <3>2. QED
      BY <3>1 DEF Cut
  <2>3. supl' \in {supl, rest, Cut(rest)}
    BY <1>11 DEF Receive
  <2> HIDE DEF rest
  <2>4. supl'.st = supl.st /\ supl'.tcp \in {supl.tcp, "none", "DISCONNECTED"}
    BY <2>1, <2>2, <2>3
  <2>5. CASE state' = "DISCONNECTED"
    BY <1>2, <2>4, <2>5, LinkBreaks DEF Over, Link!Next
  <2>6. CASE UNCHANGED state
    <3>1. CASE supl'.tcp = supl.tcp
      BY <1>2, <2>4, <2>6, <3>1, LinkStays
    <3>2. CASE supl'.tcp \in {"none", "DISCONNECTED"}
      BY <1>2, <2>4, <3>2, LinkBreaks DEF Link!Next
    <3>3. QED
      BY <2>4, <3>1, <3>2
  <2>7. QED
    BY <1>11, <2>5, <2>6 DEF Receive, Goto, Wait
<1>12. QED
  BY <1>3, <1>4, <1>5, <1>6, <1>7, <1>8, <1>9, <1>10, <1>11 DEF Process

\* LppSession implements LppLink: a connection goes through its phases in
\* order, whatever the server, the users and the scheduler do, and is torn
\* down before the next one begins.
THEOREM SessionImplementsLink == Spec => ImplementsLink
<1>1. Init => Link!Init
  BY DEF Init, Link!Init, link
<1>2. IInv /\ [Next]_vars => [Link!Next]_link
  <2> SUFFICES ASSUME IInv, [Next]_vars PROVE [Link!Next]_link
    OBVIOUS
  <2>1. CASE StateConnect
    <3>1. supl = NoSupl
      BY <2>1 DEF IInv, StateConnect, In, Down, Starting, Running, Waiting,
         Leaving, Connecting
    <3>2. CASE supl' = [NoSupl EXCEPT !.st = "UNKNOWN"]
      <4>1. supl'.st = "UNKNOWN" /\ supl'.tcp = "none"
        BY <3>2 DEF NoSupl
      <4>2. link = "null" /\ link' = "broken"
        BY <3>1, <4>1 DEF link, NoSupl
      <4>3. QED
        BY <4>2 DEF Link!Next, Link!Begin
    <3>3. ASSUME NEW n, supl'.st = "CONNECTING", supl'.tcp = "CONNECTING",
                 Wait(supl', n)
          PROVE  [Link!Next]_link
      <4>1. state' \in {"CONNECT", "DISCONNECTED"}
        BY <2>1, <3>3 DEF StateConnect, In, Wait
      <4>2. link = "null" /\ link' \in {"connecting", "broken"}
        BY <3>1, <3>3, <4>1 DEF link, NoSupl
      <4>3. QED
        BY <4>2 DEF Link!Next, Link!Begin
    <3>4. QED
      BY <2>1, <3>1, <3>2, <3>3 DEF StateConnect
  <2>2. CASE Process /\ ~StateConnect
    BY <2>2, ProcessLink
  <2>3. CASE Schedule
    <3>1. supl = NoSupl /\ supl' = NoSupl
      BY <2>3, ScheduleStep DEF Starting, Schedule
    <3>2. QED
      BY <3>1 DEF link
  <2>4. CASE RunUpdate \/ Peer \/ UNCHANGED vars
    BY <2>4 DEF link, RunUpdate, Peer, PeerAccepts, PeerSends, PeerCloses,
       PeerResets, vars
  <2>5. CASE RunTeardown
    BY <2>5 DEF link, RunTeardown, Link!Next, Link!TearDown
  <2>6. CASE SessionEvent
    <3>1. supl' = supl /\ supl.st # "null"
      BY <2>6, EventStep DEF SessionEvent, Waiting, Usable
    <3>2. \/ state' \in Over
          \/ /\ state \in Over <=> state' \in Over
             /\ state \in Messages <=> state' \in Messages
      BY <2>6, EventStep DEF Connecting, Handshake, Messages, Over
    <3>3. QED
      BY <3>1, <3>2, LinkStays, LinkBreaks DEF Link!Next
  <2>7. CASE SendFails
    <3>1. supl # NoSupl /\ supl' = Cut(supl) /\ pc = "idle" /\ TypeOK
      BY <2>7 DEF SendFails, OtherEvents, IInv
    <3>2. supl.st # "null"
      BY <3>1 DEF IInv, Down, Starting, Running, Waiting, Leaving, Usable
    <3>3. supl'.st = supl.st /\ supl'.tcp \in {"none", "DISCONNECTED"}
      BY <3>1, CutType
    <3>4. QED
      BY <3>2, <3>3, LinkBreaks DEF Link!Next
  <2>8. QED
    BY <2>1, <2>2, <2>3, <2>4, <2>5, <2>6, <2>7 DEF Next
<1>3. QED
  BY <1>1, <1>2, SpecIInv, PTL DEF Spec, ImplementsLink, Link!Spec
============================================================================

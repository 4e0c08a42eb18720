---------------------------- MODULE StreamsProofs ----------------------------
(***************************************************************************)
(* Proofs about ClientStream, for every size of the write buffer and of    *)
(* the socket's, every choice of what the program writes, and every number *)
(* of bytes and of connections; and about LoopbackStreams, for every set   *)
(* of descriptors.                                                         *)
(*                                                                         *)
(* The inductive invariant IInv of ClientStream says in which of three     *)
(* phases the task is and what then holds of its event, its socket and the *)
(* stream; that the bytes on their way are in order and not ahead of what  *)
(* was written; and that in the first connection mWriteRegistered, the     *)
(* interest in writing and the write buffer say the same.                  *)
(*                                                                         *)
(* It holds against a TcpServerStream too, and so does an invariant of the *)
(* server.  RemovalsFindTheirClient alone is not inductive: it does not    *)
(* exclude a removal that names no client, whose descriptor Accept could   *)
(* hand out.  ServerInv says that while the server is scheduled the        *)
(* removals that wait and the clients that are being destroyed are the     *)
(* same, one for one.                                                      *)
(***************************************************************************)
EXTENDS LoopbackStreams, FiniteSetTheorems, TLAPS

TaskStates   == {"Unscheduled", "Connecting", "Connected", "Disconnected", "Error"}
StreamStates == {"Initial", "Connecting", "Connected", "Disconnected", "Error"}
SocketStates == {"none", "unconnected", "connecting", "open", "refused", "lost"}
Calls        == {"disconnect", "retry", "arm"}
AllEvents    == Always \cup {"Read", "Write"}

StreamType ==
    /\ config \in [path : BOOLEAN, reconnect : BOOLEAN]
    /\ state \in TaskStates
    /\ interests \in SUBSET AllEvents
    /\ timer \in {"off", "armed", "expired"}
    /\ deferred \in Seq(Calls)
    /\ stream \in StreamStates
    /\ buffer \in Seq(Nat)
    /\ writing \in BOOLEAN
    /\ socket \in [st : SocketStates, out : Seq(Nat), readable : BOOLEAN]
    /\ up \in BOOLEAN
    /\ accepted \in Nat
    /\ written \in Nat
    /\ got \in Nat

\* The task has no connection and no event.
Idle ==
    /\ state \in {"Unscheduled", "Disconnected", "Error"}
    /\ interests = {}
    /\ \E st \in {"none", "unconnected"} :
          socket = [st |-> st, out |-> <<>>, readable |-> FALSE]
    /\ stream # "Connected"

\* A connection is in progress, or established and the task does not know.
Connecting ==
    /\ state = "Connecting"
    /\ interests = AllEvents
    /\ socket.st \notin {"none", "unconnected"} /\ socket.out = <<>>
    /\ socket.readable => socket.st \in {"open", "lost"}
    /\ stream = "Connecting"
    /\ socket.st \in {"open", "lost"} => accepted >= 1

\* The task has been connected and not been told that it is no longer.
Online ==
    /\ state = "Connected"
    /\ Always \cup {"Read"} \subseteq interests
    /\ socket.st \in {"open", "lost"}
    /\ stream \in {"Connected", "Error"}
    /\ accepted >= 1

\* The bytes in s increase and lie above low and not above high.
Between(s, low, high) ==
    /\ Increasing(s)
    /\ \A i \in DOMAIN s : low < s[i] /\ s[i] <= high

\* What the peer has read, what it can read, what waits in the buffer and
\* what has been written, in this order.
BytesInv ==
    /\ got <= written
    /\ Between(socket.out, got, written)
    /\ Between(buffer, got, written)
    /\ \A i \in DOMAIN socket.out, j \in DOMAIN buffer : socket.out[i] < buffer[j]
    /\ Len(socket.out) <= SocketSize

\* Until the first connection is known to the task the buffer is empty; in it
\* the buffer, mWriteRegistered and the event agree.
FirstInv ==
    /\ (accepted = 0 \/ (accepted = 1 /\ state = "Connecting"
                           /\ socket.st \in {"open", "lost"}))
         => buffer = <<>> /\ ~writing
    /\ state = "Connected" /\ accepted = 1
         => /\ writing <=> buffer # <<>>
            /\ writing <=> "Write" \in interests

IInv == StreamType /\ (Idle \/ Connecting \/ Online) /\ BytesInv /\ FirstInv

-----------------------------------------------------------------------------
(***************************************************************************)
(* Bytes on their way                                                      *)
(***************************************************************************)

\* A part of a sequence is ordered and bounded as the whole is.
LEMMA PartBetween ==
    ASSUME NEW s \in Seq(Nat), NEW low \in Nat, NEW high \in Nat,
           NEW m \in Nat \ {0}, NEW n \in 0..Len(s), Between(s, low, high)
    PROVE  /\ SubSeq(s, m, n) \in Seq(Nat)
           /\ Len(SubSeq(s, m, n)) = IF m <= n THEN n - m + 1 ELSE 0
           /\ m <= n => SubSeq(s, m, n) # <<>>
           /\ Between(SubSeq(s, m, n), low, high)
           /\ \A i \in DOMAIN SubSeq(s, m, n) :
                i + m - 1 \in DOMAIN s /\ SubSeq(s, m, n)[i] = s[i + m - 1]
<1> DEFINE p == SubSeq(s, m, n)
<1>1. p \in Seq(Nat) /\ Len(p) = IF m <= n THEN n - m + 1 ELSE 0
  OBVIOUS
<1>2. \A i \in DOMAIN p : i + m - 1 \in DOMAIN s /\ p[i] = s[i + m - 1]
  BY <1>1
<1>3. \A i, j \in DOMAIN p : i < j => i + m - 1 < j + m - 1
  BY <1>1
<1>4. ASSUME m <= n PROVE p # <<>>
  <2>1. n - m + 1 # 0
    BY <1>4
  <2>2. Len(p) # 0
    BY <1>1, <1>4, <2>1
  <2> HIDE DEF p
  <2>. QED
    BY <2>2
<1>. QED
  BY <1>1, <1>2, <1>3, <1>4 DEF Between, Increasing

\* Where an element of two sequences in a row comes from.
LEMMA InJoin ==
    ASSUME NEW s \in Seq(Nat), NEW t \in Seq(Nat), NEW i \in DOMAIN (s \o t)
    PROVE  \/ i \in DOMAIN s /\ (s \o t)[i] = s[i]
           \/ i - Len(s) \in DOMAIN t /\ (s \o t)[i] = t[i - Len(s)]
<1>1. Len(s) \in Nat /\ Len(t) \in Nat /\ i \in 1..(Len(s) + Len(t))
  OBVIOUS
<1>. QED
  BY <1>1

\* Two ordered sequences, one after the other.
LEMMA JoinIncreasing ==
    ASSUME NEW s \in Seq(Nat), NEW t \in Seq(Nat), Increasing(s), Increasing(t),
           \A i \in DOMAIN s, j \in DOMAIN t : s[i] < t[j]
    PROVE  Increasing(s \o t)
<1> DEFINE w == s \o t
<1>1. /\ w \in Seq(Nat) /\ Len(w) = Len(s) + Len(t)
      /\ \A i \in DOMAIN w : w[i] = IF i <= Len(s) THEN s[i] ELSE t[i - Len(s)]
  OBVIOUS
<1>2. \A i \in DOMAIN w : IF i <= Len(s) THEN i \in DOMAIN s ELSE i - Len(s) \in DOMAIN t
  BY <1>1
<1> SUFFICES ASSUME NEW i \in DOMAIN w, NEW j \in DOMAIN w, i < j PROVE w[i] < w[j]
  BY DEF Increasing
<1>3. CASE j <= Len(s)
  BY <1>3, <1>1, <1>2 DEF Increasing
<1>4. CASE i <= Len(s) /\ j > Len(s)
  BY <1>4, <1>1, <1>2
<1>5. CASE i > Len(s)
  <2>1. i - Len(s) \in DOMAIN t /\ j - Len(s) \in DOMAIN t /\ i - Len(s) < j - Len(s)
    BY <1>5, <1>1, <1>2
  <2>. QED
    BY <2>1, <1>5, <1>1 DEF Increasing
<1>. QED
  BY <1>3, <1>4, <1>5, <1>1

LEMMA JoinBetween ==
    ASSUME NEW s \in Seq(Nat), NEW t \in Seq(Nat), NEW low \in Nat, NEW high \in Nat,
           Between(s, low, high), Between(t, low, high),
           \A i \in DOMAIN s, j \in DOMAIN t : s[i] < t[j]
    PROVE  /\ s \o t \in Seq(Nat) /\ Between(s \o t, low, high)
           /\ Len(s \o t) = Len(s) + Len(t)
<1>1. Increasing(s \o t)
  BY JoinIncreasing DEF Between
<1>2. \A i \in DOMAIN (s \o t) : low < (s \o t)[i] /\ (s \o t)[i] <= high
  BY InJoin DEF Between
<1>. QED
  BY <1>1, <1>2 DEF Between

\* What is above a bound is above a lower one, and below a higher one.
LEMMA WiderBetween ==
    ASSUME NEW s \in Seq(Nat), NEW low \in Nat, NEW high \in Nat,
           NEW l \in Nat, NEW h \in Nat, l <= low, high <= h, Between(s, low, high)
    PROVE  Between(s, l, h)
<1>1. \A i \in DOMAIN s : s[i] \in Nat
  OBVIOUS
<1>. QED
  BY <1>1 DEF Between

\* What WriteBuffer::enqueue keeps is the end of what it had and was given, and
\* something if it was given something.
LEMMA EnqueueFacts ==
    ASSUME NEW b \in Seq(Nat), NEW s \in Seq(Nat), NEW low \in Nat, NEW high \in Nat,
           Between(b \o s, low, high)
    PROVE  /\ Enqueue(b, s) \in Seq(Nat)
           /\ Between(Enqueue(b, s), low, high)
           /\ s # <<>> => Enqueue(b, s) # <<>>
           /\ \A j \in DOMAIN Enqueue(b, s) :
                \E k \in DOMAIN (b \o s) : Enqueue(b, s)[j] = (b \o s)[k]
<1> DEFINE all == b \o s
<1>1. all \in Seq(Nat) /\ Len(all) = Len(b) + Len(s) /\ Len(all) \in Nat
  OBVIOUS
<1>2. BufferSize \in Nat /\ BufferSize >= 1
  BY ClientStreamAssumption
<1>3. s # <<>> => Len(s) >= 1
  OBVIOUS
<1>4. CASE Len(all) <= BufferSize
  <2>1. Enqueue(b, s) = all
    BY <1>4 DEF Enqueue
  <2>. QED
    BY <2>1, <1>1, <1>3
<1>5. CASE Len(all) > BufferSize
  <2> DEFINE l == Len(all)
             m == l - BufferSize + 1
             part == SubSeq(all, m, l)
  <2>1. Enqueue(b, s) = part
    <3>1. ~(Len(all) <= BufferSize)
      BY <1>5, <1>1, <1>2
    <3>. QED
      BY <3>1 DEF Enqueue
  <2>2. all \in Seq(Nat) /\ l = Len(all) /\ l \in Nat /\ l > BufferSize
    BY <1>5, <1>1
  <2>3. Between(all, low, high)
    OBVIOUS
  <2> HIDE DEF l, all
  <2>4. m \in Nat \ {0} /\ l \in 0..Len(all) /\ m <= l
    BY <2>2, <1>2
  <2> HIDE DEF m
  <2>5. /\ part \in Seq(Nat) /\ Between(part, low, high) /\ part # <<>>
        /\ \A i \in DOMAIN part : i + m - 1 \in DOMAIN all /\ part[i] = all[i + m - 1]
    BY <2>2, <2>3, <2>4, PartBetween
  <2> HIDE DEF part
  <2>6. \A j \in DOMAIN part : \E k \in DOMAIN all : part[j] = all[k]
    BY <2>5
  <2>. QED
    BY <2>1, <2>5, <2>6 DEF all
<1>6. Len(all) <= BufferSize \/ Len(all) > BufferSize
  BY <1>1, <1>2
<1>. QED
  BY <1>4, <1>5, <1>6

\* The kernel takes what it has room for.
LEMMA TakenFacts ==
    ASSUME StreamType, Len(socket.out) <= SocketSize, NEW s \in Seq(Nat)
    PROVE  /\ Taken(s) \in 0..Len(s)
           /\ Len(socket.out) + Taken(s) <= SocketSize
           /\ Taken(s) = 0 \/ Taken(s) >= 1
<1> DEFINE a == Len(s)
           o == Len(socket.out)
<1>1. a \in Nat /\ o \in Nat /\ SocketSize \in Nat /\ o <= SocketSize
  BY ClientStreamAssumption DEF StreamType
<1>2. Taken(s) = IF a < SocketSize - o THEN a ELSE SocketSize - o
  BY DEF Taken
<1> HIDE DEF a, o
<1>3. /\ Taken(s) \in 0..a /\ o + Taken(s) <= SocketSize
      /\ Taken(s) = 0 \/ Taken(s) >= 1
  BY <1>1, <1>2
<1>. QED
  BY <1>3 DEF a, o

-----------------------------------------------------------------------------
(***************************************************************************)
(* The steps of the task                                                   *)
(***************************************************************************)

LEMMA InitIInv == Init => IInv
<1> SUFFICES ASSUME Init PROVE IInv
  OBVIOUS
<1>1. StreamType
  <2>1. deferred = <<>> /\ <<>> \in Seq(Calls) /\ <<>> \in Seq(Nat)
    BY DEF Init
  <2>2. socket \in [st : SocketStates, out : Seq(Nat), readable : BOOLEAN]
    BY <2>1 DEF Init, NoSocket, SocketStates
  <2>. QED
    BY <2>1, <2>2 DEF Init, StreamType, TaskStates, StreamStates
<1>2. Idle
  BY DEF Init, Idle, NoSocket
<1>3. BytesInv
  BY ClientStreamAssumption DEF Init, BytesInv, Between, Increasing, NoSocket
<1>4. FirstInv
  BY DEF Init, FirstInv
<1>. QED
  BY <1>1, <1>2, <1>3, <1>4 DEF IInv

\* What a descriptor that is closed or lost takes with it: the order of the
\* bytes that are left is what it was.
LEMMA LosesOut ==
    ASSUME IInv, socket'.out = <<>>, UNCHANGED <<buffer, got, written>>
    PROVE  BytesInv'
<1>1. DOMAIN socket'.out = {} /\ Len(socket'.out) = 0 /\ SocketSize \in Nat
  BY ClientStreamAssumption
<1>. QED
  BY <1>1 DEF IInv, BytesInv, Between, Increasing

LEMMA KeepsBytes ==
    ASSUME IInv, socket'.out = socket.out, UNCHANGED <<buffer, got, written>>
    PROVE  BytesInv'
BY DEF IInv, BytesInv, Between, Increasing

\* A task without an event connects, or fails to.
LEMMA ConnectsInv ==
    ASSUME IInv, interests = {}, NEW how \in Outcomes, Connects(how),
           deferred' \in Seq(Calls), UNCHANGED <<config, buffer, writing, up, got, written>>
    PROVE  IInv'
<1>1. Idle /\ StreamType /\ BytesInv /\ FirstInv
  BY DEF IInv, Connecting, Online, AllEvents, Always
<1>2. CASE how = "at once"
  <2>1. /\ state' = "Connected" /\ stream' = "Connected" /\ timer' = "off"
        /\ interests' = Always \cup {"Read"}
        /\ socket' = [st |-> "open", out |-> <<>>, readable |-> FALSE]
        /\ accepted' = accepted + 1
    BY <1>2 DEF Connects, NoSocket
  <2>2. StreamType'
    BY <1>1, <2>1 DEF StreamType, TaskStates, StreamStates, SocketStates, AllEvents
  <2>3. Online'
    BY <2>1, <1>1 DEF Online, StreamType
  <2>4. FirstInv'
    BY <2>1, <1>1 DEF FirstInv, StreamType, Always
  <2>. QED
    BY <2>1, <2>2, <2>3, <2>4, LosesOut DEF IInv
<1>3. CASE how = "in progress"
  <2>1. /\ state' = "Connecting" /\ stream' = "Connecting" /\ timer' = "off"
        /\ interests' = AllEvents /\ accepted' = accepted
        /\ socket' = [st |-> "connecting", out |-> <<>>, readable |-> FALSE]
    BY <1>3 DEF Connects, NoSocket, AllEvents
  <2>2. StreamType'
    BY <1>1, <2>1 DEF StreamType, TaskStates, StreamStates, SocketStates
  <2>3. Connecting'
    BY <2>1 DEF Connecting
  <2>4. FirstInv'
    BY <2>1, <1>1 DEF FirstInv
  <2>. QED
    BY <2>1, <2>2, <2>3, <2>4, LosesOut DEF IInv
<1>4. CASE how \in {"fails", "refused"}
  <2> DEFINE open == [st |-> "unconnected", out |-> <<>>, readable |-> FALSE]
  <2>1. /\ state' = "Error" /\ stream' \in {"Connecting", "Error"}
        /\ timer' \in {"armed", "off"} /\ UNCHANGED <<interests, accepted>>
        /\ socket' = socket \/ socket' = open
    BY <1>4 DEF Connects, NoSocket
  <2>2. StreamType'
    <3>1. <<>> \in Seq(Nat)
      OBVIOUS
    <3>2. open \in [st : SocketStates, out : Seq(Nat), readable : BOOLEAN]
      BY <3>1 DEF SocketStates
    <3>3. socket' \in [st : SocketStates, out : Seq(Nat), readable : BOOLEAN]
      BY <1>1, <2>1, <3>2 DEF StreamType
    <3>. QED
      BY <1>1, <2>1, <3>3 DEF StreamType, TaskStates, StreamStates
  <2>3. Idle' /\ socket'.out = socket.out
    BY <2>1, <1>1 DEF Idle, NoSocket
  <2>4. FirstInv'
    BY <2>1, <1>1 DEF FirstInv
  <2>. QED
    BY <2>1, <2>2, <2>3, <2>4, KeepsBytes DEF IInv
<1>. QED
  BY <1>2, <1>3, <1>4 DEF Outcomes

LEMMA ScheduleInv == ASSUME IInv, Schedule PROVE IInv'
<1>1. stream = "Initial" /\ StreamType /\ deferred' = deferred
  BY DEF Schedule, IInv
<1>2. PICK how \in Outcomes : Connects(how)
  BY DEF Schedule
<1>3. interests = {}
  BY <1>1 DEF IInv, Idle, Connecting, Online
<1>. QED
  BY <1>1, <1>2, <1>3, ConnectsInv DEF Schedule, StreamType

\* The task closes its descriptor.
LEMMA DisconnectInv ==
    ASSUME IInv, Disconnect, deferred' \in Seq(Calls),
           UNCHANGED <<config, accepted, buffer, writing, up, got, written>>
    PROVE  IInv'
<1>1. StreamType /\ FirstInv /\ (Idle \/ Connecting \/ Online)
  BY DEF IInv
<1>2. CASE state \notin {"Connecting", "Connected"}
  <2>1. UNCHANGED <<state, interests, timer, stream, socket>> /\ Idle
    BY <1>1, <1>2 DEF Disconnect, task, Connecting, Online
  <2>. QED
    BY <2>1, <1>1, KeepsBytes DEF IInv, StreamType, Idle, FirstInv
<1>3. CASE state \in {"Connecting", "Connected"}
  <2>1. /\ state' = "Disconnected" /\ interests' = {} /\ socket' = NoSocket
        /\ stream' \in StreamStates \ {"Connected"} /\ timer' = timer
    BY <1>1, <1>3 DEF Disconnect, Idle, Connecting, Online, StreamStates
  <2>2. StreamType'
    BY <2>1, <1>1 DEF StreamType, TaskStates, StreamStates, SocketStates, NoSocket
  <2>3. Idle' /\ FirstInv'
    <3>1. Idle'
      BY <2>1 DEF Idle, NoSocket, StreamStates
    <3>2. FirstInv'
      BY <2>1, <1>1 DEF FirstInv
    <3>. QED
      BY <3>1, <3>2
  <2>4. BytesInv'
    BY <2>1, LosesOut DEF NoSocket
  <2>. QED
    BY <2>2, <2>3, <2>4 DEF IInv
<1>. QED
  BY <1>2, <1>3

LEMMA RunDeferredInv == ASSUME IInv, RunDeferred PROVE IInv'
<1>1. /\ deferred \in Seq(Calls) /\ deferred # <<>> /\ deferred' = Tail(deferred)
      /\ UNCHANGED <<config, buffer, writing, up, got, written>>
      /\ StreamType /\ FirstInv /\ (Idle \/ Connecting \/ Online)
  BY DEF IInv, StreamType, RunDeferred
<1>2. Head(deferred) \in Calls /\ deferred' \in Seq(Calls)
  BY <1>1
<1>3. CASE Head(deferred) = "disconnect"
  <2>1. Disconnect /\ accepted' = accepted
    BY <1>3 DEF RunDeferred
  <2>. QED
    BY <2>1, <1>1, <1>2, DisconnectInv
<1>4. ASSUME UNCHANGED <<state, interests, stream, socket, accepted>>,
             timer' \in {"off", "armed", "expired"}
      PROVE  IInv'
  BY <1>1, <1>2, <1>4, KeepsBytes
     DEF IInv, StreamType, Idle, Connecting, Online, FirstInv
<1>5. CASE Head(deferred) = "retry"
  <2>1. Retry
    BY <1>5 DEF RunDeferred
  <2>2. CASE interests # {}
    BY <2>1, <2>2, <1>4 DEF Retry
  <2>3. CASE interests = {}
    <3>1. PICK how \in Outcomes : Connects(how)
      BY <2>1, <2>3 DEF Retry
    <3>. QED
      BY <3>1, <2>3, <1>1, <1>2, ConnectsInv
  <2>. QED
    BY <2>2, <2>3
<1>6. CASE Head(deferred) = "arm"
  <2>1. /\ UNCHANGED <<state, interests, stream, socket, accepted>>
        /\ timer' = IF timer = "off" THEN "armed" ELSE timer
    BY <1>6 DEF RunDeferred
  <2>. QED
    BY <2>1, <1>1, <1>4 DEF StreamType
<1>. QED
  BY <1>2, <1>3, <1>5, <1>6 DEF Calls

\* A step that changes nothing but the deferred calls and the timer.
LEMMA DefersInv ==
    ASSUME IInv, deferred' \in Seq(Calls), timer' \in {"off", "armed", "expired"},
           UNCHANGED <<config, state, interests, stream, buffer, writing, socket, peer,
                       written>>
    PROVE  IInv'
BY KeepsBytes DEF IInv, StreamType, Idle, Connecting, Online, FirstInv, peer

LEMMA TimerAndErrorInv == ASSUME IInv, TimerExpires \/ ErrorEvent PROVE IInv'
<1>1. <<"retry">> \in Seq(Calls) /\ <<"disconnect">> \in Seq(Calls)
      /\ <<"arm">> \in Seq(Calls) /\ <<>> \in Seq(Calls)
  BY DEF Calls
<1>2. CASE TimerExpires
  BY <1>1, <1>2, DefersInv DEF TimerExpires, peer
<1>3. CASE ErrorEvent
  <2>1. deferred' \in Seq(Calls)
    BY <1>1, <1>3 DEF ErrorEvent
  <2>2. timer \in {"off", "armed", "expired"}
    BY DEF IInv, StreamType
  <2>. QED
    BY <2>1, <2>2, <1>3, DefersInv DEF ErrorEvent, task, peer
<1>. QED
  BY <1>2, <1>3

-----------------------------------------------------------------------------
(***************************************************************************)
(* Events of the socket                                                    *)
(***************************************************************************)

\* What is taken from the buffer goes to the socket: the bytes stay in order.
LEMMA DrainInv ==
    ASSUME IInv, Drain, state = "Connected", socket.st = "open",
           UNCHANGED <<config, timer, deferred, peer, written, state, stream>>
    PROVE  IInv'
<1> DEFINE n == Taken(buffer)
           l == Len(buffer)
           put == SubSeq(buffer, 1, n)
           left == SubSeq(buffer, n + 1, l)
<1>1. /\ StreamType /\ Online /\ BytesInv /\ FirstInv
      /\ buffer \in Seq(Nat) /\ l \in Nat /\ got \in Nat /\ written \in Nat
      /\ socket.out \in Seq(Nat) /\ Len(socket.out) \in Nat /\ SocketSize \in Nat
  BY ClientStreamAssumption DEF IInv, Idle, Connecting, StreamType
<1>2. n \in 0..l /\ Len(socket.out) + n <= SocketSize
  BY <1>1, TakenFacts DEF BytesInv
<1>3. /\ buffer' = left
      /\ socket' = [socket EXCEPT !.readable = FALSE, !.out = @ \o put]
      /\ IF left = <<>> /\ writing
         THEN interests' = Always \cup {"Read"} /\ writing' = FALSE
         ELSE UNCHANGED <<interests, writing>>
  BY DEF Drain, AfterRead
<1>4. /\ socket'.out = socket.out \o put /\ socket'.st = "open"
      /\ socket' \in [st : SocketStates, out : {socket.out \o put}, readable : BOOLEAN]
  BY <1>1, <1>3 DEF StreamType
<1> HIDE DEF n
<1>5. /\ put \in Seq(Nat) /\ Between(put, got, written) /\ Len(put) = n
      /\ \A i \in DOMAIN put : i \in DOMAIN buffer /\ put[i] = buffer[i]
  <2>1. 1 \in Nat \ {0} /\ n \in 0..Len(buffer) /\ Between(buffer, got, written)
    BY <1>1, <1>2 DEF BytesInv
  <2>2. /\ put \in Seq(Nat) /\ Between(put, got, written)
        /\ Len(put) = IF 1 <= n THEN n - 1 + 1 ELSE 0
        /\ \A i \in DOMAIN put : i + 1 - 1 \in DOMAIN buffer /\ put[i] = buffer[i + 1 - 1]
    BY <2>1, <1>1, PartBetween
  <2>3. \A i \in DOMAIN put : i + 1 - 1 = i
    BY <2>2
  <2> HIDE DEF put
  <2>. QED
    BY <2>2, <2>3, <1>2, <1>1
<1>6. /\ left \in Seq(Nat) /\ Between(left, got, written)
      /\ \A i \in DOMAIN left : i + n \in DOMAIN buffer /\ left[i] = buffer[i + n]
  <2> DEFINE m == n + 1
  <2>1. m \in Nat \ {0} /\ l \in 0..Len(buffer) /\ Between(buffer, got, written)
    BY <1>1, <1>2 DEF BytesInv
  <2> HIDE DEF l
  <2>2. /\ SubSeq(buffer, m, l) \in Seq(Nat)
        /\ Between(SubSeq(buffer, m, l), got, written)
        /\ \A i \in DOMAIN SubSeq(buffer, m, l) :
             i + m - 1 \in DOMAIN buffer /\ SubSeq(buffer, m, l)[i] = buffer[i + m - 1]
    <3> HIDE DEF m
    <3>. QED
      BY <2>1, <1>1, PartBetween
  <2>3. left \in Seq(Nat) /\ Between(left, got, written)
        /\ \A i \in DOMAIN left : i + m - 1 \in DOMAIN buffer /\ left[i] = buffer[i + m - 1]
    BY <2>2
  <2>4. \A i \in DOMAIN left : i + m - 1 = i + n
    BY <2>3, <1>2
  <2> HIDE DEF left, m
  <2>. QED
    BY <2>3, <2>4
<1>7. \A i \in DOMAIN put, j \in DOMAIN left : put[i] < left[j]
  <2> SUFFICES ASSUME NEW i \in DOMAIN put, NEW j \in DOMAIN left PROVE put[i] < left[j]
    OBVIOUS
  <2> HIDE DEF put, left
  <2>1. i \in 1..n /\ j \in Nat \ {0}
    BY <1>5, <1>6
  <2>2. i < j + n
    BY <2>1, <1>2
  <2>. QED
    BY <2>2, <1>1, <1>5, <1>6 DEF BytesInv, Between, Increasing
<1> DEFINE out == socket.out \o put
<1>8. out \in Seq(Nat) /\ Between(out, got, written) /\ Len(out) = Len(socket.out) + n
  <2>1. \A i \in DOMAIN socket.out, j \in DOMAIN put : socket.out[i] < put[j]
    BY <1>5 DEF BytesInv, IInv
  <2>2. Between(socket.out, got, written)
    BY <1>1 DEF BytesInv
  <2>3. Len(out) = Len(socket.out) + Len(put)
    BY <1>1, <1>5
  <2> HIDE DEF put, l
  <2>. QED
    BY <2>1, <2>2, <2>3, <1>1, <1>5, JoinBetween
<1>9. \A i \in DOMAIN out, j \in DOMAIN left : out[i] < left[j]
  <2> SUFFICES ASSUME NEW i \in DOMAIN out, NEW j \in DOMAIN left PROVE out[i] < left[j]
    OBVIOUS
  <2>1. \/ i \in DOMAIN socket.out /\ out[i] = socket.out[i]
        \/ i - Len(socket.out) \in DOMAIN put /\ out[i] = put[i - Len(socket.out)]
    <3> HIDE DEF put
    <3>. QED
      BY <1>1, <1>5, InJoin
  <2>2. j + n \in DOMAIN buffer /\ left[j] = buffer[j + n]
    BY <1>6
  <2> HIDE DEF out, put, left
  <2>. QED
    BY <2>1, <2>2, <1>1, <1>7 DEF BytesInv
<1> HIDE DEF put, left, out
<1>10. BytesInv'
  <2>1. socket'.out = out /\ buffer' = left /\ got' = got /\ written' = written
    BY <1>3, <1>4 DEF out, peer
  <2>. QED
    BY <2>1, <1>1, <1>2, <1>6, <1>8, <1>9 DEF BytesInv, Between, Increasing
<1>11. StreamType'
  <2>1. socket' \in [st : SocketStates, out : Seq(Nat), readable : BOOLEAN]
    BY <1>4, <1>8 DEF out
  <2>2. interests' \in SUBSET AllEvents /\ writing' \in BOOLEAN
    BY <1>3, <1>1 DEF StreamType, AllEvents
  <2>. QED
    BY <2>1, <2>2, <1>1, <1>3, <1>6 DEF StreamType, peer
<1>12. Online'
  BY <1>1, <1>3, <1>4 DEF Online, peer
<1>13. FirstInv'
  <2>1. ASSUME buffer = <<>> PROVE left = <<>>
    <3>1. l = 0 /\ n = 0
      BY <2>1, <1>2
    <3>. QED
      BY <3>1, <2>1 DEF left
  <2>2. /\ state' = "Connected" /\ accepted' = accepted /\ buffer' = left
        /\ accepted >= 1 /\ accepted \in Nat
    BY <1>1, <1>3 DEF peer, Online, StreamType
  <2>3. ASSUME accepted = 1
        PROVE  /\ writing' <=> left # <<>>
               /\ writing' <=> "Write" \in interests'
    <3>1. writing \in BOOLEAN /\ (writing <=> buffer # <<>>)
          /\ (writing <=> "Write" \in interests)
      BY <2>3, <1>1 DEF FirstInv, Online, StreamType
    <3>2. CASE left = <<>> /\ writing
      BY <3>2, <1>3 DEF Always
    <3>3. CASE ~(left = <<>> /\ writing)
      <4>1. UNCHANGED <<interests, writing>>
        BY <3>3, <1>3
      <4>. QED
        BY <4>1, <3>1, <3>3, <2>1, Zenon
    <3>. QED
      BY <3>2, <3>3
  <2>. QED
    BY <2>2, <2>3 DEF FirstInv
<1>. QED
  BY <1>10, <1>11, <1>12, <1>13 DEF IInv

LEMMA IoEventInv == ASSUME IInv, IoEvent PROVE IInv'
<1>1. /\ StreamType /\ (Idle \/ Connecting \/ Online) /\ BytesInv /\ FirstInv
      /\ UNCHANGED <<config, timer, deferred, up, accepted, got, written>>
      /\ SocketSize \in Nat \ {0}
  BY ClientStreamAssumption DEF IInv, IoEvent, peer
<1>2. interests # {} /\ socket.st \notin {"lost", "refused"}
      /\ (socket.readable \/ socket.st = "open")
  BY DEF IoEvent, Triggered
<1>3. socket.st = "open" /\ (Connecting \/ Online) /\ accepted >= 1
  BY <1>1, <1>2 DEF Idle, Connecting, Online
<1>4. state = "Connecting" => "Write" \in Triggered
  <2>1. state = "Connecting" => Connecting /\ Len(socket.out) = 0
    BY <1>3 DEF Connecting, Online
  <2>. QED
    BY <2>1, <1>1, <1>3 DEF Connecting, Triggered, AllEvents
<1>5. PICK lost \in BOOLEAN :
        IF "Write" \in Triggered /\ state = "Connecting"
        THEN /\ state' = "Connected"
             /\ stream' = "Connected"
             /\ interests' = Always \cup {"Read"}
             /\ socket' = AfterRead(lost)
             /\ UNCHANGED <<buffer, writing>>
        ELSE IF "Write" \in Triggered /\ ~lost
        THEN /\ Drain
             /\ UNCHANGED <<state, stream>>
        ELSE /\ stream' = StreamAfterRead(lost)
             /\ socket' = AfterRead(lost)
             /\ UNCHANGED <<state, interests, buffer, writing>>
  BY DEF IoEvent
<1>6. ASSUME socket' = AfterRead(lost), buffer' = buffer
      PROVE  /\ socket' \in [st : SocketStates, out : Seq(Nat), readable : BOOLEAN]
             /\ socket'.st \in {"open", "lost"}
             /\ BytesInv'
  <2>1. CASE lost
    <3>1. socket' = [st |-> "lost", out |-> <<>>, readable |-> FALSE]
      BY <2>1, <1>6 DEF AfterRead, NoSocket
    <3>2. <<>> \in Seq(Nat)
      OBVIOUS
    <3>. QED
      BY <3>1, <3>2, <1>1, <1>6, LosesOut DEF SocketStates
  <2>2. CASE ~lost
    <3>1. socket' = [socket EXCEPT !.readable = FALSE]
      BY <2>2, <1>6 DEF AfterRead
    <3>2. socket'.out = socket.out /\ socket'.st = "open"
          /\ socket' \in [st : SocketStates, out : Seq(Nat), readable : BOOLEAN]
      BY <3>1, <1>1, <1>3 DEF StreamType
    <3>. QED
      BY <3>2, <1>1, <1>6, KeepsBytes
  <2>. QED
    BY <2>1, <2>2
<1>7. CASE state = "Connecting"
  <2>1. /\ state' = "Connected" /\ stream' = "Connected"
        /\ interests' = Always \cup {"Read"} /\ UNCHANGED <<buffer, writing>>
        /\ socket' = AfterRead(lost)
    BY <1>4, <1>5, <1>7
  <2>2. StreamType'
    BY <2>1, <1>1, <1>6 DEF StreamType, TaskStates, StreamStates, AllEvents
  <2>3. Online'
    BY <2>1, <1>1, <1>3, <1>6 DEF Online
  <2>4. FirstInv'
    BY <2>1, <1>1, <1>3, <1>7 DEF FirstInv, Always, StreamType
  <2>. QED
    BY <2>1, <2>2, <2>3, <2>4, <1>6 DEF IInv
<1>8. CASE state # "Connecting" /\ "Write" \in Triggered /\ ~lost
  <2>1. Drain /\ UNCHANGED <<state, stream>> /\ state = "Connected"
    BY <1>3, <1>5, <1>8 DEF Connecting, Online
  <2>. QED
    BY <2>1, <1>1, <1>3, DrainInv DEF peer
<1>9. CASE state # "Connecting" /\ ~("Write" \in Triggered /\ ~lost)
  <2>1. /\ stream' = StreamAfterRead(lost) /\ socket' = AfterRead(lost) /\ Online
        /\ UNCHANGED <<state, interests, buffer, writing>>
    BY <1>3, <1>5, <1>9 DEF Connecting
  <2>2. stream' \in {"Connected", "Error"}
    BY <2>1 DEF StreamAfterRead, Online
  <2>3. StreamType'
    BY <2>1, <2>2, <1>1, <1>6 DEF StreamType, StreamStates
  <2>4. Online'
    BY <2>1, <2>2, <1>1, <1>6 DEF Online
  <2>5. FirstInv'
    BY <2>1, <1>1 DEF FirstInv, Online
  <2>. QED
    BY <2>1, <2>3, <2>4, <2>5, <1>6 DEF IInv
<1>. QED
  BY <1>7, <1>8, <1>9

-----------------------------------------------------------------------------
(***************************************************************************)
(* The peer and the network                                                *)
(***************************************************************************)

\* A connection ends, whoever ends it.
LEMMA BreakInv ==
    ASSUME IInv, socket.st = "open", up' \in BOOLEAN,
           socket' = [socket EXCEPT !.st = "lost", !.out = <<>>],
           UNCHANGED <<config, state, interests, timer, deferred, stream, buffer, writing,
                       accepted, got, written>>
    PROVE  IInv'
<1>1. /\ socket' \in [st : SocketStates, out : Seq(Nat), readable : BOOLEAN]
      /\ socket'.st = "lost" /\ socket'.out = <<>> /\ socket'.readable = socket.readable
  <2>1. <<>> \in Seq(Nat)
    OBVIOUS
  <2>. QED
    BY <2>1 DEF IInv, StreamType, SocketStates
<1>2. StreamType'
  BY <1>1 DEF IInv, StreamType
<1>3. Connecting' \/ Online'
  BY <1>1 DEF IInv, Idle, Connecting, Online, NoSocket
<1>4. FirstInv' /\ BytesInv'
  BY <1>1, LosesOut DEF IInv, FirstInv
<1>. QED
  BY <1>2, <1>3, <1>4 DEF IInv

\* The peer accepts connections, or no longer.
LEMMA PeerRestartsInv == ASSUME IInv, PeerRestarts PROVE IInv'
<1>1. UNCHANGED <<config, state, interests, timer, deferred, stream, buffer, writing,
                  socket, accepted, got, written>> /\ up' \in BOOLEAN
  BY DEF PeerRestarts, task, IInv, StreamType
<1>. QED
  BY <1>1, KeepsBytes DEF IInv, StreamType, Idle, Connecting, Online, FirstInv

LEMMA PeerWritesInv == ASSUME IInv, PeerWrites PROVE IInv'
<1>1. UNCHANGED <<config, state, interests, timer, deferred, stream, buffer, writing,
                  up, accepted, got, written>>
      /\ socket.st = "open" /\ socket' = [socket EXCEPT !.readable = TRUE]
  BY DEF PeerWrites, task, peer
<1>2. /\ socket' \in [st : SocketStates, out : Seq(Nat), readable : BOOLEAN]
      /\ socket'.st = "open" /\ socket'.out = socket.out
  BY <1>1 DEF IInv, StreamType
<1>3. Connecting' \/ Online'
  BY <1>1, <1>2 DEF IInv, Idle, Connecting, Online, NoSocket
<1>. QED
  BY <1>1, <1>2, <1>3, KeepsBytes DEF IInv, StreamType, FirstInv

LEMMA EstablishesInv == ASSUME IInv, Establishes PROVE IInv'
<1>1. /\ UNCHANGED <<config, state, interests, timer, deferred, stream, buffer, writing,
                     up, got, written>>
      /\ socket.st = "connecting" /\ accepted \in Nat
      /\ StreamType /\ Connecting /\ FirstInv
  BY DEF Establishes, task, IInv, Idle, Online, StreamType, NoSocket
<1>2. \/ socket' = [socket EXCEPT !.st = "open"] /\ accepted' = accepted + 1
      \/ socket' = [socket EXCEPT !.st = "refused"] /\ accepted' = accepted
  BY DEF Establishes
<1>3. /\ socket' \in [st : SocketStates, out : Seq(Nat), readable : BOOLEAN]
      /\ socket'.out = socket.out /\ ~socket'.readable
      /\ \/ socket'.st = "open" /\ accepted' = accepted + 1
         \/ socket'.st = "refused" /\ accepted' = accepted
  BY <1>1, <1>2 DEF StreamType, SocketStates, Connecting
<1>4. StreamType'
  BY <1>1, <1>3 DEF StreamType
<1>5. Connecting'
  BY <1>1, <1>3 DEF Connecting
<1>6. FirstInv'
  BY <1>1, <1>3 DEF FirstInv, Connecting
<1>. QED
  BY <1>1, <1>3, <1>4, <1>5, <1>6, KeepsBytes DEF IInv

\* The peer takes the first byte it can read.
LEMMA PeerReadsInv == ASSUME IInv, PeerReads PROVE IInv'
<1> DEFINE out == socket.out
<1>1. /\ UNCHANGED <<config, state, interests, timer, deferred, stream, buffer, writing,
                     up, accepted, written>>
      /\ out # <<>> /\ got' = Head(out) /\ socket' = [socket EXCEPT !.out = Tail(out)]
      /\ StreamType /\ BytesInv
  BY DEF PeerReads, task, IInv
<1>2. /\ out \in Seq(Nat) /\ buffer \in Seq(Nat) /\ got \in Nat /\ written \in Nat
      /\ SocketSize \in Nat /\ Len(out) <= SocketSize
  BY <1>1, ClientStreamAssumption DEF StreamType, BytesInv
<1>3. /\ socket'.out = Tail(out) /\ socket'.st = socket.st
      /\ socket'.readable = socket.readable
      /\ socket' \in [st : SocketStates, out : {Tail(out)}, readable : BOOLEAN]
  BY <1>1 DEF StreamType
<1>4. socket.out # NoSocket.out /\ Online
  BY <1>1 DEF IInv, Idle, Connecting, NoSocket
<1>5. /\ Between(out, got, written) /\ Between(buffer, got, written)
      /\ \A i \in DOMAIN out, j \in DOMAIN buffer : out[i] < buffer[j]
  BY <1>1 DEF BytesInv
<1> HIDE DEF out
<1>6. /\ Tail(out) \in Seq(Nat) /\ Len(Tail(out)) = Len(out) - 1 /\ Len(out) >= 1
      /\ Len(out) \in Nat /\ Head(out) = out[1] /\ 1 \in DOMAIN out
      /\ \A i \in DOMAIN Tail(out) : i + 1 \in DOMAIN out /\ Tail(out)[i] = out[i + 1]
      /\ \A i \in DOMAIN Tail(out) : i \in Nat /\ 1 < i + 1
  BY <1>1, <1>2
<1>7. \A i \in DOMAIN out : out[i] \in Nat
  BY <1>2
<1>8. /\ got' \in Nat /\ got' <= written
      /\ Between(Tail(out), got', written) /\ Between(buffer, got', written)
  <2>1. got' = out[1] /\ out[1] \in Nat /\ out[1] <= written
    BY <1>1, <1>5, <1>6, <1>7 DEF Between
  <2>2. \A i \in DOMAIN Tail(out) : out[1] < Tail(out)[i] /\ Tail(out)[i] <= written
    BY <1>5, <1>6 DEF Between, Increasing
  <2>3. \A i, j \in DOMAIN Tail(out) : i < j => i + 1 < j + 1
    BY <1>6
  <2>4. Increasing(Tail(out))
    BY <2>3, <1>5, <1>6 DEF Between, Increasing
  <2>5. \A j \in DOMAIN buffer : out[1] < buffer[j]
    BY <1>5, <1>6
  <2>. QED
    BY <2>1, <2>2, <2>4, <2>5, <1>5 DEF Between
<1>9. \A i \in DOMAIN Tail(out), j \in DOMAIN buffer : Tail(out)[i] < buffer[j]
  BY <1>5, <1>6
<1>10. BytesInv'
  <2>1. Len(Tail(out)) <= SocketSize
    BY <1>2, <1>6
  <2>. QED
    BY <2>1, <1>1, <1>3, <1>8, <1>9 DEF BytesInv, Between, Increasing
<1>11. StreamType'
  BY <1>1, <1>3, <1>6, <1>8 DEF StreamType
<1>12. Online' /\ FirstInv'
  BY <1>1, <1>3, <1>4 DEF Online, FirstInv, IInv
<1>. QED
  BY <1>10, <1>11, <1>12 DEF IInv

-----------------------------------------------------------------------------
(***************************************************************************)
(* TcpClientStream::write                                                  *)
(***************************************************************************)

\* The bytes of one write.
LEMMA NewBytes ==
    ASSUME NEW w \in Nat, NEW length \in Nat, NEW low \in Nat, low <= w
    PROVE  LET bytes == [i \in 1..length |-> w + i]
           IN  /\ bytes \in Seq(Nat) /\ Len(bytes) = length
               /\ Between(bytes, low, w + length)
               /\ \A i \in DOMAIN bytes : w < bytes[i]
<1> DEFINE bytes == [i \in 1..length |-> w + i]
<1>1. \A i \in 1..length : bytes[i] = w + i /\ w + i \in Nat /\ w < w + i
                             /\ low < w + i /\ w + i <= w + length
  OBVIOUS
<1>2. bytes \in Seq(Nat) /\ Len(bytes) = length /\ DOMAIN bytes = 1..length
  BY <1>1
<1>3. \A i, j \in 1..length : i < j => w + i < w + j
  OBVIOUS
<1> HIDE DEF bytes
<1>4. Between(bytes, low, w + length)
  BY <1>1, <1>2, <1>3 DEF Between, Increasing
<1>. QED
  BY <1>1, <1>2, <1>4 DEF bytes

LEMMA WriteInv == ASSUME IInv, NEW length \in Lengths, Write(length) PROVE IInv'
<1> DEFINE bytes == [i \in 1..length |-> written + i]
           n == IF buffer = <<>> THEN Taken(bytes) ELSE 0
           rest == SubSeq(bytes, n + 1, length)
           put == SubSeq(bytes, 1, n)
           out == socket.out
           new == written + length
<1>1. /\ UNCHANGED <<config, state, timer, deferred, stream, up, accepted, got>>
      /\ written' = new
      /\ StreamType /\ BytesInv /\ FirstInv /\ (Idle \/ Connecting \/ Online)
  BY DEF Write, IInv, peer
<1>2. /\ out \in Seq(Nat) /\ buffer \in Seq(Nat) /\ got \in Nat /\ written \in Nat
      /\ SocketSize \in Nat /\ Len(out) \in Nat /\ Len(out) <= SocketSize
      /\ length \in Nat /\ length >= 1 /\ got <= written
  BY <1>1, ClientStreamAssumption DEF StreamType, BytesInv
<1>3. new \in Nat /\ written <= new /\ got <= new
  BY <1>2
<1>4. IF stream # "Connected" \/ (buffer = <<>> /\ socket.st = "lost")
      THEN UNCHANGED <<interests, buffer, writing, socket>>
      ELSE /\ socket' = [socket EXCEPT !.out = @ \o put]
           /\ IF rest = <<>>
              THEN UNCHANGED <<interests, buffer, writing>>
              ELSE /\ buffer' = Enqueue(buffer, rest)
                   /\ writing' = TRUE
                   /\ interests' = IF writing THEN interests
                                   ELSE Always \cup {"Read", "Write"}
  BY DEF Write
<1>5. /\ Between(out, got, written) /\ Between(buffer, got, written)
      /\ \A i \in DOMAIN out, j \in DOMAIN buffer : out[i] < buffer[j]
  BY <1>1 DEF BytesInv
<1>6. /\ bytes \in Seq(Nat) /\ Len(bytes) = length
      /\ Between(bytes, written, new) /\ Between(bytes, got, new)
      /\ \A i \in DOMAIN bytes : written < bytes[i] /\ bytes[i] \in Nat
  <2>1. written <= written
    BY <1>2
  <2>2. /\ bytes \in Seq(Nat) /\ Len(bytes) = length
        /\ Between(bytes, written, written + length)
        /\ \A i \in DOMAIN bytes : written < bytes[i]
    BY <1>2, <2>1, NewBytes
  <2>3. Between(bytes, got, written + length)
    BY <1>2, NewBytes
  <2>4. \A i \in DOMAIN bytes : bytes[i] \in Nat
    BY <1>2
  <2>. QED
    BY <2>2, <2>3, <2>4
<1> HIDE DEF bytes, out, new
<1>7. Between(out, got, new) /\ Between(buffer, got, new)
  BY <1>2, <1>3, <1>5, WiderBetween
<1>8. /\ \A i \in DOMAIN out : out[i] \in Nat /\ out[i] <= written
      /\ \A i \in DOMAIN buffer : buffer[i] \in Nat /\ buffer[i] <= written
  BY <1>2, <1>5 DEF Between
<1>9. n \in 0..length /\ Len(out) + n <= SocketSize /\ (buffer # <<>> => n = 0)
  BY <1>1, <1>2, <1>6, TakenFacts DEF out
<1> HIDE DEF n
<1>10. /\ put \in Seq(Nat) /\ Between(put, got, new) /\ Len(put) = n
       /\ \A i \in DOMAIN put : i \in DOMAIN bytes /\ put[i] = bytes[i]
  <2>1. 1 \in Nat \ {0} /\ n \in 0..Len(bytes) /\ bytes \in Seq(Nat)
        /\ got \in Nat /\ new \in Nat /\ Between(bytes, got, new)
    BY <1>2, <1>3, <1>6, <1>9
  <2>2. /\ put \in Seq(Nat) /\ Between(put, got, new)
        /\ Len(put) = IF 1 <= n THEN n - 1 + 1 ELSE 0
        /\ \A i \in DOMAIN put : i + 1 - 1 \in DOMAIN bytes /\ put[i] = bytes[i + 1 - 1]
    BY <2>1, PartBetween
  <2>3. \A i \in DOMAIN put : i + 1 - 1 = i
    BY <2>2
  <2> HIDE DEF put
  <2>. QED
    BY <2>2, <2>3, <1>9, <1>2
<1>11. /\ rest \in Seq(Nat) /\ Between(rest, got, new)
       /\ \A i \in DOMAIN rest : i + n \in DOMAIN bytes /\ rest[i] = bytes[i + n]
  <2> DEFINE m == n + 1
  <2>1. m \in Nat \ {0} /\ length \in 0..Len(bytes) /\ bytes \in Seq(Nat)
        /\ got \in Nat /\ new \in Nat /\ Between(bytes, got, new)
    BY <1>2, <1>3, <1>6, <1>9
  <2> HIDE DEF m
  <2>2. /\ SubSeq(bytes, m, length) \in Seq(Nat)
        /\ Between(SubSeq(bytes, m, length), got, new)
        /\ \A i \in DOMAIN SubSeq(bytes, m, length) :
             i + m - 1 \in DOMAIN bytes /\ SubSeq(bytes, m, length)[i] = bytes[i + m - 1]
    BY <2>1, PartBetween
  <2>3. rest \in Seq(Nat) /\ Between(rest, got, new)
        /\ \A i \in DOMAIN rest : i + m - 1 \in DOMAIN bytes /\ rest[i] = bytes[i + m - 1]
    BY <2>2 DEF m
  <2>4. \A i \in DOMAIN rest : i + m - 1 = i + n
    BY <2>3, <1>9 DEF m
  <2> HIDE DEF rest
  <2>. QED
    BY <2>3, <2>4
<1>12. \A i \in DOMAIN put, j \in DOMAIN rest : put[i] < rest[j]
  <2> SUFFICES ASSUME NEW i \in DOMAIN put, NEW j \in DOMAIN rest PROVE put[i] < rest[j]
    OBVIOUS
  <2> HIDE DEF put, rest
  <2>1. i \in 1..n /\ j \in Nat \ {0}
    BY <1>10, <1>11
  <2>2. i < j + n
    BY <2>1, <1>9
  <2>. QED
    BY <2>2, <1>6, <1>10, <1>11 DEF Between, Increasing
<1> HIDE DEF put, rest
<1>13. /\ out \o put \in Seq(Nat) /\ Between(out \o put, got, new)
       /\ Len(out \o put) = Len(out) + n
  <2>1. \A i \in DOMAIN out, j \in DOMAIN put : out[i] < put[j]
    BY <1>2, <1>6, <1>8, <1>10
  <2>2. /\ out \o put \in Seq(Nat) /\ Between(out \o put, got, new)
        /\ Len(out \o put) = Len(out) + Len(put)
    BY <2>1, <1>2, <1>3, <1>7, <1>10, JoinBetween
  <2>. QED
    BY <2>2, <1>10
<1>14. CASE stream # "Connected" \/ (buffer = <<>> /\ socket.st = "lost")
  <2>1. UNCHANGED <<interests, buffer, writing, socket>>
    BY <1>4, <1>14
  <2>2. BytesInv'
    BY <2>1, <1>1, <1>2, <1>3, <1>5, <1>7 DEF BytesInv, Between, Increasing, out
  <2>. QED
    BY <2>1, <2>2, <1>1, <1>3
       DEF IInv, StreamType, Idle, Connecting, Online, FirstInv
<1>15. CASE ~(stream # "Connected" \/ (buffer = <<>> /\ socket.st = "lost"))
  <2>1. Online /\ socket' = [socket EXCEPT !.out = out \o put]
    BY <1>1, <1>4, <1>15 DEF Idle, Connecting, out
  <2>2. /\ socket'.out = out \o put /\ socket'.st = socket.st
        /\ socket' \in [st : SocketStates, out : Seq(Nat), readable : BOOLEAN]
    BY <2>1, <1>1, <1>13 DEF StreamType
  <2>3. CASE rest = <<>>
    <3>1. UNCHANGED <<interests, buffer, writing>>
      BY <2>3, <1>4, <1>15
    <3>2. \A i \in DOMAIN (out \o put), j \in DOMAIN buffer : (out \o put)[i] < buffer[j]
      <4>1. CASE buffer = <<>>
        BY <4>1
      <4>2. CASE buffer # <<>>
        <5>1. n = 0 /\ Len(put) = 0
          BY <4>2, <1>9, <1>10
        <5>2. out \o put = out
          BY <5>1, <1>2, <1>10
        <5>. QED
          BY <5>2, <1>5
      <4>. QED
        BY <4>1, <4>2
    <3>3. BytesInv'
      BY <3>1, <3>2, <2>2, <1>1, <1>3, <1>7, <1>9, <1>13
         DEF BytesInv, Between, Increasing
    <3>. QED
      BY <3>1, <3>3, <2>1, <2>2, <1>1, <1>3 DEF IInv, StreamType, Online, FirstInv
  <2>4. CASE rest # <<>>
    <3>1. /\ buffer' = Enqueue(buffer, rest) /\ writing' = TRUE
          /\ interests' = IF writing THEN interests ELSE Always \cup {"Read", "Write"}
      BY <2>4, <1>4, <1>15
    <3>2. Between(buffer \o rest, got, new)
      <4>1. \A i \in DOMAIN buffer, j \in DOMAIN rest : buffer[i] < rest[j]
        BY <1>2, <1>6, <1>8, <1>11
      <4>. QED
        BY <4>1, <1>2, <1>3, <1>7, <1>11, JoinBetween
    <3>3. /\ buffer' \in Seq(Nat) /\ Between(buffer', got, new) /\ buffer' # <<>>
          /\ \A j \in DOMAIN buffer' :
               \E k \in DOMAIN (buffer \o rest) : buffer'[j] = (buffer \o rest)[k]
      BY <3>1, <3>2, <2>4, <1>2, <1>3, <1>11, EnqueueFacts
    <3>4. \A i \in DOMAIN (out \o put), j \in DOMAIN buffer' : (out \o put)[i] < buffer'[j]
      <4> SUFFICES ASSUME NEW i \in DOMAIN (out \o put), NEW j \in DOMAIN buffer'
                   PROVE  (out \o put)[i] < buffer'[j]
        OBVIOUS
      <4>1. PICK k \in DOMAIN (buffer \o rest) : buffer'[j] = (buffer \o rest)[k]
        BY <3>3
      <4>2. \/ k \in DOMAIN buffer /\ buffer'[j] = buffer[k]
            \/ k - Len(buffer) \in DOMAIN rest /\ buffer'[j] = rest[k - Len(buffer)]
        BY <4>1, <1>2, <1>11, InJoin
      <4>3. \/ i \in DOMAIN out /\ (out \o put)[i] = out[i]
            \/ i - Len(out) \in DOMAIN put /\ (out \o put)[i] = put[i - Len(out)]
        BY <1>2, <1>10, InJoin
      <4>4. buffer # <<>> => DOMAIN put = {}
        BY <1>9, <1>10
      <4>5. buffer = <<>> => DOMAIN buffer = {}
        OBVIOUS
      <4>6. \A a \in DOMAIN out, b \in DOMAIN rest : out[a] < rest[b]
        BY <1>2, <1>6, <1>8, <1>11
      <4>. QED
        BY <4>2, <4>3, <4>4, <4>5, <4>6, <1>5, <1>12
    <3>5. BytesInv'
      BY <3>3, <3>4, <2>2, <1>1, <1>3, <1>9, <1>13 DEF BytesInv, Between, Increasing
    <3>6. StreamType'
      BY <3>1, <3>3, <2>2, <1>1, <1>3 DEF StreamType, AllEvents
    <3>7. Online'
      BY <3>1, <2>1, <2>2, <1>1 DEF Online
    <3>8. FirstInv'
      <4>1. accepted = 1 => (writing => "Write" \in interests)
        BY <2>1, <1>1 DEF FirstInv, Online
      <4>2. accepted = 1 => "Write" \in interests'
        BY <4>1, <3>1
      <4>3. state' = "Connected" /\ accepted >= 1 /\ accepted \in Nat /\ accepted' = accepted
        BY <2>1, <1>1 DEF Online, StreamType
      <4>. QED
        BY <4>2, <4>3, <3>1, <3>3 DEF FirstInv
    <3>. QED
      BY <3>5, <3>6, <3>7, <3>8 DEF IInv
  <2>. QED
    BY <2>3, <2>4
<1>. QED
  BY <1>14, <1>15

-----------------------------------------------------------------------------
(***************************************************************************)
(* The invariant and what follows from it                                  *)
(***************************************************************************)

LEMMA NextIInv == IInv /\ [Next]_vars => IInv'
<1> SUFFICES ASSUME IInv, [Next]_vars PROVE IInv'
  OBVIOUS
<1>1. CASE Schedule
  BY <1>1, ScheduleInv
<1>2. CASE RunDeferred
  BY <1>2, RunDeferredInv
<1>3. CASE TimerExpires \/ ErrorEvent
  BY <1>3, TimerAndErrorInv
<1>4. CASE IoEvent
  BY <1>4, IoEventInv
<1>5. ASSUME NEW length \in Lengths, Write(length) PROVE IInv'
  BY <1>5, WriteInv
<1>6. CASE Establishes
  BY <1>6, EstablishesInv
<1>7. CASE Lost \/ PeerStops
  <2>1. up' \in BOOLEAN
    BY <1>7 DEF Lost, PeerStops, peer, IInv, StreamType
  <2>. QED
    BY <1>7, <2>1, BreakInv DEF Lost, PeerStops, peer, task
<1>8. CASE PeerReads
  BY <1>8, PeerReadsInv
<1>9. CASE PeerWrites
  BY <1>9, PeerWritesInv
<1>10. CASE PeerRestarts
  BY <1>10, PeerRestartsInv
<1>11. CASE UNCHANGED vars
  <2>1. timer \in {"off", "armed", "expired"} /\ deferred \in Seq(Calls)
    BY DEF IInv, StreamType
  <2>. QED
    BY <1>11, <2>1, DefersInv DEF vars, task, peer
<1>. QED
  BY <1>1, <1>2, <1>3, <1>4, <1>5, <1>6, <1>7, <1>8, <1>9, <1>10, <1>11 DEF Next

\* The three phases of the task are what StreamFollowsTask says of them.
LEMMA PhasesFollow == IInv => StreamFollowsTask
<1> SUFFICES ASSUME IInv PROVE StreamFollowsTask
  OBVIOUS
<1>1. CASE Idle
  BY <1>1 DEF Idle, StreamFollowsTask, Always, NoSocket
<1>2. CASE Connecting
  BY <1>2 DEF Connecting, StreamFollowsTask, Always, AllEvents
<1>3. CASE Online
  BY <1>3 DEF Online, StreamFollowsTask, Always
<1>. QED
  BY <1>1, <1>2, <1>3 DEF IInv

\* What is between the ends of the three parts is in order over all of them.
LEMMA PartsInOrder == IInv => BytesInOrder
<1> SUFFICES ASSUME IInv PROVE BytesInOrder
  OBVIOUS
<1> DEFINE out == socket.out
           head == <<got>> \o out
<1>1. /\ out \in Seq(Nat) /\ buffer \in Seq(Nat) /\ got \in Nat /\ written \in Nat
      /\ Between(out, got, written) /\ Between(buffer, got, written)
      /\ \A i \in DOMAIN out, j \in DOMAIN buffer : out[i] < buffer[j]
  BY DEF IInv, StreamType, BytesInv
<1> HIDE DEF out
<1>2. /\ <<got>> \in Seq(Nat) /\ Increasing(<<got>>)
      /\ \A i \in DOMAIN <<got>> : <<got>>[i] = got
  BY <1>1 DEF Increasing
<1>3. head \in Seq(Nat) /\ Increasing(head)
  <2>1. \A i \in DOMAIN <<got>>, j \in DOMAIN out : <<got>>[i] < out[j]
    BY <1>1, <1>2 DEF Between
  <2>2. Increasing(out)
    BY <1>1 DEF Between
  <2>3. Increasing(head)
    BY <2>1, <2>2, <1>1, <1>2, JoinIncreasing
  <2>. QED
    BY <2>3, <1>1, <1>2
<1>4. \A i \in DOMAIN head, j \in DOMAIN buffer : head[i] < buffer[j]
  <2> SUFFICES ASSUME NEW i \in DOMAIN head, NEW j \in DOMAIN buffer
               PROVE  head[i] < buffer[j]
    OBVIOUS
  <2>1. \/ i \in DOMAIN <<got>> /\ head[i] = <<got>>[i]
        \/ i - Len(<<got>>) \in DOMAIN out /\ head[i] = out[i - Len(<<got>>)]
    BY <1>1, <1>2, InJoin
  <2>. QED
    BY <2>1, <1>1, <1>2 DEF Between
<1> HIDE DEF head
<1>5. Increasing(head \o buffer)
  BY <1>1, <1>3, <1>4, JoinIncreasing DEF Between
<1>. QED
  BY <1>5 DEF BytesInOrder, head, out

LEMMA FirstConnection == IInv => BufferedBytesHaveAnEvent
BY DEF IInv, FirstInv, BufferedBytesHaveAnEvent

\* Every reachable state satisfies the inductive invariant.
THEOREM SpecIInv == Spec => []IInv
<1>. QED
  BY InitIInv, NextIInv, PTL DEF Spec

\* TcpConnectTask and the stream over it: a task that connects or is connected
\* has an event and a socket, no other has; the stream takes itself for
\* connected only while the task is.
THEOREM StreamAndTaskAgree == Spec => []StreamFollowsTask
<1>. QED
  BY SpecIInv, PhasesFollow, PTL

\* Over all connections, and whatever the write buffer drops and the network
\* loses, the peer reads what TcpClientStream::write was given in its order and
\* no byte twice.
THEOREM BytesKeepTheirOrder == Spec => []BytesInOrder
<1>. QED
  BY SpecIInv, PartsInOrder, PTL

\* In the first connection the bytes in the write buffer have an event that
\* will drain them.
THEOREM BufferedBytesAreDrained == Spec => []BufferedBytesHaveAnEvent
<1>. QED
  BY SpecIInv, FirstConnection, PTL

-----------------------------------------------------------------------------
(***************************************************************************)
(* LoopbackStreams                                                         *)
(***************************************************************************)

ClientType  == [conn : Nat, fd : Fds, chunks : Nat, writing : BOOLEAN,
                destroying : BOOLEAN]
RemovalType == [fd : Fds, conn : Nat]

ServerType ==
    /\ backlog \in Seq(Nat)
    /\ clients \in SUBSET ClientType /\ IsFiniteSet(clients)
    /\ removals \in Seq(RemovalType)
    /\ \A k \in clients : k.writing => k.chunks >= 1

\* No two clients share a descriptor.
OneClientEach == \A j, k \in clients : j.fd = k.fd => j = k

\* Removals and clients that are being destroyed are the same, one for one.
RemovalsMatch(ks, rs) ==
    /\ \A i \in DOMAIN rs : \E k \in ks : k.destroying /\ rs[i] = Removal(k)
    /\ \A i, j \in DOMAIN rs : rs[i].fd = rs[j].fd => i = j
    /\ \A k \in ks : k.destroying => \E i \in DOMAIN rs : rs[i] = Removal(k)

ServerInv ==
    /\ ServerType
    /\ OneClientEach
    /\ ~up => clients = {}
    /\ up => RemovalsMatch(clients, removals)

LoopInv == IInv /\ ServerInv

-----------------------------------------------------------------------------
(***************************************************************************)
(* The client's end: every step is one of ClientStream, or breaks the      *)
(* connection                                                              *)
(***************************************************************************)

LEMMA ClientStepIsNext == ClientStep => Next
BY DEF ClientStep, Next

LEMMA LoopStepIInv == IInv /\ [LoopNext]_allvars => IInv'
<1> SUFFICES ASSUME IInv, [LoopNext]_allvars PROVE IInv'
  OBVIOUS
<1>1. ASSUME Next \/ UNCHANGED vars PROVE IInv'
  BY <1>1, NextIInv
<1>2. CASE ClientStep
  BY <1>1, <1>2, ClientStepIsNext
<1>3. CASE ServerSchedule
  BY <1>1, <1>3 DEF ServerSchedule, Next
<1>4. CASE ServerCancel
  BY <1>1, <1>4 DEF ServerCancel, Next
<1>5. CASE Accept
  BY <1>1, <1>5 DEF Accept
<1>6. CASE ServerWrite
  BY <1>1, <1>6 DEF ServerWrite, Next
<1>7. CASE RemoveClient
  <2> DEFINE gone == {k \in clients : k.fd = Head(removals).fd}
  <2>1. CASE \E k \in gone : Alive(k.conn)
    <3>1. /\ socket' = [socket EXCEPT !.st = "lost", !.out = <<>>]
          /\ UNCHANGED <<config, task, deferred, stream, buffer, writing, peer, written>>
      BY <1>7, <2>1 DEF RemoveClient
    <3>2. socket.st = "open" /\ up' \in BOOLEAN
      BY <2>1, <3>1 DEF Alive, IInv, StreamType, peer
    <3>. QED
      BY <3>1, <3>2, BreakInv DEF task, peer
  <2>2. CASE ~(\E k \in gone : Alive(k.conn))
    <3>1. UNCHANGED vars
      BY <1>7, <2>2 DEF RemoveClient
    <3>. QED
      BY <3>1, <1>1
  <2>. QED
    BY <2>1, <2>2
<1>8. ASSUME NEW k \in clients, ServerReads(k) \/ ServerSeesEnd(k) \/ ServerDrains(k)
      PROVE  IInv'
  BY <1>1, <1>8 DEF ServerReads, ServerSeesEnd, ServerDrains, Next
<1>9. CASE UNCHANGED allvars
  BY <1>1, <1>9 DEF allvars
<1>. QED
  BY <1>2, <1>3, <1>4, <1>5, <1>6, <1>7, <1>8, <1>9 DEF LoopNext

-----------------------------------------------------------------------------
(***************************************************************************)
(* The server                                                              *)
(***************************************************************************)

\* A client replaced by itself with other chunks: descriptor, connection and
\* destroying are what the removals go by.
LEMMA SameClients ==
    ASSUME ServerInv, NEW f \in [clients -> ClientType],
           \A k \in clients : /\ f[k].fd = k.fd /\ f[k].conn = k.conn
                              /\ f[k].destroying = k.destroying
                              /\ f[k].writing => f[k].chunks >= 1,
           clients' = {f[k] : k \in clients},
           UNCHANGED <<backlog, removals, up>>
    PROVE  ServerInv'
<1>1. IsFiniteSet(clients')
  <2>1. f \in Surjection(clients, clients')
    BY DEF Surjection
  <2>. QED
    BY <2>1, FS_Surjection DEF ServerInv, ServerType
<1>2. ServerType'
  BY <1>1 DEF ServerInv, ServerType
<1>3. OneClientEach'
  BY DEF ServerInv, OneClientEach
<1>4. (~up => clients = {})'
  BY DEF ServerInv
<1>5. ASSUME up PROVE RemovalsMatch(clients', removals)
  <2>1. RemovalsMatch(clients, removals)
    BY <1>5 DEF ServerInv
  <2>2. \A k \in clients : Removal(f[k]) = Removal(k)
    BY DEF Removal
  <2>. QED
    BY <2>1, <2>2 DEF RemovalsMatch
<1>. QED
  BY <1>2, <1>3, <1>4, <1>5 DEF ServerInv

\* One client changes, its descriptor, connection and destroying do not.
LEMMA UpdatedInv ==
    ASSUME ServerInv, NEW k \in clients, NEW new \in ClientType, Updated(k, new),
           new.fd = k.fd, new.conn = k.conn, new.destroying = k.destroying,
           new.writing => new.chunks >= 1, UNCHANGED <<backlog, removals, up>>
    PROVE  ServerInv'
<1> DEFINE f == [c \in clients |-> IF c = k THEN new ELSE c]
<1>1. f \in [clients -> ClientType] /\ (\A c \in clients : f[c] = IF c = k THEN new ELSE c)
  BY DEF ServerInv, ServerType
<1>2. clients' = {f[c] : c \in clients}
  BY DEF Updated
<1> HIDE DEF f
<1>. QED
  BY <1>1, <1>2, SameClients DEF ServerInv, ServerType

LEMMA ClientStepServer == ASSUME IInv, ServerInv, ClientStep PROVE ServerInv'
<1>1. UNCHANGED <<clients, removals>>
      /\ backlog' = IF accepted' > accepted THEN Append(backlog, accepted') ELSE backlog
  BY DEF ClientStep
<1>2. up' = up
  BY DEF ClientStep, Schedule, RunDeferred, TimerExpires, ErrorEvent, IoEvent, Write,
         Establishes, Lost, peer
<1>3. accepted' \in Nat
  BY ClientStepIsNext, NextIInv DEF IInv, StreamType
<1>4. backlog' \in Seq(Nat)
  BY <1>1, <1>3 DEF ServerInv, ServerType
<1>. QED
  BY <1>1, <1>2, <1>4 DEF ServerInv, ServerType, OneClientEach

\* TcpServerStream::schedule runs when no removal is left of the time before.
LEMMA ServerScheduleInv == ASSUME ServerInv, ServerSchedule PROVE ServerInv'
<1>1. /\ ~up /\ up' /\ removals = <<>> /\ clients = {}
      /\ UNCHANGED <<backlog, clients, removals>>
  BY DEF ServerSchedule, PeerRestarts, server, ServerInv
<1>2. RemovalsMatch({}, <<>>)
  BY DEF RemovalsMatch
<1>. QED
  BY <1>1, <1>2 DEF ServerInv, ServerType, OneClientEach

\* TcpServerStream::cancel leaves removals without a client, and no client.
LEMMA ServerCancelInv == ASSUME ServerInv, ServerCancel PROVE ServerInv'
<1> DEFINE some == {k \in clients : ~k.destroying}
<1>1. PICK asked \in [1..Cardinality(some) -> clients] :
        removals' = removals \o [i \in DOMAIN asked |-> Removal(asked[i])]
  BY DEF ServerCancel
<1>2. Cardinality(some) \in Nat
  BY FS_Subset, FS_CardinalityType DEF ServerInv, ServerType
<1> HIDE DEF some
<1>3. [i \in DOMAIN asked |-> Removal(asked[i])] \in Seq(RemovalType)
  <2>1. \A i \in DOMAIN asked : Removal(asked[i]) \in RemovalType
    BY DEF ServerInv, ServerType, ClientType, RemovalType, Removal
  <2>2. DOMAIN asked = 1..Cardinality(some)
    OBVIOUS
  <2>. QED
    BY <2>1, <2>2, <1>2
<1> DEFINE more == [i \in DOMAIN asked |-> Removal(asked[i])]
<1>4. removals' \in Seq(RemovalType)
  <2>1. more \in Seq(RemovalType) /\ removals' = removals \o more
    BY <1>1, <1>3
  <2> HIDE DEF more
  <2>. QED
    BY <2>1 DEF ServerInv, ServerType
<1>5. clients' = {} /\ backlog' = <<>> /\ <<>> \in Seq(Nat) /\ IsFiniteSet({})
  BY FS_EmptySet DEF ServerCancel
<1>6. up' = FALSE
  BY DEF ServerCancel, PeerStops, PeerRestarts, ServerInv
<1>. QED
  BY <1>4, <1>5, <1>6 DEF ServerInv, ServerType, OneClientEach

\* A client that is accepted gets a descriptor nobody has, and no removal that
\* waits names it.
LEMMA AcceptInv == ASSUME ServerInv, Accept PROVE ServerInv'
<1>1. PICK fd \in Fds \ Used : clients' = clients \cup {NewClient(Head(backlog), fd)}
  BY DEF Accept
<1> DEFINE new == NewClient(Head(backlog), fd)
<1>2. /\ up /\ up' = up /\ removals' = removals
      /\ backlog \in Seq(Nat) /\ backlog # <<>> /\ backlog' = Tail(backlog)
  BY DEF Accept, vars, peer, ServerInv, ServerType
<1>3. backlog' \in Seq(Nat) /\ Head(backlog) \in Nat
  BY <1>2
<1>4. /\ new \in ClientType /\ new.fd = fd /\ ~new.destroying /\ ~new.writing
  BY <1>3 DEF NewClient, ClientType
<1>5. \A k \in clients : k.fd # fd
  BY DEF Used
<1>6. ServerType'
  BY <1>1, <1>2, <1>3, <1>4, FS_AddElement DEF ServerInv, ServerType
<1> HIDE DEF new
<1>7. OneClientEach'
  BY <1>1, <1>4, <1>5 DEF ServerInv, OneClientEach, new
<1>8. RemovalsMatch(clients', removals)
  BY <1>1, <1>2, <1>4 DEF ServerInv, RemovalsMatch, new
<1>. QED
  BY <1>2, <1>6, <1>7, <1>8 DEF ServerInv

\* Client::destroy defers one removal for the client.
LEMMA SeesEndInv == ASSUME ServerInv, NEW k \in clients, ServerSeesEnd(k) PROVE ServerInv'
<1> DEFINE new == [k EXCEPT !.destroying = TRUE]
           r == Removal(k)
<1>1. /\ ~k.destroying /\ clients' = (clients \ {k}) \cup {new}
      /\ removals' = Append(removals, r) /\ UNCHANGED <<backlog, up>>
  BY DEF ServerSeesEnd, Destroy, Updated, vars, peer
<1>2. /\ new \in ClientType /\ new.fd = k.fd /\ new.conn = k.conn /\ new.destroying
      /\ new.writing = k.writing /\ new.chunks = k.chunks
  BY DEF ServerInv, ServerType, ClientType
<1>3. /\ r \in RemovalType /\ r = Removal(new) /\ r.fd = k.fd
  BY <1>2 DEF ServerInv, ServerType, ClientType, RemovalType, Removal
<1>4. up /\ RemovalsMatch(clients, removals) /\ OneClientEach
  BY DEF ServerInv
<1> HIDE DEF new, r
<1>5. /\ removals' \in Seq(RemovalType) /\ removals \in Seq(RemovalType)
      /\ DOMAIN removals' = DOMAIN removals \cup {Len(removals) + 1}
      /\ Len(removals) + 1 \notin DOMAIN removals
      /\ removals'[Len(removals) + 1] = r
      /\ \A i \in DOMAIN removals : removals'[i] = removals[i]
  BY <1>1, <1>3 DEF ServerInv, ServerType
<1>6. ServerType'
  <2>1. IsFiniteSet(clients')
    BY <1>1, FS_RemoveElement, FS_AddElement DEF ServerInv, ServerType
  <2>. QED
    BY <2>1, <1>1, <1>2, <1>5 DEF ServerInv, ServerType
<1>7. OneClientEach'
  BY <1>1, <1>2, <1>4 DEF OneClientEach
<1>8. \A i \in DOMAIN removals : removals[i].fd # k.fd
  BY <1>1, <1>4 DEF RemovalsMatch, OneClientEach, Removal
<1>9. RemovalsMatch(clients', removals')
  <2>1. \A i \in DOMAIN removals' : \E c \in clients' : c.destroying /\ removals'[i] = Removal(c)
    <3> SUFFICES ASSUME NEW i \in DOMAIN removals'
                 PROVE  \E c \in clients' : c.destroying /\ removals'[i] = Removal(c)
      OBVIOUS
    <3>1. CASE i = Len(removals) + 1
      BY <3>1, <1>1, <1>2, <1>3, <1>5
    <3>2. CASE i \in DOMAIN removals
      <4>1. PICK c \in clients : c.destroying /\ removals[i] = Removal(c)
        BY <3>2, <1>4 DEF RemovalsMatch
      <4>2. c # k
        BY <4>1, <1>1
      <4>. QED
        BY <4>1, <4>2, <3>2, <1>1, <1>5
    <3>. QED
      BY <3>1, <3>2, <1>5
  <2>2. \A i, j \in DOMAIN removals' : removals'[i].fd = removals'[j].fd => i = j
    BY <1>3, <1>4, <1>5, <1>8 DEF RemovalsMatch
  <2>3. \A c \in clients' : c.destroying => \E i \in DOMAIN removals' : removals'[i] = Removal(c)
    BY <1>1, <1>3, <1>4, <1>5 DEF RemovalsMatch
  <2>. QED
    BY <2>1, <2>2, <2>3 DEF RemovalsMatch
<1>. QED
  BY <1>1, <1>4, <1>6, <1>7, <1>9 DEF ServerInv

\* remove_client finds the client that was destroyed and no other.
LEMMA RemoveClientInv == ASSUME ServerInv, RemoveClient PROVE ServerInv'
<1> DEFINE h == Head(removals)
           gone == {k \in clients : k.fd = h.fd}
           l == Len(removals)
<1>1. /\ removals # <<>> /\ removals' = Tail(removals) /\ clients' = clients \ gone
      /\ removals \in Seq(RemovalType) /\ UNCHANGED <<backlog, up>>
  BY DEF RemoveClient, vars, peer, ServerInv, ServerType
<1>2. /\ l \in Nat /\ l >= 1 /\ h = removals[1] /\ DOMAIN removals = 1..l
      /\ removals' \in Seq(RemovalType) /\ DOMAIN removals' = 1..(l - 1)
      /\ \A i \in 1..(l - 1) : removals'[i] = removals[i + 1]
  BY <1>1
<1>3. ServerType'
  <2>1. IsFiniteSet(clients')
    BY <1>1, FS_Subset DEF ServerInv, ServerType
  <2>. QED
    BY <2>1, <1>1, <1>2 DEF ServerInv, ServerType
<1>4. OneClientEach'
  BY <1>1 DEF ServerInv, OneClientEach
<1>5. (~up => clients = {})'
  BY <1>1 DEF ServerInv
<1> HIDE DEF h, l
<1>6. ASSUME up PROVE RemovalsMatch(clients', removals')
  <2>1. RemovalsMatch(clients, removals) /\ 1 \in DOMAIN removals
    BY <1>2, <1>6 DEF ServerInv
  <2>2. \A i \in DOMAIN removals' : /\ i + 1 \in DOMAIN removals /\ i + 1 # 1
                                    /\ removals'[i] = removals[i + 1]
    BY <1>2
  <2>3. \A i \in DOMAIN removals' : \E k \in clients' : k.destroying /\ removals'[i] = Removal(k)
    <3> SUFFICES ASSUME NEW i \in DOMAIN removals'
                 PROVE  \E k \in clients' : k.destroying /\ removals'[i] = Removal(k)
      OBVIOUS
    <3>1. PICK k \in clients : k.destroying /\ removals[i + 1] = Removal(k)
      BY <2>1, <2>2 DEF RemovalsMatch
    <3>2. k.fd # h.fd
      BY <3>1, <2>1, <2>2, <1>2 DEF RemovalsMatch, Removal
    <3>. QED
      BY <3>1, <3>2, <2>2, <1>1
  <2>4. \A i, j \in DOMAIN removals' : removals'[i].fd = removals'[j].fd => i = j
    <3> SUFFICES ASSUME NEW i \in DOMAIN removals', NEW j \in DOMAIN removals',
                        removals'[i].fd = removals'[j].fd
                 PROVE  i = j
      OBVIOUS
    <3>1. i + 1 = j + 1
      BY <2>1, <2>2 DEF RemovalsMatch
    <3>. QED
      BY <3>1, <1>2
  <2>5. \A k \in clients' : k.destroying => \E i \in DOMAIN removals' : removals'[i] = Removal(k)
    <3> SUFFICES ASSUME NEW k \in clients', k.destroying
                 PROVE  \E i \in DOMAIN removals' : removals'[i] = Removal(k)
      OBVIOUS
    <3>1. k \in clients /\ k.fd # h.fd
      BY <1>1
    <3>2. PICK i \in DOMAIN removals : removals[i] = Removal(k)
      BY <3>1, <2>1 DEF RemovalsMatch
    <3>3. i # 1
      BY <3>1, <3>2, <1>2 DEF Removal
    <3>4. i - 1 \in 1..(l - 1) /\ (i - 1) + 1 = i
      BY <3>3, <1>2
    <3>. QED
      BY <3>2, <3>4, <1>2
  <2>. QED
    BY <2>3, <2>4, <2>5 DEF RemovalsMatch
<1>. QED
  BY <1>1, <1>3, <1>4, <1>5, <1>6 DEF ServerInv

LEMMA ServerDrainsInv == ASSUME ServerInv, NEW k \in clients, ServerDrains(k) PROVE ServerInv'
<1> DEFINE new == [k EXCEPT !.chunks = @ - 1, !.writing = k.chunks > 1]
<1>1. /\ k.writing /\ k \in ClientType /\ Updated(k, new)
      /\ UNCHANGED <<backlog, removals, up>>
  BY DEF ServerDrains, PeerWrites, peer, ServerInv, ServerType
<1>2. k.chunks >= 1 /\ k.chunks \in Nat
  BY <1>1 DEF ServerInv, ServerType, ClientType
<1>3. k.chunks - 1 \in Nat /\ (k.chunks > 1 => k.chunks - 1 >= 1)
  BY <1>2
<1>4. /\ new \in ClientType /\ new.fd = k.fd /\ new.conn = k.conn
      /\ new.destroying = k.destroying
      /\ new.writing => new.chunks >= 1
  <2> DEFINE n == k.chunks - 1
             more == k.chunks > 1
  <2>1. n \in Nat /\ more \in BOOLEAN /\ (more => n >= 1)
    BY <1>3
  <2>2. new = [k EXCEPT !.chunks = n, !.writing = more]
    OBVIOUS
  <2> HIDE DEF n, more, new
  <2>3. new \in ClientType /\ new.fd = k.fd /\ new.conn = k.conn
        /\ new.destroying = k.destroying /\ new.chunks = n /\ new.writing = more
    BY <2>1, <2>2, <1>1 DEF ClientType
  <2>. QED
    BY <2>1, <2>3
<1> HIDE DEF new
<1>. QED
  BY <1>1, <1>4, UpdatedInv

LEMMA ServerWriteInv == ASSUME ServerInv, ServerWrite PROVE ServerInv'
<1> DEFINE f == [k \in clients |-> Written(k)]
<1>1. /\ clients' = {Written(k) : k \in clients} /\ UNCHANGED <<backlog, removals, up>>
  BY DEF ServerWrite, PeerWrites, vars, peer
<1>2. ASSUME NEW k \in clients
      PROVE  /\ Written(k) \in ClientType
             /\ Written(k).fd = k.fd /\ Written(k).conn = k.conn
             /\ Written(k).destroying = k.destroying
             /\ Written(k).writing => Written(k).chunks >= 1
  <2>1. k \in ClientType /\ (k.writing => k.chunks >= 1) /\ k.chunks \in Nat
    BY DEF ServerInv, ServerType, ClientType
  <2>2. CASE k.chunks = 0 /\ (~Alive(k.conn) \/ ~socket.readable)
    BY <2>1, <2>2 DEF Written
  <2>3. CASE ~(k.chunks = 0 /\ (~Alive(k.conn) \/ ~socket.readable))
    <3> DEFINE n == IF k.chunks < MaxBacklog THEN k.chunks + 1 ELSE k.chunks
    <3>1. n \in Nat /\ n >= 1
      BY <2>1, LoopbackAssumption
    <3>2. Written(k) = [k EXCEPT !.chunks = n, !.writing = TRUE]
      BY <2>3 DEF Written
    <3> HIDE DEF n
    <3>. QED
      BY <3>1, <3>2, <2>1 DEF ClientType
  <2>. QED
    BY <2>2, <2>3
<1>3. f \in [clients -> ClientType] /\ clients' = {f[k] : k \in clients}
      /\ \A k \in clients : f[k] = Written(k)
  BY <1>1, <1>2
<1> HIDE DEF f
<1>. QED
  BY <1>1, <1>2, <1>3, SameClients

-----------------------------------------------------------------------------
(***************************************************************************)
(* The invariant and what follows from it                                  *)
(***************************************************************************)

LEMMA LoopInitInv == LoopInit => LoopInv
<1> SUFFICES ASSUME LoopInit PROVE LoopInv
  OBVIOUS
<1>1. /\ backlog = <<>> /\ clients = {} /\ removals = <<>> /\ up = FALSE /\ IInv
  BY InitIInv DEF LoopInit
<1>2. IsFiniteSet({}) /\ <<>> \in Seq(Nat) /\ <<>> \in Seq(RemovalType)
  BY FS_EmptySet
<1>. QED
  BY <1>1, <1>2 DEF LoopInv, ServerInv, ServerType, OneClientEach

LEMMA LoopNextInv == LoopInv /\ [LoopNext]_allvars => LoopInv'
<1> SUFFICES ASSUME LoopInv, [LoopNext]_allvars PROVE ServerInv'
  BY LoopStepIInv DEF LoopInv
<1>. USE DEF LoopInv
<1>1. CASE ClientStep
  BY <1>1, ClientStepServer
<1>2. CASE ServerSchedule
  BY <1>2, ServerScheduleInv
<1>3. CASE ServerCancel
  BY <1>3, ServerCancelInv
<1>4. CASE Accept
  BY <1>4, AcceptInv
<1>5. CASE ServerWrite
  BY <1>5, ServerWriteInv
<1>6. CASE RemoveClient
  BY <1>6, RemoveClientInv
<1>7. ASSUME NEW k \in clients, ServerSeesEnd(k) PROVE ServerInv'
  BY <1>7, SeesEndInv
<1>8. ASSUME NEW k \in clients, ServerDrains(k) PROVE ServerInv'
  BY <1>8, ServerDrainsInv
<1>9. ASSUME UNCHANGED <<backlog, clients, removals, up>> PROVE ServerInv'
  BY <1>9 DEF ServerInv, ServerType, OneClientEach
<1>10. ASSUME NEW k \in clients, ServerReads(k) PROVE ServerInv'
  BY <1>9, <1>10 DEF ServerReads, PeerReads, server
<1>11. CASE UNCHANGED allvars
  BY <1>9, <1>11 DEF allvars, vars, peer, server
<1>. QED
  BY <1>1, <1>2, <1>3, <1>4, <1>5, <1>6, <1>7, <1>8, <1>10, <1>11 DEF LoopNext

THEOREM LoopSpecInv == LoopSpec => []LoopInv
<1>. QED
  BY LoopInitInv, LoopNextInv, PTL DEF LoopSpec

\* A removal that TcpServerStream has deferred names the client it was deferred
\* for, by a descriptor that accept has not given to another one meanwhile.
THEOREM RemovalsNameTheirClient == LoopSpec => []RemovalsFindTheirClient
<1>1. LoopInv => RemovalsFindTheirClient
  <2> SUFFICES ASSUME LoopInv PROVE RemovalsFindTheirClient
    OBVIOUS
  <2>1. CASE up
    BY <2>1 DEF LoopInv, ServerInv, OneClientEach, RemovalsMatch, RemovalsFindTheirClient,
                Removal
  <2>2. CASE ~up
    BY <2>2 DEF LoopInv, ServerInv, RemovalsFindTheirClient
  <2>. QED
    BY <2>1, <2>2
<1>. QED
  BY <1>1, LoopSpecInv, PTL

\* Against a TcpServerStream the client's end keeps what the theorems above
\* show for a peer of any kind.
THEOREM LoopStreamAndTaskAgree == LoopSpec => []StreamFollowsTask
<1>1. LoopInv => StreamFollowsTask
  BY PhasesFollow DEF LoopInv
<1>. QED
  BY <1>1, LoopSpecInv, PTL

\* What the server reads is what the client's program wrote, in its order.
THEOREM LoopBytesKeepTheirOrder == LoopSpec => []BytesInOrder
<1>1. LoopInv => BytesInOrder
  BY PartsInOrder DEF LoopInv
<1>. QED
  BY <1>1, LoopSpecInv, PTL

\* In the first connection to the server the buffered bytes have an event.
THEOREM LoopBufferedBytesAreDrained == LoopSpec => []BufferedBytesHaveAnEvent
<1>1. LoopInv => BufferedBytesHaveAnEvent
  BY FirstConnection DEF LoopInv
<1>. QED
  BY <1>1, LoopSpecInv, PTL
============================================================================

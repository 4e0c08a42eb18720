---------------------------- MODULE LoopbackStreams ----------------------------
(***************************************************************************)
(* io::TcpServerStream, with the SocketListenerTask and the                *)
(* OwnedFileDescriptorTask of every client it has accepted, as the peer of *)
(* an io::TcpClientStream: both ends of the connections are this code's.   *)
(* The peer that ClientStream leaves open is implemented here.             *)
(*                                                                         *)
(* The two ends belong to two schedulers.  The server's takes events in    *)
(* batches: what a handler defers runs after other events, before the wait *)
(* that can report a listener registered since.  What the server sends is  *)
(* counted in chunks, of which the connection holds one.                   *)
(***************************************************************************)
EXTENDS ClientStream, FiniteSets

CONSTANTS
    Fds,        \* descriptor numbers accept may return, the lowest free first
    MaxBacklog  \* bound: chunks in the WriteBuffer of a client of the server

ASSUME LoopbackAssumption == Fds \subseteq Nat /\ MaxBacklog \in Nat \ {0}

VARIABLES
    backlog,  \* connections established and not accepted yet
    clients,  \* mClients
    removals  \* the remove_client calls deferred, with their client, a ghost

server == <<backlog, clients, removals>>
allvars == <<vars, server>>

NewClient(c, fd) == [conn |-> c, fd |-> fd, chunks |-> 0, writing |-> FALSE,
                     destroying |-> FALSE]
Removal(k) == [fd |-> k.fd, conn |-> k.conn]

\* The connection of a client of the server still has its other end.
Alive(c) == c = accepted /\ socket.st = "open"

----------------------------------------------------------------------------
LoopInit ==
    /\ Init
    /\ up = FALSE
    /\ backlog = <<>>
    /\ clients = {}
    /\ removals = <<>>

\* TcpServerStream::schedule.
ServerSchedule ==
    /\ ~up /\ removals = <<>>
    /\ PeerRestarts
    /\ UNCHANGED server

\* TcpServerStream::cancel: every client is destroyed, which closes its
\* descriptor and, unless that has been done, defers its removal; the
\* listening socket is closed with all that was not accepted.
ServerCancel ==
    /\ up
    /\ clients' = {}
    /\ backlog' = <<>>
    /\ \E asked \in [1..Cardinality({k \in clients : ~k.destroying}) -> clients] :
         /\ {asked[i] : i \in DOMAIN asked} = {k \in clients : ~k.destroying}
         /\ removals' = removals \o [i \in DOMAIN asked |-> Removal(asked[i])]
    /\ IF socket.st = "open" THEN PeerStops ELSE PeerRestarts

\* ListenerTask::on_event and on_accept of the server.
Used == {k.fd : k \in clients}

Accept ==
    /\ up /\ backlog # <<>>
    /\ \E fd \in Fds \ Used :
         /\ \A f \in Fds \ Used : fd <= f
         /\ clients' = clients \cup {NewClient(Head(backlog), fd)}
    /\ backlog' = Tail(backlog)
    /\ UNCHANGED <<vars, removals>>

Updated(k, new) == clients' = (clients \ {k}) \cup {new}

\* Mutant of the next operator: the client is erased at once.
DestroyAtOnce(k) ==
    /\ clients' = clients \ {k}
    /\ removals' = Append(removals, Removal(k))

\* Mutant of the next operator: nobody is told to remove the client.
DestroyOnly(k) ==
    /\ Updated(k, [k EXCEPT !.destroying = TRUE])
    /\ UNCHANGED removals

\* Client::destroy, once.
Destroy(k) ==
    /\ Updated(k, [k EXCEPT !.destroying = TRUE])
    /\ removals' = Append(removals, Removal(k))

\* Client::on_read: data, or the end of a connection that is gone.
ServerReads(k) ==
    /\ ~k.destroying
    /\ Alive(k.conn)
    /\ PeerReads
    /\ UNCHANGED server

ServerSeesEnd(k) ==
    /\ ~k.destroying
    /\ ~Alive(k.conn)
    /\ Destroy(k)
    /\ UNCHANGED <<vars, backlog>>

\* Client::on_write, for as much as the connection takes.
ServerDrains(k) ==
    /\ ~k.destroying
    /\ k.writing
    /\ Alive(k.conn)
    /\ PeerWrites
    /\ Updated(k, [k EXCEPT !.chunks = @ - 1, !.writing = k.chunks > 1])
    /\ UNCHANGED <<backlog, removals>>

\* TcpServerStream::write, to every client: written at once if nothing waits
\* and the connection takes it, refused if it is gone, buffered otherwise.
Written(k) ==
    IF k.chunks = 0 /\ (~Alive(k.conn) \/ ~socket.readable) THEN k
    ELSE [k EXCEPT !.chunks = IF @ < MaxBacklog THEN @ + 1 ELSE @,
                   !.writing = TRUE]

ServerWrite ==
    /\ clients # {}
    /\ clients' = {Written(k) : k \in clients}
    /\ IF \E k \in clients : k.chunks = 0 /\ Alive(k.conn) /\ ~socket.readable
       THEN PeerWrites
       ELSE UNCHANGED vars
    /\ UNCHANGED <<backlog, removals>>

\* remove_client, deferred: the client with that descriptor is destroyed, and
\* its descriptor closed.
RemoveClient ==
    /\ removals # <<>>
    /\ removals' = Tail(removals)
    /\ LET gone == {k \in clients : k.fd = Head(removals).fd}
       IN  /\ clients' = clients \ gone
           /\ IF \E k \in gone : Alive(k.conn)
              THEN /\ socket' = [socket EXCEPT !.st = "lost", !.out = <<>>]
                   /\ UNCHANGED <<config, task, deferred, stream, buffer, writing,
                                  peer, written>>
              ELSE UNCHANGED vars
    /\ UNCHANGED backlog

----------------------------------------------------------------------------
\* The client's end, and the network: a connection that is established waits
\* to be accepted.
ClientStep ==
    /\ \/ Schedule \/ RunDeferred \/ TimerExpires \/ ErrorEvent \/ IoEvent
       \/ \E length \in Lengths : Write(length)
       \/ Establishes \/ Lost
    /\ backlog' = IF accepted' > accepted THEN Append(backlog, accepted')
                  ELSE backlog
    /\ UNCHANGED <<clients, removals>>

LoopNext ==
    \/ ClientStep
    \/ ServerSchedule \/ ServerCancel \/ Accept \/ ServerWrite \/ RemoveClient
    \/ \E k \in clients : ServerReads(k) \/ ServerSeesEnd(k) \/ ServerDrains(k)

\* Both schedulers process what is ready, and a connection in progress comes
\* to an end.
LoopFairness ==
    /\ WF_allvars(ClientStep /\ (Schedule \/ RunDeferred \/ TimerExpires))
    /\ WF_allvars(ClientStep /\ ErrorEvent)
    /\ WF_allvars(ClientStep /\ IoEvent)
    /\ WF_allvars(ClientStep /\ Establishes)
    /\ WF_allvars(Accept) /\ WF_allvars(RemoveClient)
    /\ WF_allvars(\E k \in clients : ServerSeesEnd(k))

LoopSpec == LoopInit /\ [][LoopNext]_allvars /\ LoopFairness

----------------------------------------------------------------------------
(***************************************************************************)
(* Properties                                                              *)
(***************************************************************************)

\* No two clients of the server share a descriptor, and a removal that waits
\* names a client by a descriptor that nobody else has got meanwhile: the
\* number is free only once the removal has run.
RemovalsFindTheirClient ==
    /\ \A j, k \in clients : j.fd = k.fd => j = k
    /\ \A i \in DOMAIN removals : \A k \in clients :
         k.fd = removals[i].fd => k.conn = removals[i].conn
    /\ \A k \in clients : k.destroying =>
         \E i \in DOMAIN removals : removals[i] = Removal(k)

\* A client of the server whose connection is gone leaves mClients.
GoneClientsAreRemoved ==
    \A c \in 1..MaxConnections :
        (\E k \in clients : k.conn = c /\ ~Alive(c)) ~> ~(\E k \in clients : k.conn = c)

==============================================================================

-------------------------- MODULE LppTransactions --------------------------
(***************************************************************************)
(* The sending and receiving side of lpp::Session over its transaction     *)
(* table: create_transaction, send, send_with_end, delete_transaction,     *)
(* process_lpp_payload, the queue mPosQueue that is emptied into the SUPL  *)
(* POSINIT, and the SUPL connection as far as send sees it.  The           *)
(* connection state machine itself is LppSession.                          *)
(***************************************************************************)
EXTENDS LppTransactionTable, Sequences, FiniteSets

CONSTANTS
    QueueLimit,      \* mPosQueue is cleared when it grows beyond (16)
    PushIds,         \* bound: numbers the server pushes on unasked, {} without
                     \* mHackServerInitiatedPush
    MaxGeneration,   \* bound: generations handed out
    MaxMessages,     \* bound: messages on the wire and in the queue
    MaxPayloads      \* bound: LPP payloads in one SUPL POS

ASSUME SendAssumption ==
    /\ QueueLimit \in Nat
    /\ PushIds \subseteq Ids
    /\ MaxGeneration \in Nat
    /\ MaxMessages \in Nat
    /\ MaxPayloads \in Nat \ {0}

VARIABLES
    table,     \* the transaction table
    link,      \* the supl::Session: absent, or how far its connection is
    posQueue,  \* mPosQueue
    wire,      \* history: the LPP messages given to the network, in order
    held,      \* the handles the users of the session have been given
    reused,    \* history: a number was allocated while a transaction had it
    payloads,  \* LPP payloads of the SUPL POS at hand not yet processed
    current    \* the payload whose on_message callback is running, if any

vars == <<table, link, posQueue, wire, held, reused, payloads, current>>

Links == {"null", "connecting", "handshake", "established", "broken"}

\* What became of one call of Session::send that reached the encoder.
Outcomes == {"sent", "encode_failed", "send_failed"}

\* An LPP message: its transaction and its endTransaction flag.
Message == [handle : Handle, end : BOOLEAN]

\* A delivered payload: the handle given to on_message and the server's
\* endTransaction, both local variables of process_lpp_payload.
Delivery == [handle : Handle, serverEnd : BOOLEAN]

----------------------------------------------------------------------------
(***************************************************************************)
(* Session::send and send_with_end, as three operators over the state the  *)
(* call finds: the table, the link and the queue it leaves.                *)
(***************************************************************************)

\* The early returns of send: the transaction is not found, or ended.
Sendable(tb, h) == h \in Live(tb) /\ ~tb.transactions[h].client_has_sent_end

\* send_with_end sets the flag before it calls send.
Asking(tb, h, end) ==
    IF end /\ h \in Live(tb)
    THEN [tb EXCEPT !.transactions[h].client_should_send_end = TRUE]
    ELSE tb

MessageOf(tb, h) ==
    [handle |-> h, end |-> tb.transactions[h].client_should_send_end]

\* With no supl::Session the message is queued and always accepted; with one
\* that is not connected the send fails.
Accepted(lk, outcome) ==
    outcome # "encode_failed"
    /\ (lk = "null" \/ (outcome = "sent" /\ lk \in {"handshake", "established"}))

\* Mutant of the next operator: the end is sent and not recorded.
SendTableWithoutEnd(tb, lk, h, outcome) ==
    IF Sendable(tb, h) /\ Accepted(lk, outcome)
       /\ tb.transactions[h].client_should_send_end
    THEN [tb EXCEPT !.transactions[h].client_should_send_end = FALSE]
    ELSE tb

SendTable(tb, lk, h, outcome) ==
    IF Sendable(tb, h) /\ Accepted(lk, outcome)
       /\ tb.transactions[h].client_should_send_end
    THEN ClientEnd([tb EXCEPT !.transactions[h].client_should_send_end = FALSE], h)
    ELSE tb

\* Mutant of the next operator: a send that fails connects again at once.
SendLinkReconnecting(tb, lk, h, outcome) ==
    IF Sendable(tb, h) /\ outcome # "encode_failed" /\ lk # "null"
       /\ ~Accepted(lk, outcome)
    THEN "connecting"
    ELSE lk

\* A send that fails disconnects the TcpClient under the session.
SendLink(tb, lk, h, outcome) ==
    IF Sendable(tb, h) /\ outcome # "encode_failed" /\ lk # "null"
       /\ ~Accepted(lk, outcome)
    THEN "broken"
    ELSE lk

\* A queue that grows beyond the limit loses all its messages.
SendQueue(tb, lk, q, h, outcome) ==
    IF Sendable(tb, h) /\ Accepted(lk, outcome) /\ lk = "null"
    THEN LET grown == Append(q, MessageOf(tb, h))
         IN  IF Len(grown) > QueueLimit THEN <<>> ELSE grown
    ELSE q

SendWire(tb, lk, w, h, outcome) ==
    IF Sendable(tb, h) /\ Accepted(lk, outcome) /\ lk # "null"
    THEN Append(w, MessageOf(tb, h))
    ELSE w

----------------------------------------------------------------------------

Init ==
    /\ table      = NewTable
    /\ link       = "null"
    /\ posQueue   = <<>>
    /\ wire       = <<>>
    /\ held       = {}
    /\ reused     = FALSE
    /\ payloads   = 0
    /\ current    = {}

\* Session is single threaded: while it processes a SUPL POS nobody else
\* runs, and its users run only inside on_message.
Quiet    == payloads = 0
UsersRun == Quiet \/ current # {}

\* Session::create_transaction, called by a user.
Create(sse) ==
    /\ UsersRun
    /\ CanAllocate(table)
    /\ table.generationId <= MaxGeneration
    /\ table' = CreateTransaction(table, sse)
    /\ LET h == Allocate(table)
       IN  /\ held'   = held \cup {h}
           /\ reused' = (reused \/ \E g \in Live(table) : KeyOf(g) = KeyOf(h))
    /\ UNCHANGED <<link, posQueue, wire, payloads, current>>

\* Session::send (end = FALSE) and Session::send_with_end (end = TRUE), called
\* by a user with any handle it was ever given.
Send(h, end, outcome) ==
    LET asked == Asking(table, h, end)
    IN  /\ UsersRun
        /\ Len(wire) + Len(posQueue) < MaxMessages
        /\ table'    = SendTable(asked, link, h, outcome)
        /\ link'     = SendLink(asked, link, h, outcome)
        /\ posQueue' = SendQueue(asked, link, posQueue, h, outcome)
        /\ wire'     = SendWire(asked, link, wire, h, outcome)
        /\ UNCHANGED <<held, reused, payloads, current>>

\* Session::delete_transaction: the transaction ends without a word to the
\* server.
Delete(h) ==
    /\ UsersRun
    /\ table' = ClientEnd(table, h)
    /\ UNCHANGED <<link, posQueue, wire, held, reused, payloads, current>>

\* state_connect makes a new supl::Session.
Connect ==
    /\ Quiet
    /\ link = "null"
    /\ link' = "connecting"
    /\ UNCHANGED <<table, posQueue, wire, held, reused, payloads, current>>

\* The TCP (and TLS) connection is there; SUPL START goes out.
Connected ==
    /\ Quiet
    /\ link = "connecting"
    /\ link' = "handshake"
    /\ UNCHANGED <<table, posQueue, wire, held, reused, payloads, current>>

\* Mutant of the next action: the queue is kept for a retry.
PosinitKeepingQueue(ok) ==
    /\ Quiet
    /\ link = "handshake"
    /\ wire' = IF ok THEN wire \o posQueue ELSE wire
    /\ link' = IF ok THEN "established" ELSE "broken"
    /\ UNCHANGED <<table, posQueue, held, reused, payloads, current>>

\* state_posinit: the queue is cleared before it is known whether the POSINIT
\* that carries its messages could be sent.
Posinit(ok) ==
    /\ Quiet
    /\ link = "handshake"
    /\ posQueue' = <<>>
    /\ wire'     = IF ok THEN wire \o posQueue ELSE wire
    /\ link'     = IF ok THEN "established" ELSE "broken"
    /\ UNCHANGED <<table, held, reused, payloads, current>>

\* Session::cancel deletes the supl::Session and keeps everything else.
Cancel ==
    /\ Quiet
    /\ link # "null"
    /\ link' = "null"
    /\ UNCHANGED <<table, posQueue, wire, held, reused, payloads, current>>

\* process_supl_pos: the server has sent a SUPL POS of n LPP payloads.
ReceivePos(n) ==
    /\ Quiet
    /\ link = "established"
    /\ payloads' = n
    /\ UNCHANGED <<table, link, posQueue, wire, held, reused, current>>

\* process_lpp_payload, up to the callback on_message: the transaction is
\* found, or begun when the server opens it.
Deliver(k, serverEnd) ==
    LET tb == Resolve(table, k)
        h  == tb.lookup[k]
    IN  /\ payloads > 0
        /\ current = {}
        /\ table.generationId <= MaxGeneration
        /\ Found(table, k) \/ k.initiator = "server"
        /\ table'   = tb
        /\ held'    = held \cup {h}
        /\ current' = {[handle |-> h, serverEnd |-> serverEnd]}
        /\ UNCHANGED <<link, posQueue, wire, reused, payloads>>

\* ... for a client transaction that is not known, under the hack: it is
\* passed on with generation 0, and its endTransaction is not looked at.
DeliverHack(k) ==
    LET h == [id |-> k.id, generation |-> 0, initiator |-> "server"]
    IN  /\ k.id \in PushIds
        /\ payloads > 0
        /\ current = {}
        /\ ~Found(table, k) /\ k.initiator = "target"
        /\ held'    = held \cup {h}
        /\ current' = {[handle |-> h, serverEnd |-> FALSE]}
        /\ UNCHANGED <<table, link, posQueue, wire, reused, payloads>>

\* ... after the callback, which may have ended the transaction and begun
\* others.
Delivered ==
    \E d \in current :
        /\ current'  = {}
        /\ payloads' = payloads - 1
        /\ table'    = IF d.serverEnd THEN ServerEnd(table, d.handle) ELSE table
        /\ UNCHANGED <<link, posQueue, wire, held, reused>>

\* A payload that does not decode, names no transaction, has no body, or is
\* of a client transaction that is not known.
DropPayload ==
    /\ payloads > 0
    /\ current = {}
    /\ payloads' = payloads - 1
    /\ UNCHANGED <<table, link, posQueue, wire, held, reused, current>>

Next ==
    \/ \E sse \in BOOLEAN : Create(sse)
    \/ \E h \in held, end \in BOOLEAN, outcome \in Outcomes : Send(h, end, outcome)
    \/ \E h \in held : Delete(h)
    \/ Connect
    \/ Connected
    \/ \E ok \in BOOLEAN : Posinit(ok)
    \/ Cancel
    \/ \E n \in 1 .. MaxPayloads : ReceivePos(n)
    \/ \E k \in Key, serverEnd \in BOOLEAN : Deliver(k, serverEnd)
    \/ \E k \in Key : DeliverHack(k)
    \/ Delivered
    \/ DropPayload

Spec == Init /\ [][Next]_vars

----------------------------------------------------------------------------
(***************************************************************************)
(* Properties.                                                             *)
(***************************************************************************)

\* Every variable has its type.
TypeOK ==
    /\ TableType(table)
    /\ link \in Links
    /\ posQueue \in Seq(Message)
    /\ wire \in Seq(Message)
    /\ held \subseteq Handle
    /\ reused \in BOOLEAN
    /\ payloads \in Nat
    /\ current \subseteq Delivery

\* mTransacionLookup never dangles and never crosses: what it holds for a key
\* is a live transaction with that key, whatever was added over it or removed
\* next to it (add_transaction, remove_transaction).
LookupSound == SoundLookup(table)

\* A live transaction begun by the server is the one its number leads to, so
\* there is at most one per number and each of its messages reaches it
\* (process_lpp_payload).
ServerTransactionsReachable == ServerReachable(table)

\* The protection of transaction.hpp:81-83: a transaction that enters the
\* table has a handle nobody ever held, so that a handle kept after its
\* transaction ended, or from an earlier connection, cannot reach a later one
\* with the same number.
NewTransactionsAreFresh ==
    [][\A h \in Live(table)' \ Live(table) :
          h \notin held /\ \A g \in Live(table) : g.generation # h.generation]_vars

\* A message with endTransaction, on the wire or still in the queue, is the
\* client's last word: its transaction is out of the table, so that no call
\* with its handle can send anything more, on this connection or a later one
\* (send, client_end_transaction, remove_transaction).
EndedTransactionsAreGone ==
    LET all == wire \o posQueue
    IN  \A i \in 1 .. Len(all) : all[i].end => all[i].handle \notin Live(table)

\* Messages wait in mPosQueue only while there is no connection that could
\* carry them: once the POSINIT is out the queue is empty and stays empty, so
\* the "TODO: Send SUPL POS for queued messages" of state_message has nothing
\* to do.
QueueEmptyOnceEstablished ==
    link = "established" => posQueue = <<>>

\* The connection this module abstracts from goes through the phases that
\* LppSession gives it: both implement LppLink.
Link == INSTANCE LppLink

ImplementsLink == Link!Spec

\* Every live transaction can be reached from the wire, unless a number has
\* been allocated while another transaction still had it.
UnreachableOnlyAfterReuse == ~reused => AllReachable(table)

\* session.hpp:154-155 "Called when a message was received for a
\* transaction": a message for a live transaction finds it.
LiveTransactionsReachable == AllReachable(table)
============================================================================

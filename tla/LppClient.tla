----------------------------- MODULE LppClient -----------------------------
(***************************************************************************)
(* lpp::Client over the transaction table of its lpp::Session: periodic    *)
(* and single requests for assistance data with their timeouts and aborts, *)
(* the maps that lead a message to the session it is for, the location     *)
(* information deliveries, and what becomes of all of them when a          *)
(* transaction ends, a timer fires or the connection is lost.              *)
(*                                                                         *)
(* Everything runs on the thread of the scheduler: one action per call of  *)
(* a user, per LPP message, per timer and per deferred call.               *)
(***************************************************************************)
EXTENDS LppTransactionTable, Sequences, FiniteSets

CONSTANTS
    NumSessions,    \* periodic sessions are numbered 0 .. NumSessions-1 (256)
    Hacks,          \* the combinations of hacks that the program may set
    ManyEvents,     \* max_events_per_wait is larger than its default 1
    MaxGeneration   \* bound: transactions begun

ASSUME ClientAssumption ==
    /\ NumSessions \in Nat \ {0}
    /\ Hacks \subseteq SUBSET {"never_send_abort", "bad_transaction_initiator"}
    /\ ManyEvents \in BOOLEAN
    /\ MaxGeneration \in Nat

VARIABLES
    table,    \* the transaction table of mSession
    client,   \* the containers of the client and of its sessions
    link,     \* the supl::Session: absent, being made, usable, or broken
    attached, \* mScheduler is set
    deferred, \* Scheduler::mDeferredCallbacks, and those being run
    running,  \* Scheduler::process_deferred has begun with them
    old       \* the requests waiting for more than 5 seconds

vars == <<table, client, link, attached, deferred, running, old>>

SessionIds == 0 .. NumSessions - 1

\* The handles the client can make within the bound.
Handles == [id : Ids, generation : 1 .. MaxGeneration, initiator : {"target"}]

\* A PeriodicSession: mRequestTransactions, mPeriodicTransactions, whether
\* mPeriodicTask runs, and whether it has asked to be destroyed (history).
NewSession == [requests |-> {}, periodic |-> {}, scheduled |-> FALSE,
               gaveUp |-> FALSE]

NoClient == [sessions   |-> EmptyMap,  \* mSessions, by number
             requestTx  |-> EmptyMap,  \* mRequestTransactions
             periodicTx |-> EmptyMap,  \* mPeriodicTransactions
             singles    |-> EmptyMap,  \* mSingleSessions
             deliveries |-> EmptyMap,  \* mLocationInformationDeliveries
             next       |-> 1,         \* mNextSessionId
             hacks      |-> {}]        \* mHackNeverSendAbort, ...

\* What Client::cancel leaves.
Emptied == [NoClient EXCEPT !.hacks = client.hacks]

Sessions == DOMAIN client.sessions
NeverSendAbort == "never_send_abort" \in client.hacks
BadInitiator   == "bad_transaction_initiator" \in client.hacks
Requests(s) == client.sessions[s].requests
Periodic(s) == client.sessions[s].periodic

\* The requests somebody waits for the answer of.  A single session that has
\* given up no longer knows its transaction.
Waiting == (UNION {Requests(s) : s \in Sessions})
           \cup {h \in DOMAIN client.singles : client.singles[h].waits}

\* Age is remembered only of requests that still wait.
StillWaiting == old' = old \cap Waiting'

----------------------------------------------------------------------------
(***************************************************************************)
(* The transaction layer, as the client uses it.                           *)
(***************************************************************************)

\* Whether a message gets out.  With no supl::Session it is queued; encoding
\* is taken to succeed (LppTransactions lets it fail).
MayPass(ok) == ok \in (CASE link = "null"        -> {TRUE}
                         [] link = "established" -> BOOLEAN
                         [] OTHER                -> {FALSE})
LinkAfter(ok) == IF ok THEN link ELSE "broken"

\* Session::send and, with end, Session::send_with_end.
Sent(tb, h, end, ok) ==
    LET asked == IF end /\ h \in Live(tb)
                 THEN [tb EXCEPT !.transactions[h].client_should_send_end = TRUE]
                 ELSE tb
    IN  IF ok /\ h \in Live(tb) /\ asked.transactions[h].client_should_send_end
        THEN ClientEnd(asked, h)
        ELSE asked

\* send_with_end for each of the transactions hs: those in passed get out.
Aborted(tb, hs, passed) ==
    LET gone == (hs \cap passed) \cap Live(tb)
        left == [h \in Live(tb) \ gone |->
                    IF h \in hs
                    THEN [tb.transactions[h] EXCEPT !.client_should_send_end = TRUE]
                    ELSE tb.transactions[h]]
    IN  [tb EXCEPT !.transactions       = left,
                   !.lookup             = Restrict(@, DOMAIN @ \ {KeyOf(h) : h \in gone}),
                   !.clientTransactions = @ \ {h.id : h \in {g \in gone : g.initiator = "target"}}]

----------------------------------------------------------------------------
(***************************************************************************)
(* The containers.                                                         *)
(***************************************************************************)

\* Mutant of Unregister: the client's map is left alone.
UnregisterInSession(c, s, h) == [c EXCEPT !.sessions[s].requests = @ \ {h}]

\* PeriodicSession::register_request and unregister_request.
Register(c, s, h) ==
    [c EXCEPT !.sessions[s].requests = @ \cup {h}, !.requestTx = Put(@, h, s)]
Unregister(c, s, h) ==
    [c EXCEPT !.sessions[s].requests = @ \ {h}, !.requestTx = Erase(@, h)]

PeriodicEndedInSession(c, s, h) ==                                 \* mutant
    [c EXCEPT !.sessions[s].periodic = @ \ {h}]

\* PeriodicSession::handle_periodic_begin and handle_periodic_ended.
PeriodicBegin(c, s, h) ==
    [c EXCEPT !.sessions[s].periodic = @ \cup {h}, !.periodicTx = Put(@, h, s)]
PeriodicEnded(c, s, h) ==
    [c EXCEPT !.sessions[s].periodic = @ \ {h}, !.periodicTx = Erase(@, h)]

\* PeriodicSession::end.
End(c, s, h) ==
    IF h \in c.sessions[s].requests THEN Unregister(c, s, h)
    ELSE IF h \in c.sessions[s].periodic THEN PeriodicEnded(c, s, h)
    ELSE c

\* The session a map leads to, if it exists.
Leads(c, map, h) == h \in DOMAIN map /\ map[h] \in DOMAIN c.sessions

\* Mutant of the next operator: only requests are looked for.
EndTransactionRequestsOnly(c, h) ==
    IF Leads(c, c.requestTx, h) THEN End(c, c.requestTx[h], h)
    ELSE [c EXCEPT !.singles = Erase(@, h), !.deliveries = Erase(@, h)]

\* Client::process_end_transaction.
EndTransaction(c, h) ==
    LET c1 == IF Leads(c, c.requestTx, h) THEN End(c, c.requestTx[h], h) ELSE c
        c2 == [c1 EXCEPT !.singles = Erase(@, h)]
        c3 == IF Leads(c2, c2.periodicTx, h) THEN End(c2, c2.periodicTx[h], h) ELSE c2
    IN  [c3 EXCEPT !.deliveries = Erase(@, h)]

\* ... which the transaction layer calls for what it removes.
EndRemoved(c, before, after, h) ==
    IF h \in Live(before) \ Live(after) THEN EndTransaction(c, h) ELSE c

\* PeriodicSession::destroy, once mSessions has let the session go: its aborts
\* have ended the transactions in ended, whose ends change no session, as its
\* transactions lead nowhere by then.
Destroyed(c, s, ended) ==
    LET mine == IF NeverSendAbort THEN {}
                ELSE c.sessions[s].requests \cup c.sessions[s].periodic
    IN  [c EXCEPT !.sessions   = Erase(@, s),
                  !.requestTx  = Restrict(@, DOMAIN @ \ mine),
                  !.periodicTx = Restrict(@, DOMAIN @ \ mine),
                  !.deliveries = Restrict(@, DOMAIN @ \ ended)]

\* The transactions destroy aborts.
ToAbort(s) == IF NeverSendAbort THEN {} ELSE Requests(s) \cup Periodic(s)

----------------------------------------------------------------------------

Init ==
    /\ table    = NewTable
    /\ \E hacks \in Hacks : client = [NoClient EXCEPT !.hacks = hacks]
    /\ link     = "null"
    /\ attached = FALSE
    /\ deferred = <<>>
    /\ running  = FALSE
    /\ old      = {}

\* Events and users run when the deferred calls are through, or between an
\* event and its deferred calls when one wait brings several events.
UsersRun == ~running /\ (deferred = <<>> \/ ManyEvents)

CanBegin == CanAllocate(table) /\ table.generationId <= MaxGeneration

\* Client::allocate_periodic_session_handle: the number stays the next to try.
FreeSessions(c) == {i \in 0 .. NumSessions - 1 :
                       (c.next + i) % NumSessions \notin DOMAIN c.sessions}
NextSessionWithoutWrap(c) ==                                       \* mutant
    LET i == CHOOSE i \in FreeSessions(c) : \A j \in FreeSessions(c) : i <= j
    IN  c.next + i
NextSession(c) == LET i == CHOOSE i \in FreeSessions(c) :
                               \A j \in FreeSessions(c) : i <= j
                  IN  (c.next + i) % NumSessions

\* Client::request_assistance_data: a new session with one request, whether
\* or not its message got out.  Its timer is left alone.
NewRequest(c, h) ==
    LET s == NextSession(c)
    IN  Register([c EXCEPT !.sessions = Put(@, s, NewSession), !.next = s], s, h)

RequestPeriodic(ok) ==
    /\ UsersRun /\ CanBegin /\ MayPass(ok)
    /\ FreeSessions(client) # {}
    /\ table'  = CreateTransaction(table, TRUE)
    /\ client' = NewRequest(client, Allocate(table))
    /\ link'   = LinkAfter(ok)
    /\ StillWaiting
    /\ UNCHANGED <<attached, deferred, running>>

\* Client::update_assistance_data: a further request of a session.
UpdateAssistanceData(s, ok) ==
    /\ UsersRun /\ CanBegin /\ MayPass(ok)
    /\ table'  = CreateTransaction(table, TRUE)
    /\ client' = Register(client, s, Allocate(table))
    /\ link'   = LinkAfter(ok)
    /\ StillWaiting
    /\ UNCHANGED <<attached, deferred, running>>

\* Client::request_assistance_data with a SingleRequestAssistanceData.
RequestSingle(ok) ==
    /\ UsersRun /\ CanBegin /\ MayPass(ok)
    /\ table'  = CreateTransaction(table, TRUE)
    /\ client' = [client EXCEPT !.singles =
                     Put(@, Allocate(table), [waits |-> TRUE, scheduled |-> FALSE])]
    /\ link'   = LinkAfter(ok)
    /\ StillWaiting
    /\ UNCHANGED <<attached, deferred, running>>

\* Client::schedule: the timers of the sessions there are, and a new
\* connection.
Schedule ==
    /\ UsersRun
    /\ ~attached
    /\ attached' = TRUE
    /\ link'     = "connecting"
    /\ client'   = [client EXCEPT
                       !.sessions = [s \in DOMAIN @ |-> [@[s] EXCEPT !.scheduled = TRUE]],
                       !.singles  = [h \in DOMAIN @ |-> [@[h] EXCEPT !.scheduled = TRUE]]]
    /\ StillWaiting
    /\ UNCHANGED <<table, deferred, running>>

\* The POSINIT has been sent (LppSession).
Established ==
    /\ UsersRun
    /\ link = "connecting"
    /\ link' = "established"
    /\ UNCHANGED <<table, client, attached, deferred, running, old>>

Teardown == [call |-> "teardown", session |-> -1, single |-> {}]

\* The callback on_disconnected of the lpp::Session, which calls it once for a
\* connection (LppSession): Client::cancel is deferred.
Disconnected ==
    /\ UsersRun
    /\ attached
    /\ \A i \in 1 .. Len(deferred) : deferred[i] # Teardown
    /\ link'     = "broken"
    /\ deferred' = Append(deferred, Teardown)
    /\ UNCHANGED <<table, client, attached, running, old>>

----------------------------------------------------------------------------
(***************************************************************************)
(* Session::process_lpp_payload, one action per kind of message.  A server *)
(* transaction that is not known is begun before the client sees the       *)
(* message, and the server's end is processed after.                       *)
(***************************************************************************)

Arrives(k) ==
    /\ UsersRun
    /\ link = "established"
    /\ Found(table, k) \/ (k.initiator = "server" /\ table.generationId <= MaxGeneration)

\* A server makes its requests in transactions of its own.
ServerBegins(k) == Arrives(k) /\ k.initiator = "server"

\* What the end of the message leaves, when the handler has left tb and c.
Finish(tb, c, h, end) ==
    LET after == IF end THEN ServerEnd(tb, h) ELSE tb
    IN  /\ table'  = after
        /\ client' = EndRemoved(c, tb, after, h)

\* PeriodicSession::message, of session s: what it may leave.  With the hack a
\* message in a transaction of the server answers a request with the same
\* number.
Corrected(c, s, h) == {r \in c.sessions[s].requests :
                          /\ BadInitiator
                          /\ h.initiator = "server" /\ r.initiator = "target"
                          /\ r.id = h.id}

SessionMessage(c, s, h) ==
    IF Corrected(c, s, h) # {} THEN {End(c, s, r) : r \in Corrected(c, s, h)}
    ELSE IF \/ h.initiator = "target"
            \/ h \in c.sessions[s].requests \cup c.sessions[s].periodic
    THEN {c}
    ELSE {PeriodicBegin(c, s, h)}

\* Client::process_provide_assistance_data: the transaction decides, then the
\* periodic session s the message names (-1: none).
ProvideAssistanceData(c, h, s) ==
    IF Leads(c, c.requestTx, h) THEN SessionMessage(c, c.requestTx[h], h)
    ELSE IF h \notin DOMAIN c.singles /\ s \in DOMAIN c.sessions
    THEN SessionMessage(c, s, h)
    ELSE {c}

ReceiveAssistanceData(k, s, end) ==
    LET tb == Resolve(table, k)
        h  == tb.lookup[k]
    IN  /\ Arrives(k)
        \* a server uses a transaction for one periodic session only
        /\ h \in DOMAIN client.periodicTx => s = client.periodicTx[h]
        /\ \E c \in ProvideAssistanceData(client, h, s) : Finish(tb, c, h, end)
        /\ StillWaiting
        /\ UNCHANGED <<link, attached, deferred, running>>

\* Client::process_request_capabilities; the user may make a request in the
\* callback on_provide_capabilities.
ReceiveRequestCapabilities(k, end, ok, asks, passes) ==
    LET tb == Resolve(table, k)
        h  == tb.lookup[k]
        replied == Sent(tb, h, TRUE, ok)
        c  == EndRemoved(client, tb, replied, h)
    IN  /\ ServerBegins(k)
        /\ passes => ok
        /\ asks => /\ CanAllocate(replied) /\ replied.generationId <= MaxGeneration
                   /\ FreeSessions(c) # {}
        /\ IF asks
           THEN Finish(CreateTransaction(replied, TRUE),
                       NewRequest(c, Allocate(replied)), h, end)
           ELSE passes = ok /\ Finish(replied, c, h, end)
        /\ link' = LinkAfter(passes)
        /\ StillWaiting
        /\ UNCHANGED <<attached, deferred, running>>

\* Client::start_periodic_location_information: the first delivery is made
\* before the delivery is in the map.
StartDelivery(c, before, after, h) ==
    [EndRemoved(c, before, after, h) EXCEPT !.deliveries = Put(@, h, attached)]

\* ... called by a user: in a new transaction, which both sides have to end.
StartLocationInformation(ok) ==
    LET begun == CreateTransaction(table, FALSE)
        h     == Allocate(table)
        sent  == Sent(begun, h, FALSE, ok)
    IN  /\ UsersRun /\ CanBegin /\ MayPass(ok)
        /\ table'  = sent
        /\ client' = StartDelivery(client, begun, sent, h)
        /\ link'   = LinkAfter(ok)
        /\ StillWaiting
        /\ UNCHANGED <<attached, deferred, running>>

\* Client::process_request_location_information, when the client makes the
\* delivery.
ReceiveRequestLocation(k, end, ok) ==
    LET tb == Resolve(table, k)
        h  == tb.lookup[k]
        sent == Sent(tb, h, FALSE, ok)
    IN  /\ ServerBegins(k)
        /\ h \notin DOMAIN client.deliveries
        /\ Finish(sent, StartDelivery(client, tb, sent, h), h, end)
        /\ link' = LinkAfter(ok)
        /\ StillWaiting
        /\ UNCHANGED <<attached, deferred, running>>

\* Messages that change nothing: aborts and errors (process_abort and
\* process_error are empty), messages the client does not support, and those
\* that its user handles.
ReceiveOther(k, end) ==
    LET tb == Resolve(table, k)
    IN  /\ Arrives(k)
        /\ Finish(tb, client, tb.lookup[k], end)
        /\ StillWaiting
        /\ UNCHANGED <<link, attached, deferred, running>>

----------------------------------------------------------------------------
(***************************************************************************)
(* Time and timers.                                                        *)
(***************************************************************************)

\* More than 5 seconds have passed since the request h was made.
GrowsOld(h) ==
    /\ h \in Waiting \ old
    /\ old' = old \cup {h}
    /\ UNCHANGED <<table, client, link, attached, deferred, running>>

Deallocate(s) == [call |-> "deallocate", session |-> s, single |-> {}]
Remove(h)     == [call |-> "remove", session |-> -1, single |-> {h}]

Repeat(x, n) == [i \in 1 .. n |-> x]

\* The sends of the messages with handles hs: which of them get out.  After
\* the first that fails none does.
Passing(hs) == CASE link = "null"        -> {hs}
                 [] link = "established" -> SUBSET hs
                 [] OTHER                -> {{}}

\* Mutant of the next action: the session is destroyed at once, as well.
CheckSessionAtOnce(s) ==
    LET stale == Requests(s) \cap old
        hs    == IF NeverSendAbort THEN {} ELSE stale
    IN  /\ UsersRun
        /\ client.sessions[s].scheduled
        /\ stale # {}
        /\ deferred' = Append(deferred, Deallocate(s))
        /\ client'   = [client EXCEPT !.sessions  = Erase(@, s),
                                      !.requestTx = Restrict(@, DOMAIN @ \ hs)]
        /\ \E passed \in Passing(hs) :
              /\ table' = Aborted(table, hs, passed)
              /\ link'  = LinkAfter(passed = hs)
        /\ StillWaiting
        /\ UNCHANGED <<attached, running>>

\* PeriodicSession::check_active_requests: for each request that is old
\* stale_request, with on_error and try_destroy, and then the abort.
CheckSession(s) ==
    LET stale == Requests(s) \cap old
        hs    == IF NeverSendAbort THEN {} ELSE stale
    IN  /\ UsersRun
        /\ client.sessions[s].scheduled
        /\ stale # {}
        /\ deferred' = deferred \o IF attached
                                   THEN Repeat(Deallocate(s), Cardinality(stale)) ELSE <<>>
        /\ client'   = [client EXCEPT !.sessions[s].requests = @ \ stale,
                                      !.sessions[s].gaveUp = TRUE,
                                      !.requestTx = Restrict(@, DOMAIN @ \ hs)]
        /\ \E passed \in Passing(hs) :
              /\ table' = Aborted(table, hs, passed)
              /\ link'  = LinkAfter(passed = hs)
        /\ StillWaiting
        /\ UNCHANGED <<attached, running>>

\* Mutant of the next action: the user is told, and nothing else happens.
CheckSingleTelling(h) ==
    /\ UsersRun
    /\ client.singles[h].scheduled
    /\ client.singles[h].waits /\ h \in old
    /\ UNCHANGED <<table, client, link, attached, deferred, running, old>>

\* SingleSession::check_active_requests: try_destroy forgets the transaction,
\* so that the abort that follows goes nowhere.
CheckSingle(h) ==
    /\ UsersRun
    /\ client.singles[h].scheduled
    /\ client.singles[h].waits /\ h \in old
    /\ deferred' = IF attached THEN Append(deferred, Remove(h)) ELSE deferred
    /\ client'   = [client EXCEPT !.singles[h].waits = FALSE]
    /\ StillWaiting
    /\ UNCHANGED <<table, link, attached, running>>

\* The timer of a LocationInformationDelivery.
DeliverLocation(h, ok) ==
    LET sent == Sent(table, h, FALSE, ok)
    IN  /\ UsersRun
        /\ client.deliveries[h]
        /\ h \in Live(table) /\ MayPass(ok)
        /\ table'  = sent
        /\ client' = EndRemoved(client, table, sent, h)
        /\ link'   = LinkAfter(ok)
        /\ StillWaiting
        /\ UNCHANGED <<attached, deferred, running>>

----------------------------------------------------------------------------
(***************************************************************************)
(* The deferred calls.                                                     *)
(***************************************************************************)

Runs(call) ==
    /\ deferred # <<>> /\ Head(deferred).call = call
    /\ deferred' = Tail(deferred)
    /\ running'  = (Tail(deferred) # <<>>)

\* Client::deallocate_periodic_session_handle: whatever session has the number
\* now is destroyed.
RunDeallocate ==
    LET s == Head(deferred).session
    IN  /\ Runs("deallocate")
        /\ IF s \in Sessions
           THEN \E passed \in Passing(ToAbort(s) \cap Live(table)) :
                   LET tb == Aborted(table, ToAbort(s), passed)
                   IN  /\ table'  = tb
                       /\ client' = Destroyed(client, s, Live(table) \ Live(tb))
                       /\ link'   = LinkAfter(passed = ToAbort(s) \cap Live(table))
           ELSE UNCHANGED <<table, client, link>>
        /\ StillWaiting
        /\ UNCHANGED <<attached>>

\* Client::remove_single_session.
RunRemove ==
    /\ Runs("remove")
    /\ client' = [client EXCEPT !.singles = Restrict(@, DOMAIN @ \ Head(deferred).single)]
    /\ StillWaiting
    /\ UNCHANGED <<table, link, attached>>

\* on_disconnected, which the same deferred call makes after cancel: the user
\* may make a request.  It is taken not to while the number of its session may
\* still be that of an earlier session, which a later deferred call destroys.
OnDisconnected(tb, asks) ==
    IF asks
    THEN /\ CanAllocate(tb) /\ tb.generationId <= MaxGeneration
         /\ \A i \in DOMAIN deferred : deferred[i].call # "deallocate"
         /\ table'  = CreateTransaction(tb, TRUE)
         /\ client' = NewRequest(Emptied, Allocate(tb))
    ELSE table' = tb /\ client' = Emptied

\* Mutant of the next action: the sessions go without an abort.
RunTeardownSilent(asks) ==
    /\ Runs("teardown")
    /\ link'     = "null"
    /\ attached' = FALSE
    /\ OnDisconnected(table, asks)
    /\ StillWaiting

\* Client::cancel: the connection goes first, so that the aborts of the
\* sessions are queued for the next one.  Single sessions and deliveries go
\* without an abort.
RunTeardown(asks) ==
    /\ Runs("teardown")
    /\ link'     = "null"
    /\ attached' = FALSE
    /\ LET hs == UNION {ToAbort(s) : s \in Sessions}
       IN  OnDisconnected(Aborted(table, hs, hs), asks)
    /\ StillWaiting

Server ==
    \E k \in Key, end \in BOOLEAN :
        \/ \E s \in SessionIds \cup {-1} : ReceiveAssistanceData(k, s, end)
        \/ \E ok, asks, passes \in BOOLEAN :
              ReceiveRequestCapabilities(k, end, ok, asks, passes)
        \/ \E ok \in BOOLEAN : ReceiveRequestLocation(k, end, ok)
        \/ ReceiveOther(k, end)

Users ==
    \E ok \in BOOLEAN :
        \/ RequestPeriodic(ok)
        \/ \E s \in Sessions : UpdateAssistanceData(s, ok)
        \/ RequestSingle(ok)
        \/ StartLocationInformation(ok)

Next ==
    \/ Users \/ Schedule \/ Established \/ Disconnected \/ Server
    \/ \E h \in Waiting : GrowsOld(h)
    \/ \E s \in Sessions : CheckSession(s)
    \/ \E h \in DOMAIN client.singles : CheckSingle(h)
    \/ \E h \in DOMAIN client.deliveries, ok \in BOOLEAN : DeliverLocation(h, ok)
    \/ RunDeallocate \/ RunRemove \/ \E asks \in BOOLEAN : RunTeardown(asks)

\* The scheduler runs what it has been given and its timers fire; time passes.
\* Users and the server may do nothing at all.
Fairness ==
    /\ \A h \in Handles : WF_vars(h \in Waiting /\ GrowsOld(h))
    /\ \A s \in SessionIds : WF_vars(s \in Sessions /\ CheckSession(s))
    /\ \A h \in Handles : WF_vars(h \in DOMAIN client.singles /\ CheckSingle(h))
    /\ WF_vars(RunDeallocate) /\ WF_vars(RunRemove)
    /\ WF_vars(\E asks \in BOOLEAN : RunTeardown(asks))

Spec == Init /\ [][Next]_vars

FairSpec == Spec /\ Fairness

----------------------------------------------------------------------------
(***************************************************************************)
(* Properties.                                                             *)
(***************************************************************************)

\* Every variable has its type.
TypeOK ==
    /\ TableType(table)
    /\ Sessions \subseteq SessionIds
    /\ \A s \in Sessions :
          /\ Requests(s) \subseteq Handle /\ Periodic(s) \subseteq Handle
          /\ client.sessions[s].scheduled \in BOOLEAN
          /\ client.sessions[s].gaveUp \in BOOLEAN
    /\ \A h \in DOMAIN client.requestTx : h \in Handle /\ client.requestTx[h] \in SessionIds
    /\ \A h \in DOMAIN client.periodicTx : h \in Handle /\ client.periodicTx[h] \in SessionIds
    /\ \A h \in DOMAIN client.singles :
          h \in Handle /\ client.singles[h] \in [waits : BOOLEAN, scheduled : BOOLEAN]
    /\ \A h \in DOMAIN client.deliveries : h \in Handle /\ client.deliveries[h] \in BOOLEAN
    /\ client.next \in Nat /\ client.hacks \in Hacks
    /\ link \in {"null", "connecting", "established", "broken"}
    /\ attached \in BOOLEAN /\ running \in BOOLEAN
    /\ Len(deferred) \in Nat
    /\ \A i \in 1 .. Len(deferred) :
          /\ deferred[i].call \in {"teardown", "deallocate", "remove"}
          /\ deferred[i].session \in SessionIds \cup {-1}
          /\ deferred[i].single \subseteq Handle
    /\ old \subseteq Waiting

\* The client and its sessions keep the same facts twice: the maps that route
\* a message to a session and the sessions' own lists, of the requests they
\* wait for and of the transactions that carry their periodic data, agree.
\* With the hack a map may keep what a session has given up.
Agree(map, list(_)) ==
    /\ \A s \in Sessions : \A h \in list(s) : h \in DOMAIN map /\ map[h] = s
    /\ \A h \in DOMAIN map :
          NeverSendAbort \/ (map[h] \in Sessions /\ h \in list(map[h]))

RoutesAgree ==
    Agree(client.requestTx, Requests) /\ Agree(client.periodicTx, Periodic)

\* Nobody waits for a transaction that is out of the table: whichever side
\* ended it, and for whatever reason, its session has been told, so that no
\* request and no periodic session waits for an answer that cannot come.
WaitedForIsLive ==
    /\ Waiting \subseteq Live(table)
    /\ \A s \in Sessions : Periodic(s) \subseteq Live(table)

\* A deferred deallocation destroys the session that asked for it, and not a
\* later one that has been given its number.
DeallocatesItsOwn ==
    \A i \in 1 .. Len(deferred) :
        deferred[i].call = "deallocate" /\ deferred[i].session \in Sessions
        => client.sessions[deferred[i].session].gaveUp

\* client.hpp:88-89: cancel stops all periodic sessions: none of their
\* transactions is live afterwards, unless aborts are switched off.
CancelStopsSessions ==
    [][attached /\ ~attached' /\ ~NeverSendAbort =>
          \A s \in Sessions : (Requests(s) \cup Periodic(s)) \cap Live(table)' = {}]_vars

\* The requests that wait and have a timer: those made before the client was
\* scheduled.
TimedRequests ==
    (UNION {Requests(s) : s \in {x \in Sessions : client.sessions[x].scheduled}})
    \cup {h \in DOMAIN client.singles : client.singles[h].waits
                                        /\ client.singles[h].scheduled}

\* No request with a timer waits for ever, whatever the server does: again and
\* again there is none.  (The bound lets finitely many be made, so that this
\* is about each of them.)
TimedRequestsEnd == []<>(TimedRequests = {})

\* handler.hpp:43 "An out-going request hasn't been answered for 5 seconds"
\* (stale_request): any request of a scheduled client.
RequestsEnd == \A h \in Handles : attached /\ h \in Waiting ~> h \notin Waiting
============================================================================

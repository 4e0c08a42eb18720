-------------------------- MODULE LppClientProofs --------------------------
(***************************************************************************)
(* Proofs about LppClient, for every number of transactions, of sessions   *)
(* and of requests.                                                        *)
(*                                                                         *)
(* RoutesAgree is not inductive alone: a new request must not have the     *)
(* handle of one that somebody still lists, which rests on everything that *)
(* is listed being in the transaction table, WaitedForIsLive, and the      *)
(* table's handles being older than the next generation; and that only     *)
(* rests on RoutesAgree, by which the end of a transaction finds who waits *)
(* for it.  ClientInv is both, with the shape of the containers.           *)
(***************************************************************************)
EXTENDS LppClient, LppTableProofs, FiniteSetTheorems, SequenceTheorems

\* The client makes requests in its own transactions, and servers their
\* periodic data in theirs.
Own    == {h \in Handle : h.initiator = "target"}
Theirs == {h \in Handle : h.initiator = "server"}

SessionType == [requests : SUBSET Own, periodic : SUBSET Theirs,
                scheduled : BOOLEAN, gaveUp : BOOLEAN]
SingleType  == [waits : BOOLEAN, scheduled : BOOLEAN]

ClientType(c) ==
    /\ DOMAIN c = {"sessions", "requestTx", "periodicTx", "singles", "deliveries",
                   "next", "hacks"}
    /\ DOMAIN c.sessions \subseteq SessionIds
    /\ c.sessions \in [DOMAIN c.sessions -> SessionType]
    /\ \A s \in DOMAIN c.sessions : IsFiniteSet(c.sessions[s].requests)
    /\ DOMAIN c.requestTx \subseteq Own
    /\ c.requestTx \in [DOMAIN c.requestTx -> SessionIds]
    /\ DOMAIN c.periodicTx \subseteq Theirs
    /\ c.periodicTx \in [DOMAIN c.periodicTx -> SessionIds]
    /\ DOMAIN c.singles \subseteq Own
    /\ c.singles \in [DOMAIN c.singles -> SingleType]
    /\ DOMAIN c.deliveries \subseteq Handle
    /\ c.deliveries \in [DOMAIN c.deliveries -> BOOLEAN]
    /\ c.next \in Nat
    /\ c.hacks \in Hacks

\* The routes of the client c lead to who lists the transaction.
RequestRoutes(c) ==
    /\ \A s \in DOMAIN c.sessions : \A h \in c.sessions[s].requests :
         h \in DOMAIN c.requestTx /\ c.requestTx[h] = s
    /\ "never_send_abort" \notin c.hacks =>
         \A h \in DOMAIN c.requestTx :
            c.requestTx[h] \in DOMAIN c.sessions /\ h \in c.sessions[c.requestTx[h]].requests

PeriodicRoutes(c) ==
    /\ \A s \in DOMAIN c.sessions : \A h \in c.sessions[s].periodic :
         h \in DOMAIN c.periodicTx /\ c.periodicTx[h] = s
    /\ "never_send_abort" \notin c.hacks =>
         \A h \in DOMAIN c.periodicTx :
            c.periodicTx[h] \in DOMAIN c.sessions /\ h \in c.sessions[c.periodicTx[h]].periodic

\* No transaction is that of a periodic and of a single session.
SinglesApart(c) ==
    \A s \in DOMAIN c.sessions : \A h \in c.sessions[s].requests : h \notin DOMAIN c.singles

\* What somebody waits for is in live; what a single session is listed under
\* is older than generation.
Listed(c, live, generation) ==
    /\ \A s \in DOMAIN c.sessions :
         c.sessions[s].requests \subseteq live /\ c.sessions[s].periodic \subseteq live
    /\ \A h \in DOMAIN c.singles :
         h.generation < generation /\ (c.singles[h].waits => h \in live)

ClientInv(c, live, generation) ==
    /\ ClientType(c)
    /\ RequestRoutes(c) /\ PeriodicRoutes(c) /\ SinglesApart(c)
    /\ Listed(c, live, generation)

\* The deferred calls.
CallType == [call : {"teardown", "deallocate", "remove"},
             session : SessionIds \cup {-1}, single : SUBSET Handle]

\* Until the deferred calls run, the sessions they are to destroy are there
\* and have asked for it; then no session is made before they are through.
DeferredInv ==
    /\ deferred \in Seq(CallType)
    /\ running => deferred # <<>>
    /\ \A i \in DOMAIN deferred : deferred[i].call = "deallocate" =>
         LET s == deferred[i].session
         IN  IF s \in Sessions THEN client.sessions[s].gaveUp ELSE running

RestType ==
    /\ link \in {"null", "connecting", "established", "broken"}
    /\ attached \in BOOLEAN /\ running \in BOOLEAN
    /\ old \subseteq Waiting

IInv ==
    /\ TableInv(table)
    /\ ClientInv(client, Live(table), table.generationId)
    /\ DeferredInv
    /\ RestType

-----------------------------------------------------------------------------
(***************************************************************************)
(* The table: the operators that LppClient adds to LppTransactionTable     *)
(***************************************************************************)

\* The end of a transaction takes no other one out of the table.
LEMMA RemovesOne ==
    ASSUME NEW tb, TableInv(tb), NEW h \in Handle
    PROVE  /\ Live(tb) \ {h} \subseteq Live(RemoveTransaction(tb, h))
           /\ Live(tb) \ {h} \subseteq Live(ServerEnd(tb, h))
           /\ Live(tb) \ {h} \subseteq Live(ClientEnd(tb, h))
<1>1. ASSUME NEW t, DOMAIN t = DOMAIN tb, Live(t) = Live(tb)
      PROVE  Live(tb) \ {h} \subseteq Live(RemoveTransaction(t, h))
  <2>1. CASE h \in Live(t) /\ Removable(t.transactions[h])
    <3>1. RemoveTransaction(t, h).transactions = Erase(t.transactions, h)
      BY <1>1, <2>1 DEF RemoveTransaction, TableInv, TableType
    <3>. QED
      BY <3>1, <1>1 DEF Live, Erase, Restrict
  <2>2. CASE ~(h \in Live(t) /\ Removable(t.transactions[h]))
    BY <1>1, <2>2 DEF RemoveTransaction
  <2>. QED
    BY <2>1, <2>2
<1>2. ASSUME NEW d, h \in Live(tb)
      PROVE  LET t == [tb EXCEPT !.transactions[h] = d]
             IN  DOMAIN t = DOMAIN tb /\ Live(t) = Live(tb)
  BY <1>2 DEF TableInv, TableType, Live
<1>3. Live(tb) \ {h} \subseteq Live(ServerEnd(tb, h))
  <2>1. CASE h \notin Live(tb)
    BY <2>1 DEF ServerEnd
  <2>2. CASE h \in Live(tb)
    <3> DEFINE d == [tb.transactions[h] EXCEPT !.server_has_sent_end = TRUE]
               t == [tb EXCEPT !.transactions[h] = d]
    <3>1. ServerEnd(tb, h) = RemoveTransaction(t, h)
      BY <2>2 DEF ServerEnd
    <3>2. DOMAIN t = DOMAIN tb /\ Live(t) = Live(tb)
      BY <2>2, <1>2
    <3> HIDE DEF t
    <3>. QED
      BY <3>1, <3>2, <1>1
  <2>. QED
    BY <2>1, <2>2
<1>4. Live(tb) \ {h} \subseteq Live(ClientEnd(tb, h))
  <2>1. CASE h \notin Live(tb)
    BY <2>1 DEF ClientEnd
  <2>2. CASE h \in Live(tb)
    <3> DEFINE d == [tb.transactions[h] EXCEPT !.client_has_sent_end = TRUE]
               t == [tb EXCEPT !.transactions[h] = d]
    <3>1. ClientEnd(tb, h) = RemoveTransaction(t, h)
      BY <2>2 DEF ClientEnd
    <3>2. DOMAIN t = DOMAIN tb /\ Live(t) = Live(tb)
      BY <2>2, <1>2
    <3> HIDE DEF t
    <3>. QED
      BY <3>1, <3>2, <1>1
  <2>. QED
    BY <2>1, <2>2
<1>. QED
  BY <1>1, <1>3, <1>4

\* Session::send and send_with_end may end the transaction of the message.
LEMMA SentInv ==
    ASSUME NEW tb, TableInv(tb), NEW h \in Handle, NEW end \in BOOLEAN, NEW ok \in BOOLEAN
    PROVE  LET r == Sent(tb, h, end, ok)
           IN  /\ TableInv(r) /\ r.generationId = tb.generationId
               /\ Live(r) \subseteq Live(tb) /\ Live(tb) \ {h} \subseteq Live(r)
<1> DEFINE asked == IF end /\ h \in Live(tb)
                    THEN [tb EXCEPT !.transactions[h].client_should_send_end = TRUE]
                    ELSE tb
<1>1. TableInv(asked) /\ Live(asked) = Live(tb) /\ asked.generationId = tb.generationId
  <2>1. CASE end /\ h \in Live(tb)
    <3> DEFINE d == [tb.transactions[h] EXCEPT !.client_should_send_end = TRUE]
    <3>1. d \in Data
      BY <2>1 DEF TableInv, TableType, Data
    <3>2. asked = [tb EXCEPT !.transactions[h] = d]
      BY <2>1
    <3> HIDE DEF d
    <3>. QED
      BY <2>1, <3>1, <3>2, SetFlagInv DEF Shrinks
  <2>2. CASE ~(end /\ h \in Live(tb))
    BY <2>2
  <2>. QED
    BY <2>1, <2>2
<1>2. Sent(tb, h, end, ok) \in {asked, ClientEnd(asked, h)}
  BY DEF Sent
<1> HIDE DEF asked
<1>. QED
  BY <1>1, <1>2, ClientEndInv, RemovesOne DEF Shrinks

\* The aborts of several transactions end those that get out.
LEMMA AbortedInv ==
    ASSUME NEW tb, TableInv(tb), NEW hs, NEW passed
    PROVE  LET r == Aborted(tb, hs, passed)
           IN  /\ TableInv(r) /\ r.generationId = tb.generationId
               /\ Live(r) = Live(tb) \ (hs \cap passed)
<1> DEFINE r == Aborted(tb, hs, passed)
           gone == (hs \cap passed) \cap Live(tb)
           left == [h \in Live(tb) \ gone |->
                      IF h \in hs
                      THEN [tb.transactions[h] EXCEPT !.client_should_send_end = TRUE]
                      ELSE tb.transactions[h]]
<1>1. /\ DOMAIN r = DOMAIN tb
      /\ r.transactions = left
      /\ r.lookup = Restrict(tb.lookup, DOMAIN tb.lookup \ {KeyOf(h) : h \in gone})
      /\ r.clientTransactions \subseteq tb.clientTransactions
      /\ r.transactionId = tb.transactionId
      /\ r.generationId = tb.generationId
  BY DEF Aborted, TableInv, TableType
<1>2. Live(r) = Live(tb) \ gone /\ gone \subseteq Live(tb)
  BY <1>1 DEF Live
<1>3. left \in [Live(tb) \ gone -> Data]
  <2>1. \A h \in Live(tb) : /\ tb.transactions[h] \in Data
                            /\ [tb.transactions[h] EXCEPT !.client_should_send_end = TRUE] \in Data
    BY DEF TableInv, TableType, Data
  <2>. QED
    BY <2>1
<1> HIDE DEF r, left, gone
<1>4. TableType(r)
  <2>1. DOMAIN r.lookup \subseteq Key /\ r.lookup \in [DOMAIN r.lookup -> Handle]
    BY <1>1 DEF TableInv, TableType, Restrict
  <2>. QED
    BY <2>1, <1>1, <1>2, <1>3 DEF TableInv, TableType
<1>5. SoundLookup(r)
  BY <1>1, <1>2 DEF TableInv, SoundLookup, Restrict
<1>6. ServerReachable(r)
  <2> SUFFICES ASSUME NEW h \in Live(r), h.initiator = "server" PROVE Reaches(r, h)
    BY DEF ServerReachable
  <2>1. Reaches(tb, h) /\ h \notin gone
    BY <1>2 DEF TableInv, ServerReachable
  <2>2. \A g \in gone : KeyOf(g) # KeyOf(h)
    BY <2>1, <1>2 DEF TableInv, ServerReachable, Reaches, KeyOf
  <2>. QED
    BY <2>1, <2>2, <1>1 DEF Reaches, Restrict
<1>7. Older(r)
  BY <1>1, <1>2 DEF TableInv, Older
<1>8. Live(r) = Live(tb) \ (hs \cap passed)
  BY <1>2 DEF gone
<1>. QED
  BY <1>1, <1>4, <1>5, <1>6, <1>7, <1>8 DEF TableInv, r

-----------------------------------------------------------------------------
(***************************************************************************)
(* The containers                                                          *)
(***************************************************************************)

\* The sessions of c are still there, and what they have asked for.
Keeps(c, d) ==
    /\ DOMAIN c.sessions \subseteq DOMAIN d.sessions
    /\ \A s \in DOMAIN c.sessions : d.sessions[s].gaveUp = c.sessions[s].gaveUp

\* In d nobody waits for what nobody waits for in c.
Loosens(c, d) ==
    /\ Keeps(c, d)
    /\ DOMAIN d.sessions = DOMAIN c.sessions
    /\ \A s \in DOMAIN c.sessions :
         /\ d.sessions[s].requests \subseteq c.sessions[s].requests
         /\ d.sessions[s].periodic \subseteq c.sessions[s].periodic

LEMMA KeepsTransitive ==
    ASSUME NEW c, NEW d, NEW e, Keeps(c, d), Keeps(d, e)
    PROVE  Keeps(c, e)
BY DEF Keeps

LEMMA LoosensTransitive ==
    ASSUME NEW c, NEW d, NEW e, Loosens(c, d), Loosens(d, e)
    PROVE  Loosens(c, e)
BY DEF Keeps, Loosens

\* With more transactions live, or a later generation, nothing is lost.
LEMMA LaterInv ==
    ASSUME NEW c, NEW live, NEW gen \in Nat, ClientInv(c, live, gen),
           NEW more, live \subseteq more, NEW later \in Nat, gen <= later
    PROVE  ClientInv(c, more, later)
<1>1. \A h \in DOMAIN c.singles : h.generation \in Nat
  BY DEF ClientInv, ClientType, Own, Handle
<1>. QED
  BY <1>1 DEF ClientInv, Listed

\* unregister_request.
LEMMA UnregisterInv ==
    ASSUME NEW c, NEW live, NEW gen, ClientInv(c, live, gen),
           NEW s \in DOMAIN c.sessions, NEW h \in c.sessions[s].requests
    PROVE  LET d == Unregister(c, s, h)
           IN  /\ ClientInv(d, live, gen) /\ Loosens(c, d) /\ d.singles = c.singles
               /\ h \notin d.sessions[s].requests
<1> DEFINE d == Unregister(c, s, h)
           x == [c.sessions[s] EXCEPT !.requests = @ \ {h}]
<1>1. /\ DOMAIN d = DOMAIN c
      /\ d.sessions = [c.sessions EXCEPT ![s] = x]
      /\ d.requestTx = Erase(c.requestTx, h)
      /\ d.periodicTx = c.periodicTx /\ d.singles = c.singles
      /\ d.deliveries = c.deliveries /\ d.next = c.next /\ d.hacks = c.hacks
  BY DEF Unregister, ClientInv, ClientType
<1>2. /\ x \in SessionType /\ x.requests = c.sessions[s].requests \ {h}
      /\ x.periodic = c.sessions[s].periodic /\ x.gaveUp = c.sessions[s].gaveUp
  BY DEF ClientInv, ClientType, SessionType
<1>3. /\ DOMAIN d.requestTx = DOMAIN c.requestTx \ {h}
      /\ \A g \in DOMAIN d.requestTx : d.requestTx[g] = c.requestTx[g]
      /\ d.requestTx \in [DOMAIN d.requestTx -> SessionIds]
  BY <1>1 DEF Erase, Restrict, ClientInv, ClientType
<1>4. DOMAIN d.sessions = DOMAIN c.sessions
      /\ \A t \in DOMAIN c.sessions : d.sessions[t] = IF t = s THEN x ELSE c.sessions[t]
  BY <1>1 DEF ClientInv, ClientType
<1> HIDE DEF d, x
<1>5. ClientType(d)
  <2>1. IsFiniteSet(x.requests)
    BY <1>2, FS_RemoveElement DEF ClientInv, ClientType
  <2>2. d.sessions \in [DOMAIN d.sessions -> SessionType]
    BY <1>1, <1>2 DEF ClientInv, ClientType
  <2>. QED
    BY <2>1, <2>2, <1>1, <1>3, <1>4 DEF ClientInv, ClientType
<1>6. RequestRoutes(d)
  <2>1. \A t \in DOMAIN d.sessions : \A g \in d.sessions[t].requests :
          g \in DOMAIN d.requestTx /\ d.requestTx[g] = t
    BY <1>2, <1>3, <1>4 DEF ClientInv, RequestRoutes
  <2>2. ASSUME "never_send_abort" \notin d.hacks, NEW g \in DOMAIN d.requestTx
        PROVE  d.requestTx[g] \in DOMAIN d.sessions /\ g \in d.sessions[d.requestTx[g]].requests
    BY <2>2, <1>1, <1>2, <1>3, <1>4 DEF ClientInv, RequestRoutes
  <2>. QED
    BY <2>1, <2>2 DEF RequestRoutes
<1>7. PeriodicRoutes(d)
  BY <1>1, <1>2, <1>4 DEF ClientInv, PeriodicRoutes
<1>8. SinglesApart(d) /\ Listed(d, live, gen)
  BY <1>1, <1>2, <1>4 DEF ClientInv, SinglesApart, Listed
<1>9. Loosens(c, d)
  BY <1>2, <1>4 DEF Loosens, Keeps
<1>. QED
  BY <1>1, <1>2, <1>4, <1>5, <1>6, <1>7, <1>8, <1>9 DEF ClientInv, d

\* handle_periodic_ended.
LEMMA PeriodicEndedInv ==
    ASSUME NEW c, NEW live, NEW gen, ClientInv(c, live, gen),
           NEW s \in DOMAIN c.sessions, NEW h \in c.sessions[s].periodic
    PROVE  LET d == PeriodicEnded(c, s, h)
           IN  /\ ClientInv(d, live, gen) /\ Loosens(c, d) /\ d.singles = c.singles
               /\ h \notin d.sessions[s].periodic
<1> DEFINE d == PeriodicEnded(c, s, h)
           x == [c.sessions[s] EXCEPT !.periodic = @ \ {h}]
<1>1. /\ DOMAIN d = DOMAIN c
      /\ d.sessions = [c.sessions EXCEPT ![s] = x]
      /\ d.periodicTx = Erase(c.periodicTx, h)
      /\ d.requestTx = c.requestTx /\ d.singles = c.singles
      /\ d.deliveries = c.deliveries /\ d.next = c.next /\ d.hacks = c.hacks
  BY DEF PeriodicEnded, ClientInv, ClientType
<1>2. /\ x \in SessionType /\ x.periodic = c.sessions[s].periodic \ {h}
      /\ x.requests = c.sessions[s].requests /\ x.gaveUp = c.sessions[s].gaveUp
  BY DEF ClientInv, ClientType, SessionType
<1>3. /\ DOMAIN d.periodicTx = DOMAIN c.periodicTx \ {h}
      /\ \A g \in DOMAIN d.periodicTx : d.periodicTx[g] = c.periodicTx[g]
      /\ d.periodicTx \in [DOMAIN d.periodicTx -> SessionIds]
  BY <1>1 DEF Erase, Restrict, ClientInv, ClientType
<1>4. DOMAIN d.sessions = DOMAIN c.sessions
      /\ \A t \in DOMAIN c.sessions : d.sessions[t] = IF t = s THEN x ELSE c.sessions[t]
  BY <1>1 DEF ClientInv, ClientType
<1> HIDE DEF d, x
<1>5. ClientType(d)
  <2>1. d.sessions \in [DOMAIN d.sessions -> SessionType]
    BY <1>1, <1>2 DEF ClientInv, ClientType
  <2>. QED
    BY <2>1, <1>1, <1>2, <1>3, <1>4 DEF ClientInv, ClientType
<1>6. PeriodicRoutes(d)
  <2>1. \A t \in DOMAIN d.sessions : \A g \in d.sessions[t].periodic :
          g \in DOMAIN d.periodicTx /\ d.periodicTx[g] = t
    BY <1>2, <1>3, <1>4 DEF ClientInv, PeriodicRoutes
  <2>2. ASSUME "never_send_abort" \notin d.hacks, NEW g \in DOMAIN d.periodicTx
        PROVE  d.periodicTx[g] \in DOMAIN d.sessions /\ g \in d.sessions[d.periodicTx[g]].periodic
    BY <2>2, <1>1, <1>2, <1>3, <1>4 DEF ClientInv, PeriodicRoutes
  <2>. QED
    BY <2>1, <2>2 DEF PeriodicRoutes
<1>7. RequestRoutes(d)
  BY <1>1, <1>2, <1>4 DEF ClientInv, RequestRoutes
<1>8. SinglesApart(d) /\ Listed(d, live, gen)
  BY <1>1, <1>2, <1>4 DEF ClientInv, SinglesApart, Listed
<1>9. Loosens(c, d)
  BY <1>2, <1>4 DEF Loosens, Keeps
<1>. QED
  BY <1>1, <1>2, <1>4, <1>5, <1>6, <1>7, <1>8, <1>9 DEF ClientInv, d

\* PeriodicSession::end: what the session listed under h it lists no more.
LEMMA EndInv ==
    ASSUME NEW c, NEW live, NEW gen, ClientInv(c, live, gen),
           NEW s \in DOMAIN c.sessions, NEW h
    PROVE  LET d == End(c, s, h)
           IN  /\ ClientInv(d, live, gen) /\ Loosens(c, d) /\ d.singles = c.singles
               /\ h \notin d.sessions[s].requests
               /\ h \notin c.sessions[s].requests => h \notin d.sessions[s].periodic
<1>1. CASE h \in c.sessions[s].requests
  BY <1>1, UnregisterInv DEF End
<1>2. CASE h \notin c.sessions[s].requests /\ h \in c.sessions[s].periodic
  BY <1>2, PeriodicEndedInv DEF End, Loosens
<1>3. CASE h \notin c.sessions[s].requests /\ h \notin c.sessions[s].periodic
  BY <1>3 DEF End, Loosens, Keeps
<1>. QED
  BY <1>1, <1>2, <1>3

\* A field of the client that no route and no session is about.
LEMMA WithoutSingle ==
    ASSUME NEW c, NEW live, NEW gen, ClientInv(c, live, gen), NEW h
    PROVE  LET d == [c EXCEPT !.singles = Erase(@, h)]
           IN  ClientInv(d, live, gen) /\ Loosens(c, d) /\ h \notin DOMAIN d.singles
               /\ d.sessions = c.sessions /\ d.periodicTx = c.periodicTx
<1> DEFINE d == [c EXCEPT !.singles = Erase(@, h)]
<1>1. /\ DOMAIN d = DOMAIN c /\ d.singles = Erase(c.singles, h)
      /\ d.sessions = c.sessions /\ d.requestTx = c.requestTx
      /\ d.periodicTx = c.periodicTx /\ d.deliveries = c.deliveries
      /\ d.next = c.next /\ d.hacks = c.hacks
  BY DEF ClientInv, ClientType
<1> HIDE DEF d
<1>2. /\ DOMAIN d.singles = DOMAIN c.singles \ {h}
      /\ \A g \in DOMAIN d.singles : d.singles[g] = c.singles[g]
      /\ d.singles \in [DOMAIN d.singles -> SingleType]
  BY <1>1 DEF Erase, Restrict, ClientInv, ClientType
<1>3. ClientType(d)
  BY <1>1, <1>2 DEF ClientInv, ClientType
<1>4. RequestRoutes(d) /\ PeriodicRoutes(d)
  BY <1>1 DEF ClientInv, RequestRoutes, PeriodicRoutes
<1>5. SinglesApart(d) /\ Listed(d, live, gen)
  BY <1>1, <1>2 DEF ClientInv, SinglesApart, Listed
<1>. QED
  BY <1>1, <1>2, <1>3, <1>4, <1>5 DEF ClientInv, Loosens, Keeps, d

\* The deliveries are nobody else's.
LEMMA DeliveriesInv ==
    ASSUME NEW c, NEW live, NEW gen, ClientInv(c, live, gen),
           NEW m, DOMAIN m \subseteq Handle, m \in [DOMAIN m -> BOOLEAN]
    PROVE  LET d == [c EXCEPT !.deliveries = m]
           IN  /\ ClientInv(d, live, gen) /\ Loosens(c, d)
               /\ d.sessions = c.sessions /\ d.singles = c.singles
<1> DEFINE d == [c EXCEPT !.deliveries = m]
<1>1. /\ DOMAIN d = DOMAIN c /\ d.deliveries = m
      /\ d.sessions = c.sessions /\ d.requestTx = c.requestTx
      /\ d.periodicTx = c.periodicTx /\ d.singles = c.singles
      /\ d.next = c.next /\ d.hacks = c.hacks
  BY DEF ClientInv, ClientType
<1> HIDE DEF d
<1>2. ClientType(d)
  BY <1>1 DEF ClientInv, ClientType
<1>. QED
  BY <1>1, <1>2 DEF ClientInv, Loosens, Keeps, RequestRoutes, PeriodicRoutes,
                    SinglesApart, Listed, d

\* process_end_transaction: nobody waits for the transaction any more.
LEMMA EndTransactionInv ==
    ASSUME NEW c, NEW live, NEW gen, ClientInv(c, live, gen), NEW h \in Handle
    PROVE  LET d == EndTransaction(c, h)
           IN  ClientInv(d, live \ {h}, gen) /\ Loosens(c, d)
<1> DEFINE c1 == IF Leads(c, c.requestTx, h) THEN End(c, c.requestTx[h], h) ELSE c
           c2 == [c1 EXCEPT !.singles = Erase(@, h)]
           c3 == IF Leads(c2, c2.periodicTx, h) THEN End(c2, c2.periodicTx[h], h) ELSE c2
           c4 == [c3 EXCEPT !.deliveries = Erase(@, h)]
<1>1. /\ ClientInv(c1, live, gen) /\ Loosens(c, c1)
      /\ \A s \in DOMAIN c1.sessions : h \notin c1.sessions[s].requests
  <2>1. \A s \in DOMAIN c.sessions : h \in c.sessions[s].requests =>
           Leads(c, c.requestTx, h) /\ c.requestTx[h] = s
    BY DEF ClientInv, RequestRoutes, Leads
  <2>2. CASE Leads(c, c.requestTx, h)
    <3>1. c.requestTx[h] \in DOMAIN c.sessions /\ c1 = End(c, c.requestTx[h], h)
      BY <2>2 DEF Leads
    <3> HIDE DEF c1
    <3>2. /\ ClientInv(c1, live, gen) /\ Loosens(c, c1)
          /\ h \notin c1.sessions[c.requestTx[h]].requests
      BY <3>1, EndInv
    <3>. QED
      BY <2>1, <3>2 DEF Loosens
  <2>3. CASE ~Leads(c, c.requestTx, h)
    BY <2>1, <2>3 DEF Loosens, Keeps
  <2>. QED
    BY <2>2, <2>3
<1> HIDE DEF c1
<1>2. /\ ClientInv(c2, live, gen) /\ Loosens(c1, c2) /\ h \notin DOMAIN c2.singles
      /\ \A s \in DOMAIN c2.sessions : h \notin c2.sessions[s].requests
  BY <1>1, WithoutSingle
<1> HIDE DEF c2
<1>3. /\ ClientInv(c3, live, gen) /\ Loosens(c2, c3) /\ h \notin DOMAIN c3.singles
      /\ \A s \in DOMAIN c3.sessions : /\ h \notin c3.sessions[s].requests
                                       /\ h \notin c3.sessions[s].periodic
  <2>1. \A s \in DOMAIN c2.sessions : h \in c2.sessions[s].periodic =>
           Leads(c2, c2.periodicTx, h) /\ c2.periodicTx[h] = s
    BY <1>2 DEF ClientInv, PeriodicRoutes, Leads
  <2>2. CASE Leads(c2, c2.periodicTx, h)
    <3>1. c2.periodicTx[h] \in DOMAIN c2.sessions /\ c3 = End(c2, c2.periodicTx[h], h)
      BY <2>2 DEF Leads
    <3> HIDE DEF c3
    <3>2. /\ ClientInv(c3, live, gen) /\ Loosens(c2, c3) /\ c3.singles = c2.singles
          /\ h \notin c3.sessions[c2.periodicTx[h]].periodic
      BY <3>1, <1>2, EndInv
    <3>. QED
      BY <2>1, <3>2, <1>2 DEF Loosens
  <2>3. CASE ~Leads(c2, c2.periodicTx, h)
    BY <2>1, <2>3, <1>2 DEF Loosens, Keeps
  <2>. QED
    BY <2>2, <2>3
<1> HIDE DEF c3
<1>4. /\ ClientInv(c4, live, gen) /\ Loosens(c3, c4)
      /\ c4.sessions = c3.sessions /\ c4.singles = c3.singles
  <2>1. /\ DOMAIN Erase(c3.deliveries, h) \subseteq Handle
        /\ Erase(c3.deliveries, h) \in [DOMAIN Erase(c3.deliveries, h) -> BOOLEAN]
    BY <1>3 DEF ClientInv, ClientType, Erase, Restrict
  <2>2. c4 = [c3 EXCEPT !.deliveries = Erase(c3.deliveries, h)]
    OBVIOUS
  <2> HIDE DEF c4
  <2>. QED
    BY <2>1, <2>2, <1>3, DeliveriesInv
<1> HIDE DEF c4
<1>5. Loosens(c, c4)
  BY <1>1, <1>2, <1>3, <1>4, LoosensTransitive
<1>6. ClientInv(c4, live \ {h}, gen)
  BY <1>3, <1>4 DEF ClientInv, Listed
<1>. QED
  BY <1>5, <1>6 DEF EndTransaction, c4, c3, c2, c1

\* ... for a transaction that has left the table.
LEMMA EndRemovedInv ==
    ASSUME NEW c, NEW before, NEW after, NEW gen, NEW h \in Handle,
           ClientInv(c, Live(before), gen),
           Live(after) \subseteq Live(before), Live(before) \ {h} \subseteq Live(after)
    PROVE  LET d == EndRemoved(c, before, after, h)
           IN  ClientInv(d, Live(after), gen) /\ Loosens(c, d)
<1>1. CASE h \in Live(before) \ Live(after)
  <2>1. Live(after) = Live(before) \ {h}
    BY <1>1
  <2>. QED
    BY <2>1, <1>1, EndTransactionInv DEF EndRemoved
<1>2. CASE h \notin Live(before) \ Live(after)
  <2>1. Live(after) = Live(before)
    BY <1>2
  <2>. QED
    BY <2>1, <1>2 DEF EndRemoved, Loosens, Keeps
<1>. QED
  BY <1>1, <1>2

\* register_request with the handle of a transaction that has just begun.
LEMMA RegisterInv ==
    ASSUME NEW c, NEW live, NEW gen \in Nat, ClientInv(c, live, gen),
           NEW s \in DOMAIN c.sessions, NEW h \in Own, h \notin live, h.generation = gen
    PROVE  LET d == Register(c, s, h)
           IN  ClientInv(d, live \cup {h}, gen + 1) /\ Keeps(c, d)
<1> DEFINE d == Register(c, s, h)
           x == [c.sessions[s] EXCEPT !.requests = @ \cup {h}]
<1>1. /\ DOMAIN d = DOMAIN c
      /\ d.sessions = [c.sessions EXCEPT ![s] = x]
      /\ d.requestTx = Put(c.requestTx, h, s)
      /\ d.periodicTx = c.periodicTx /\ d.singles = c.singles
      /\ d.deliveries = c.deliveries /\ d.next = c.next /\ d.hacks = c.hacks
  BY DEF Register, ClientInv, ClientType
<1>2. /\ x \in SessionType /\ x.requests = c.sessions[s].requests \cup {h}
      /\ x.periodic = c.sessions[s].periodic /\ x.gaveUp = c.sessions[s].gaveUp
  BY DEF ClientInv, ClientType, SessionType
<1>3. /\ DOMAIN d.requestTx = DOMAIN c.requestTx \cup {h}
      /\ \A g \in DOMAIN d.requestTx :
           d.requestTx[g] = IF g = h THEN s ELSE c.requestTx[g]
      /\ d.requestTx \in [DOMAIN d.requestTx -> SessionIds]
  BY <1>1 DEF Put, ClientInv, ClientType
<1>4. DOMAIN d.sessions = DOMAIN c.sessions
      /\ \A t \in DOMAIN c.sessions : d.sessions[t] = IF t = s THEN x ELSE c.sessions[t]
  BY <1>1 DEF ClientInv, ClientType
<1> HIDE DEF d, x
<1>5. ClientType(d)
  <2>1. IsFiniteSet(x.requests)
    <3>1. IsFiniteSet(c.sessions[s].requests)
      BY DEF ClientInv, ClientType
    <3>. QED
      BY <3>1, <1>2, FS_AddElement
  <2>2. d.sessions \in [DOMAIN d.sessions -> SessionType]
    BY <1>1, <1>2 DEF ClientInv, ClientType
  <2>. QED
    BY <2>1, <2>2, <1>1, <1>3, <1>4 DEF ClientInv, ClientType
<1>6. \A t \in DOMAIN c.sessions : h \notin c.sessions[t].requests
  BY DEF ClientInv, Listed
<1>7. RequestRoutes(d)
  <2>1. \A t \in DOMAIN d.sessions : \A g \in d.sessions[t].requests :
          g \in DOMAIN d.requestTx /\ d.requestTx[g] = t
    BY <1>2, <1>3, <1>4, <1>6 DEF ClientInv, RequestRoutes
  <2>2. ASSUME "never_send_abort" \notin d.hacks, NEW g \in DOMAIN d.requestTx
        PROVE  d.requestTx[g] \in DOMAIN d.sessions /\ g \in d.sessions[d.requestTx[g]].requests
    BY <2>2, <1>1, <1>2, <1>3, <1>4 DEF ClientInv, RequestRoutes
  <2>. QED
    BY <2>1, <2>2 DEF RequestRoutes
<1>8. PeriodicRoutes(d)
  BY <1>1, <1>2, <1>4 DEF ClientInv, PeriodicRoutes
<1>9. \A g \in DOMAIN c.singles : g.generation \in Nat /\ g.generation < gen
  BY DEF ClientInv, ClientType, Listed, Own, Handle
<1>10. SinglesApart(d)
  BY <1>1, <1>2, <1>4, <1>9 DEF ClientInv, SinglesApart
<1>11. Listed(d, live \cup {h}, gen + 1)
  BY <1>1, <1>2, <1>4, <1>9 DEF ClientInv, Listed
<1>. QED
  BY <1>2, <1>4, <1>5, <1>7, <1>8, <1>10, <1>11 DEF ClientInv, Keeps, d

\* allocate_periodic_session_handle finds a number that no session has.
LEMMA NextSessionIsFree ==
    ASSUME NEW c, c.next \in Nat, FreeSessions(c) # {}
    PROVE  NextSession(c) \in SessionIds \ DOMAIN c.sessions
<1> DEFINE S == FreeSessions(c)
<1>1. S \subseteq Nat /\ S # {} /\ NumSessions \in Nat \ {0}
  BY ClientAssumption DEF FreeSessions
<1>2. \E i \in S : \A j \in S : ~(<<j, i>> \in OpToRel(<, Nat))
  <2> HIDE DEF S
  <2> QED BY <1>1, NatLessThanWellFounded, WFMin
<1>3. \E i \in S : \A j \in S : i <= j
  <2>1. PICK i \in S : \A j \in S : ~(<<j, i>> \in OpToRel(<, Nat))
    BY <1>2
  <2>2. \A j \in S : ~(j < i)
    <3> HIDE DEF S
    <3> QED BY <1>1, <2>1 DEF OpToRel
  <2> QED BY <1>1, <2>2
<1>4. PICK i \in S : i = CHOOSE k \in S : \A j \in S : k <= j
  BY <1>3
<1>5. NextSession(c) = (c.next + i) % NumSessions
  BY <1>4 DEF NextSession
<1>6. (c.next + i) % NumSessions \notin DOMAIN c.sessions
  BY DEF FreeSessions
<1>7. (c.next + i) % NumSessions \in SessionIds
  BY <1>1 DEF SessionIds
<1>. QED
  BY <1>5, <1>6, <1>7

\* request_assistance_data: a new session with the transaction just begun.
LEMMA NewRequestInv ==
    ASSUME NEW c, NEW live, NEW gen \in Nat, ClientInv(c, live, gen),
           FreeSessions(c) # {}, NEW h \in Own, h \notin live, h.generation = gen
    PROVE  LET d == NewRequest(c, h)
           IN  ClientInv(d, live \cup {h}, gen + 1) /\ Keeps(c, d)
<1> DEFINE s == NextSession(c)
           e == [c EXCEPT !.sessions = Put(@, s, NewSession), !.next = s]
<1>1. s \in SessionIds \ DOMAIN c.sessions
  BY NextSessionIsFree DEF ClientInv, ClientType
<1> HIDE DEF s
<1>2. /\ DOMAIN e = DOMAIN c /\ e.sessions = Put(c.sessions, s, NewSession)
      /\ e.requestTx = c.requestTx /\ e.periodicTx = c.periodicTx
      /\ e.singles = c.singles /\ e.deliveries = c.deliveries
      /\ e.next = s /\ e.hacks = c.hacks
  BY DEF ClientInv, ClientType
<1> HIDE DEF e
<1>3. /\ DOMAIN e.sessions = DOMAIN c.sessions \cup {s}
      /\ \A t \in DOMAIN e.sessions :
           e.sessions[t] = IF t = s THEN NewSession ELSE c.sessions[t]
  BY <1>2 DEF Put
<1>4. /\ NewSession \in SessionType
      /\ NewSession.requests = {} /\ NewSession.periodic = {}
  BY DEF NewSession, SessionType
<1>5. ClientType(e)
  <2>1. e.sessions \in [DOMAIN e.sessions -> SessionType]
    BY <1>2, <1>3, <1>4 DEF Put, ClientInv, ClientType
  <2>2. IsFiniteSet(NewSession.requests)
    BY <1>4, FS_EmptySet
  <2>3. \A t \in DOMAIN e.sessions : IsFiniteSet(e.sessions[t].requests)
    BY <1>3, <2>2 DEF ClientInv, ClientType
  <2>4. e.next \in Nat /\ DOMAIN e.sessions \subseteq SessionIds
    BY <1>1, <1>2, <1>3 DEF SessionIds, ClientInv, ClientType
  <2>. QED
    BY <2>1, <2>3, <2>4, <1>2 DEF ClientInv, ClientType
<1>6. RequestRoutes(e)
  BY <1>1, <1>2, <1>3, <1>4 DEF ClientInv, RequestRoutes
<1>7. PeriodicRoutes(e)
  BY <1>1, <1>2, <1>3, <1>4 DEF ClientInv, PeriodicRoutes
<1>8. SinglesApart(e) /\ Listed(e, live, gen)
  BY <1>2, <1>3, <1>4 DEF ClientInv, SinglesApart, Listed
<1>9. Keeps(c, e)
  BY <1>1, <1>3 DEF Keeps
<1>10. ClientInv(e, live, gen) /\ s \in DOMAIN e.sessions
  BY <1>3, <1>5, <1>6, <1>7, <1>8 DEF ClientInv
<1>11. NewRequest(c, h) = Register(e, s, h)
  BY DEF NewRequest, e, s
<1>12. ClientInv(Register(e, s, h), live \cup {h}, gen + 1) /\ Keeps(e, Register(e, s, h))
  BY <1>10, RegisterInv
<1>. QED
  BY <1>9, <1>11, <1>12, KeepsTransitive

\* request_assistance_data of a single session.
LEMMA NewSingleInv ==
    ASSUME NEW c, NEW live, NEW gen \in Nat, ClientInv(c, live, gen),
           NEW h \in Own, h \notin live, h.generation = gen, NEW x \in SingleType
    PROVE  LET d == [c EXCEPT !.singles = Put(@, h, x)]
           IN  ClientInv(d, live \cup {h}, gen + 1) /\ Keeps(c, d)
<1> DEFINE d == [c EXCEPT !.singles = Put(@, h, x)]
<1>1. /\ DOMAIN d = DOMAIN c /\ d.singles = Put(c.singles, h, x)
      /\ d.sessions = c.sessions /\ d.requestTx = c.requestTx
      /\ d.periodicTx = c.periodicTx /\ d.deliveries = c.deliveries
      /\ d.next = c.next /\ d.hacks = c.hacks
  BY DEF ClientInv, ClientType
<1> HIDE DEF d
<1>2. /\ DOMAIN d.singles = DOMAIN c.singles \cup {h}
      /\ \A g \in DOMAIN d.singles : d.singles[g] = IF g = h THEN x ELSE c.singles[g]
      /\ d.singles \in [DOMAIN d.singles -> SingleType]
  BY <1>1 DEF Put, ClientInv, ClientType
<1>3. ClientType(d)
  BY <1>1, <1>2 DEF ClientInv, ClientType
<1>4. RequestRoutes(d) /\ PeriodicRoutes(d)
  BY <1>1 DEF ClientInv, RequestRoutes, PeriodicRoutes
<1>5. \A s \in DOMAIN c.sessions : h \notin c.sessions[s].requests
  BY DEF ClientInv, Listed
<1>6. SinglesApart(d)
  BY <1>1, <1>2, <1>5 DEF ClientInv, SinglesApart
<1>7. \A g \in DOMAIN d.singles :
         g.generation \in Nat /\ (g # h => g.generation < gen)
  BY <1>2 DEF ClientInv, ClientType, Listed, Own, Handle
<1>8. \A g \in DOMAIN d.singles :
         g.generation < gen + 1 /\ (d.singles[g].waits => g \in live \cup {h})
  BY <1>2, <1>7 DEF ClientInv, Listed
<1>9. Listed(d, live \cup {h}, gen + 1)
  BY <1>1, <1>8 DEF ClientInv, Listed
<1>. QED
  BY <1>1, <1>3, <1>4, <1>6, <1>9 DEF ClientInv, Keeps, d

\* handle_periodic_begin, for a transaction of no other session.
LEMMA PeriodicBeginInv ==
    ASSUME NEW c, NEW live, NEW gen, ClientInv(c, live, gen),
           NEW s \in DOMAIN c.sessions, NEW h \in Theirs, h \in live,
           h \in DOMAIN c.periodicTx => c.periodicTx[h] = s
    PROVE  LET d == PeriodicBegin(c, s, h)
           IN  ClientInv(d, live, gen) /\ Keeps(c, d)
<1> DEFINE d == PeriodicBegin(c, s, h)
           x == [c.sessions[s] EXCEPT !.periodic = @ \cup {h}]
<1>1. /\ DOMAIN d = DOMAIN c
      /\ d.sessions = [c.sessions EXCEPT ![s] = x]
      /\ d.periodicTx = Put(c.periodicTx, h, s)
      /\ d.requestTx = c.requestTx /\ d.singles = c.singles
      /\ d.deliveries = c.deliveries /\ d.next = c.next /\ d.hacks = c.hacks
  BY DEF PeriodicBegin, ClientInv, ClientType
<1>2. /\ x \in SessionType /\ x.periodic = c.sessions[s].periodic \cup {h}
      /\ x.requests = c.sessions[s].requests /\ x.gaveUp = c.sessions[s].gaveUp
  BY DEF ClientInv, ClientType, SessionType
<1>3. /\ DOMAIN d.periodicTx = DOMAIN c.periodicTx \cup {h}
      /\ \A g \in DOMAIN d.periodicTx :
           d.periodicTx[g] = IF g = h THEN s ELSE c.periodicTx[g]
      /\ d.periodicTx \in [DOMAIN d.periodicTx -> SessionIds]
  BY <1>1 DEF Put, ClientInv, ClientType
<1>4. DOMAIN d.sessions = DOMAIN c.sessions
      /\ \A t \in DOMAIN c.sessions : d.sessions[t] = IF t = s THEN x ELSE c.sessions[t]
  BY <1>1 DEF ClientInv, ClientType
<1> HIDE DEF d, x
<1>5. ClientType(d)
  <2>1. d.sessions \in [DOMAIN d.sessions -> SessionType]
    BY <1>1, <1>2 DEF ClientInv, ClientType
  <2>. QED
    BY <2>1, <1>1, <1>2, <1>3, <1>4 DEF ClientInv, ClientType
<1>6. PeriodicRoutes(d)
  <2>1. \A t \in DOMAIN c.sessions : h \in c.sessions[t].periodic => t = s
    BY DEF ClientInv, PeriodicRoutes
  <2>2. \A t \in DOMAIN d.sessions : \A g \in d.sessions[t].periodic :
          g \in DOMAIN d.periodicTx /\ d.periodicTx[g] = t
    BY <2>1, <1>2, <1>3, <1>4 DEF ClientInv, PeriodicRoutes
  <2>3. ASSUME "never_send_abort" \notin d.hacks, NEW g \in DOMAIN d.periodicTx
        PROVE  d.periodicTx[g] \in DOMAIN d.sessions /\ g \in d.sessions[d.periodicTx[g]].periodic
    BY <2>3, <1>1, <1>2, <1>3, <1>4 DEF ClientInv, PeriodicRoutes
  <2>. QED
    BY <2>2, <2>3 DEF PeriodicRoutes
<1>7. RequestRoutes(d)
  BY <1>1, <1>2, <1>4 DEF ClientInv, RequestRoutes
<1>8. SinglesApart(d) /\ Listed(d, live, gen)
  BY <1>1, <1>2, <1>4 DEF ClientInv, SinglesApart, Listed
<1>. QED
  BY <1>2, <1>4, <1>5, <1>6, <1>7, <1>8 DEF ClientInv, Keeps, d

\* PeriodicSession::message, in a transaction of the session or of no session.
LEMMA SessionMessageInv ==
    ASSUME NEW c, NEW live, NEW gen, ClientInv(c, live, gen),
           NEW s \in DOMAIN c.sessions, NEW h \in Handle, h \in live,
           h \in DOMAIN c.periodicTx => c.periodicTx[h] = s,
           NEW d \in SessionMessage(c, s, h)
    PROVE  ClientInv(d, live, gen) /\ Keeps(c, d)
<1>1. CASE Corrected(c, s, h) # {}
  <2>1. PICK r \in Corrected(c, s, h) : d = End(c, s, r)
    BY <1>1 DEF SessionMessage
  <2>. QED
    BY <2>1, EndInv DEF Loosens
<1>2. CASE Corrected(c, s, h) = {} /\ d = c
  BY <1>2 DEF Keeps
<1>3. CASE Corrected(c, s, h) = {} /\ h.initiator # "target" /\ d = PeriodicBegin(c, s, h)
  <2>1. h \in Theirs
    BY <1>3 DEF Theirs, Handle, Initiators
  <2>. QED
    BY <2>1, <1>3, PeriodicBeginInv
<1>. QED
  BY <1>1, <1>2, <1>3 DEF SessionMessage

\* process_provide_assistance_data.  An answer in a transaction of the
\* client's own leaves the session as it is.
LEMMA ProvideAssistanceDataInv ==
    ASSUME NEW c, NEW live, NEW gen, ClientInv(c, live, gen),
           NEW h \in Handle, h \in live, NEW s,
           h \in DOMAIN c.periodicTx => s = c.periodicTx[h],
           NEW d \in ProvideAssistanceData(c, h, s)
    PROVE  ClientInv(d, live, gen) /\ Keeps(c, d)
<1>1. CASE Leads(c, c.requestTx, h)
  <2>1. h.initiator = "target"
    BY <1>1 DEF Leads, ClientInv, ClientType, Own
  <2>2. Corrected(c, c.requestTx[h], h) = {}
    BY <2>1 DEF Corrected
  <2>3. d = c
    BY <1>1, <2>1, <2>2 DEF ProvideAssistanceData, SessionMessage
  <2>. QED
    BY <2>3 DEF Keeps
<1>2. CASE ~Leads(c, c.requestTx, h) /\ h \notin DOMAIN c.singles /\ s \in DOMAIN c.sessions
  <2>1. d \in SessionMessage(c, s, h)
    BY <1>2 DEF ProvideAssistanceData
  <2>. QED
    BY <2>1, <1>2, SessionMessageInv
<1>3. CASE ~Leads(c, c.requestTx, h) /\ ~(h \notin DOMAIN c.singles /\ s \in DOMAIN c.sessions)
  BY <1>3 DEF ProvideAssistanceData, Keeps
<1>. QED
  BY <1>1, <1>2, <1>3

-----------------------------------------------------------------------------
(***************************************************************************)
(* What the timers and the deferred calls leave of the containers          *)
(***************************************************************************)

\* The containers that CheckSession leaves.
GivenUp(c, s, stale, hs) == [c EXCEPT !.sessions[s].requests = @ \ stale,
                                      !.sessions[s].gaveUp = TRUE,
                                      !.requestTx = Restrict(@, DOMAIN @ \ hs)]

\* check_active_requests: the stale requests are the session's no more, and
\* those for which aborts are sent may leave the table.
LEMMA GiveUpInv ==
    ASSUME NEW c, NEW live, NEW gen, ClientInv(c, live, gen),
           NEW s \in DOMAIN c.sessions, NEW stale, stale \subseteq c.sessions[s].requests,
           NEW hs, hs \subseteq stale, "never_send_abort" \notin c.hacks => hs = stale,
           NEW left, live \ hs \subseteq left
    PROVE  ClientInv(GivenUp(c, s, stale, hs), left, gen)
<1> DEFINE d  == GivenUp(c, s, stale, hs)
           x  == [c.sessions[s] EXCEPT !.requests = @ \ stale, !.gaveUp = TRUE]
<1>1. /\ DOMAIN d = DOMAIN c
      /\ d.sessions = [c.sessions EXCEPT ![s] = x]
      /\ d.requestTx = Restrict(c.requestTx, DOMAIN c.requestTx \ hs)
      /\ d.periodicTx = c.periodicTx /\ d.singles = c.singles
      /\ d.deliveries = c.deliveries /\ d.next = c.next /\ d.hacks = c.hacks
  BY DEF GivenUp, ClientInv, ClientType
<1>2. /\ x \in SessionType /\ x.requests = c.sessions[s].requests \ stale
      /\ x.periodic = c.sessions[s].periodic /\ x.gaveUp = TRUE
  BY DEF ClientInv, ClientType, SessionType
<1>3. /\ DOMAIN d.requestTx = DOMAIN c.requestTx \ hs
      /\ \A g \in DOMAIN d.requestTx : d.requestTx[g] = c.requestTx[g]
      /\ d.requestTx \in [DOMAIN d.requestTx -> SessionIds]
  BY <1>1 DEF Restrict, ClientInv, ClientType
<1>4. DOMAIN d.sessions = DOMAIN c.sessions
      /\ \A t \in DOMAIN c.sessions :
           d.sessions[t] = IF t = s THEN x ELSE c.sessions[t]
  BY <1>1 DEF ClientInv, ClientType
<1>5. /\ hs \subseteq stale
      /\ stale \subseteq c.sessions[s].requests
      /\ "never_send_abort" \notin c.hacks => hs = stale
  OBVIOUS
<1> HIDE DEF d, x
<1>6. ClientType(d)
  <2>1. IsFiniteSet(x.requests)
    <3>1. IsFiniteSet(c.sessions[s].requests)
      BY DEF ClientInv, ClientType
    <3>. QED
      BY <3>1, <1>2, FS_Subset
  <2>2. d.sessions \in [DOMAIN d.sessions -> SessionType]
    BY <1>1, <1>2 DEF ClientInv, ClientType
  <2>. QED
    BY <2>1, <2>2, <1>1, <1>3, <1>4 DEF ClientInv, ClientType
<1>7. \A t \in DOMAIN c.sessions : \A g \in c.sessions[t].requests :
         g \in hs => t = s
  BY <1>5 DEF ClientInv, RequestRoutes
<1>8. RequestRoutes(d)
  <2>1. \A t \in DOMAIN d.sessions : \A g \in d.sessions[t].requests :
          g \in DOMAIN d.requestTx /\ d.requestTx[g] = t
    BY <1>2, <1>3, <1>4, <1>5, <1>7 DEF ClientInv, RequestRoutes
  <2>2. ASSUME "never_send_abort" \notin d.hacks, NEW g \in DOMAIN d.requestTx
        PROVE  d.requestTx[g] \in DOMAIN d.sessions /\ g \in d.sessions[d.requestTx[g]].requests
    <3> DEFINE t == c.requestTx[g]
    <3>1. t \in DOMAIN c.sessions /\ g \in c.sessions[t].requests
      BY <2>2, <1>1, <1>3 DEF ClientInv, RequestRoutes
    <3>2. g \notin stale /\ d.requestTx[g] = t
      BY <2>2, <1>1, <1>3, <1>5
    <3> HIDE DEF t
    <3>3. g \in d.sessions[t].requests
      BY <3>1, <3>2, <1>2, <1>4
    <3>. QED
      BY <3>1, <3>2, <3>3, <1>4
  <2>. QED
    BY <2>1, <2>2 DEF RequestRoutes
<1>9. PeriodicRoutes(d)
  BY <1>1, <1>2, <1>4 DEF ClientInv, PeriodicRoutes
<1>10. SinglesApart(d)
  BY <1>1, <1>2, <1>4 DEF ClientInv, SinglesApart
<1>11. \A g \in DOMAIN c.singles : g \notin hs
  BY <1>5 DEF ClientInv, SinglesApart
<1>12. \A t \in DOMAIN c.sessions : \A g \in c.sessions[t].periodic : g \notin hs
  BY <1>5 DEF ClientInv, ClientType, SessionType, Own, Theirs
<1>13. Listed(d, left, gen)
  BY <1>1, <1>2, <1>4, <1>5, <1>7, <1>11, <1>12 DEF ClientInv, Listed
<1>14. ClientInv(d, left, gen)
  BY <1>6, <1>8, <1>9, <1>10, <1>13 DEF ClientInv
<1>. QED
  BY <1>14 DEF d

\* The containers that Destroyed leaves, when aborts are sent for mine.
Gone(c, s, mine, ended) ==
    [c EXCEPT !.sessions   = Erase(@, s),
              !.requestTx  = Restrict(@, DOMAIN @ \ mine),
              !.periodicTx = Restrict(@, DOMAIN @ \ mine),
              !.deliveries = Restrict(@, DOMAIN @ \ ended)]

\* PeriodicSession::destroy, with its aborts.
LEMMA DestroyedInv ==
    ASSUME NEW c, NEW live, NEW gen, ClientInv(c, live, gen),
           NEW s \in DOMAIN c.sessions, NEW mine,
           mine \subseteq c.sessions[s].requests \cup c.sessions[s].periodic,
           "never_send_abort" \notin c.hacks =>
              mine = c.sessions[s].requests \cup c.sessions[s].periodic,
           NEW ended, NEW left, live \ mine \subseteq left
    PROVE  ClientInv(Gone(c, s, mine, ended), left, gen)
<1> DEFINE d == Gone(c, s, mine, ended)
<1>1. /\ DOMAIN d = DOMAIN c
      /\ d.sessions = Erase(c.sessions, s)
      /\ d.requestTx = Restrict(c.requestTx, DOMAIN c.requestTx \ mine)
      /\ d.periodicTx = Restrict(c.periodicTx, DOMAIN c.periodicTx \ mine)
      /\ d.deliveries = Restrict(c.deliveries, DOMAIN c.deliveries \ ended)
      /\ d.singles = c.singles /\ d.next = c.next /\ d.hacks = c.hacks
  BY DEF Gone, ClientInv, ClientType
<1> HIDE DEF d
<1>2. /\ DOMAIN d.sessions = DOMAIN c.sessions \ {s}
      /\ \A t \in DOMAIN d.sessions : d.sessions[t] = c.sessions[t]
      /\ d.sessions \in [DOMAIN d.sessions -> SessionType]
  BY <1>1 DEF Erase, Restrict, ClientInv, ClientType
<1>3. /\ DOMAIN d.requestTx = DOMAIN c.requestTx \ mine
      /\ \A g \in DOMAIN d.requestTx : d.requestTx[g] = c.requestTx[g]
      /\ d.requestTx \in [DOMAIN d.requestTx -> SessionIds]
  BY <1>1 DEF Restrict, ClientInv, ClientType
<1>4. /\ DOMAIN d.periodicTx = DOMAIN c.periodicTx \ mine
      /\ \A g \in DOMAIN d.periodicTx : d.periodicTx[g] = c.periodicTx[g]
      /\ d.periodicTx \in [DOMAIN d.periodicTx -> SessionIds]
  BY <1>1 DEF Restrict, ClientInv, ClientType
<1>5. /\ DOMAIN d.deliveries \subseteq Handle
      /\ d.deliveries \in [DOMAIN d.deliveries -> BOOLEAN]
  BY <1>1 DEF Restrict, ClientInv, ClientType
<1>6. /\ mine \subseteq c.sessions[s].requests \cup c.sessions[s].periodic
      /\ "never_send_abort" \notin c.hacks =>
            mine = c.sessions[s].requests \cup c.sessions[s].periodic
  OBVIOUS
<1>7. ClientType(d)
  BY <1>1, <1>2, <1>3, <1>4, <1>5 DEF ClientInv, ClientType
<1>8. \A t \in DOMAIN d.sessions : \A g \in d.sessions[t].requests :
         g \notin c.sessions[s].requests /\ g \notin c.sessions[s].periodic
  <2>1. \A t \in DOMAIN d.sessions : \A g \in d.sessions[t].requests :
           g \notin c.sessions[s].requests
    BY <1>2 DEF ClientInv, RequestRoutes
  <2>2. \A t \in DOMAIN d.sessions : \A g \in d.sessions[t].requests :
           g \notin c.sessions[s].periodic
    BY <1>2 DEF ClientInv, ClientType, SessionType, Own, Theirs
  <2>. QED
    BY <2>1, <2>2
<1>9. \A t \in DOMAIN d.sessions : \A g \in d.sessions[t].periodic :
         g \notin c.sessions[s].requests /\ g \notin c.sessions[s].periodic
  <2>1. \A t \in DOMAIN d.sessions : \A g \in d.sessions[t].periodic :
           g \notin c.sessions[s].periodic
    BY <1>2 DEF ClientInv, PeriodicRoutes
  <2>2. \A t \in DOMAIN d.sessions : \A g \in d.sessions[t].periodic :
           g \notin c.sessions[s].requests
    BY <1>2 DEF ClientInv, ClientType, SessionType, Own, Theirs
  <2>. QED
    BY <2>1, <2>2
<1>10. RequestRoutes(d)
  <2>1. \A t \in DOMAIN d.sessions : \A g \in d.sessions[t].requests :
          g \in DOMAIN d.requestTx /\ d.requestTx[g] = t
    BY <1>2, <1>3, <1>6, <1>8 DEF ClientInv, RequestRoutes
  <2>2. ASSUME "never_send_abort" \notin d.hacks, NEW g \in DOMAIN d.requestTx
        PROVE  d.requestTx[g] \in DOMAIN d.sessions /\ g \in d.sessions[d.requestTx[g]].requests
    <3> DEFINE t == c.requestTx[g]
    <3>1. t \in DOMAIN c.sessions /\ g \in c.sessions[t].requests
      BY <2>2, <1>1, <1>3 DEF ClientInv, RequestRoutes
    <3>2. g \notin c.sessions[s].requests /\ d.requestTx[g] = t
      BY <2>2, <1>1, <1>3, <1>6
    <3> HIDE DEF t
    <3>3. t \in DOMAIN d.sessions
      BY <3>1, <3>2, <1>2
    <3>. QED
      BY <3>1, <3>2, <3>3, <1>2
  <2>. QED
    BY <2>1, <2>2 DEF RequestRoutes
<1>11. PeriodicRoutes(d)
  <2>1. \A t \in DOMAIN d.sessions : \A g \in d.sessions[t].periodic :
          g \in DOMAIN d.periodicTx /\ d.periodicTx[g] = t
    BY <1>2, <1>4, <1>6, <1>9 DEF ClientInv, PeriodicRoutes
  <2>2. ASSUME "never_send_abort" \notin d.hacks, NEW g \in DOMAIN d.periodicTx
        PROVE  d.periodicTx[g] \in DOMAIN d.sessions /\ g \in d.sessions[d.periodicTx[g]].periodic
    <3> DEFINE t == c.periodicTx[g]
    <3>1. t \in DOMAIN c.sessions /\ g \in c.sessions[t].periodic
      BY <2>2, <1>1, <1>4 DEF ClientInv, PeriodicRoutes
    <3>2. g \notin c.sessions[s].periodic /\ d.periodicTx[g] = t
      BY <2>2, <1>1, <1>4, <1>6
    <3> HIDE DEF t
    <3>3. t \in DOMAIN d.sessions
      BY <3>1, <3>2, <1>2
    <3>. QED
      BY <3>1, <3>2, <3>3, <1>2
  <2>. QED
    BY <2>1, <2>2 DEF PeriodicRoutes
<1>12. SinglesApart(d)
  BY <1>1, <1>2 DEF ClientInv, SinglesApart
<1>13. \A g \in DOMAIN c.singles : g \notin mine
  BY <1>6 DEF ClientInv, ClientType, SessionType, SinglesApart, Own, Theirs
<1>14. Listed(d, left, gen)
  BY <1>1, <1>2, <1>6, <1>8, <1>9, <1>13 DEF ClientInv, Listed
<1>. QED
  BY <1>2, <1>7, <1>10, <1>11, <1>12, <1>14 DEF ClientInv, d

\* The singles a timer or a deferred call leaves: some of those there were,
\* waiting for no more than they did.
LEMMA FewerSinglesInv ==
    ASSUME NEW c, NEW live, NEW gen, ClientInv(c, live, gen),
           NEW m, DOMAIN m \subseteq DOMAIN c.singles, m \in [DOMAIN m -> SingleType],
           \A h \in DOMAIN m : m[h].waits => c.singles[h].waits
    PROVE  LET d == [c EXCEPT !.singles = m]
           IN  /\ ClientInv(d, live, gen) /\ Keeps(c, d)
               /\ d.sessions = c.sessions
<1> DEFINE d == [c EXCEPT !.singles = m]
<1>1. /\ DOMAIN d = DOMAIN c /\ d.singles = m
      /\ d.sessions = c.sessions /\ d.requestTx = c.requestTx
      /\ d.periodicTx = c.periodicTx /\ d.deliveries = c.deliveries
      /\ d.next = c.next /\ d.hacks = c.hacks
  BY DEF ClientInv, ClientType
<1> HIDE DEF d
<1>2. ClientType(d)
  BY <1>1 DEF ClientInv, ClientType
<1>3. RequestRoutes(d) /\ PeriodicRoutes(d)
  BY <1>1 DEF ClientInv, RequestRoutes, PeriodicRoutes
<1>4. SinglesApart(d) /\ Listed(d, live, gen)
  BY <1>1 DEF ClientInv, SinglesApart, Listed
<1>. QED
  BY <1>1, <1>2, <1>3, <1>4 DEF ClientInv, Keeps, d

\* schedule starts the timers of the sessions.
LEMMA ScheduledInv ==
    ASSUME NEW c, NEW live, NEW gen, ClientInv(c, live, gen)
    PROVE  LET d == [c EXCEPT !.sessions = [s \in DOMAIN @ |-> [@[s] EXCEPT !.scheduled = TRUE]]]
           IN  ClientInv(d, live, gen) /\ Keeps(c, d)
<1> DEFINE d == [c EXCEPT !.sessions = [s \in DOMAIN @ |-> [@[s] EXCEPT !.scheduled = TRUE]]]
<1>1. /\ DOMAIN d = DOMAIN c /\ d.singles = c.singles
      /\ d.sessions = [s \in DOMAIN c.sessions |-> [c.sessions[s] EXCEPT !.scheduled = TRUE]]
      /\ d.requestTx = c.requestTx
      /\ d.periodicTx = c.periodicTx /\ d.deliveries = c.deliveries
      /\ d.next = c.next /\ d.hacks = c.hacks
  BY DEF ClientInv, ClientType
<1> HIDE DEF d
<1>2. DOMAIN d.sessions = DOMAIN c.sessions
  BY <1>1
<1>3. \A s \in DOMAIN c.sessions : /\ d.sessions[s] \in SessionType
                                   /\ d.sessions[s].requests = c.sessions[s].requests
                                   /\ d.sessions[s].periodic = c.sessions[s].periodic
                                   /\ d.sessions[s].gaveUp = c.sessions[s].gaveUp
  <2> TAKE s \in DOMAIN c.sessions
  <2>1. c.sessions[s] \in SessionType
    BY DEF ClientInv, ClientType
  <2>2. d.sessions[s] = [c.sessions[s] EXCEPT !.scheduled = TRUE]
    BY <1>1
  <2>. QED
    BY <2>1, <2>2 DEF SessionType
<1>4. ClientType(d)
  <2>1. d.sessions \in [DOMAIN d.sessions -> SessionType]
    BY <1>1, <1>2, <1>3
  <2>. QED
    BY <2>1, <1>1, <1>2, <1>3 DEF ClientInv, ClientType
<1>5. RequestRoutes(d) /\ PeriodicRoutes(d)
  BY <1>1, <1>2, <1>3 DEF ClientInv, RequestRoutes, PeriodicRoutes
<1>6. SinglesApart(d) /\ Listed(d, live, gen)
  BY <1>1, <1>2, <1>3 DEF ClientInv, SinglesApart, Listed
<1>. QED
  BY <1>2, <1>3, <1>4, <1>5, <1>6 DEF ClientInv, Keeps, d

\* What cancel leaves, and what there is at first.
LEMMA EmptyInv ==
    ASSUME NEW hacks \in Hacks, NEW live, NEW gen
    PROVE  LET d == [NoClient EXCEPT !.hacks = hacks]
           IN  ClientInv(d, live, gen) /\ DOMAIN d.sessions = {} /\ DOMAIN d.singles = {}
<1> DEFINE d == [NoClient EXCEPT !.hacks = hacks]
<1>1. /\ DOMAIN d = {"sessions", "requestTx", "periodicTx", "singles", "deliveries",
                     "next", "hacks"}
      /\ d.sessions = EmptyMap /\ d.requestTx = EmptyMap /\ d.periodicTx = EmptyMap
      /\ d.singles = EmptyMap /\ d.deliveries = EmptyMap /\ d.next = 1 /\ d.hacks = hacks
  BY DEF NoClient
<1>2. DOMAIN EmptyMap = {}
  BY DEF EmptyMap
<1>3. \A S : EmptyMap \in [DOMAIN EmptyMap -> S]
  BY DEF EmptyMap
<1> HIDE DEF d
<1>4. ClientType(d)
  BY <1>1, <1>2, <1>3 DEF ClientType
<1>5. RequestRoutes(d) /\ PeriodicRoutes(d) /\ SinglesApart(d) /\ Listed(d, live, gen)
  BY <1>1, <1>2 DEF RequestRoutes, PeriodicRoutes, SinglesApart, Listed
<1>. QED
  BY <1>1, <1>2, <1>4, <1>5 DEF ClientInv, d

-----------------------------------------------------------------------------
(***************************************************************************)
(* The deferred calls and the rest of the state                            *)
(***************************************************************************)

Core(tb, c) == TableInv(tb) /\ ClientInv(c, Live(tb), tb.generationId)

\* While no deferred call runs, calls may be added that name a session that
\* has asked for it.
LEMMA DeferredInvGrows ==
    ASSUME DeferredInv, ~running, UNCHANGED running,
           \A s \in Sessions : /\ s \in DOMAIN client'.sessions
                               /\ client.sessions[s].gaveUp => client'.sessions[s].gaveUp,
           NEW q \in Seq(CallType), deferred' = deferred \o q,
           \A i \in DOMAIN q : q[i].call = "deallocate" =>
              /\ q[i].session \in DOMAIN client'.sessions
              /\ client'.sessions[q[i].session].gaveUp
    PROVE  DeferredInv'
<1>1. deferred \in Seq(CallType)
  BY DEF DeferredInv
<1>2. deferred' \in Seq(CallType)
  BY <1>1
<1>3. ASSUME NEW i \in DOMAIN deferred', deferred'[i].call = "deallocate"
      PROVE  /\ deferred'[i].session \in DOMAIN client'.sessions
             /\ client'.sessions[deferred'[i].session].gaveUp
  <2>1. CASE i \in DOMAIN deferred
    <3>1. deferred'[i] = deferred[i]
      BY <2>1, <1>1
    <3>2. /\ deferred[i].session \in Sessions
          /\ client.sessions[deferred[i].session].gaveUp
      BY <1>3, <2>1, <3>1 DEF DeferredInv
    <3>. QED
      BY <3>1, <3>2
  <2>2. CASE i \notin DOMAIN deferred
    <3>1. /\ i - Len(deferred) \in DOMAIN q
          /\ deferred'[i] = q[i - Len(deferred)]
      BY <1>1, <1>3, <2>2
    <3>. QED
      BY <1>3, <3>1
  <2>. QED
    BY <2>1, <2>2
<1>. QED
  BY <1>2, <1>3 DEF DeferredInv, Sessions

\* When a deferred call has run, the others stay, and no session has come.
LEMMA DeferredInvRuns ==
    ASSUME DeferredInv, NEW call, Runs(call),
           DOMAIN client'.sessions \subseteq Sessions,
           \A s \in DOMAIN client'.sessions :
              client'.sessions[s].gaveUp = client.sessions[s].gaveUp
    PROVE  DeferredInv'
<1>1. /\ deferred \in Seq(CallType) /\ deferred # <<>>
      /\ deferred' = Tail(deferred) /\ running' = (Tail(deferred) # <<>>)
  BY DEF DeferredInv, Runs
<1>2. deferred' \in Seq(CallType)
  BY <1>1
<1>3. ASSUME NEW i \in DOMAIN deferred'
      PROVE  i + 1 \in DOMAIN deferred /\ deferred'[i] = deferred[i + 1] /\ running'
  <2>1. i + 1 \in DOMAIN deferred /\ deferred'[i] = deferred[i + 1]
    BY <1>1, <1>3
  <2>2. Tail(deferred) # <<>>
    BY <1>1, <1>3
  <2>. QED
    BY <2>1, <2>2, <1>1
<1>4. ASSUME NEW i \in DOMAIN deferred', deferred'[i].call = "deallocate",
             deferred'[i].session \in DOMAIN client'.sessions
      PROVE  client'.sessions[deferred'[i].session].gaveUp
  BY <1>3, <1>4 DEF DeferredInv
<1>. QED
  BY <1>1, <1>2, <1>3, <1>4 DEF DeferredInv, Sessions

LEMMA RestTypeStep ==
    ASSUME StillWaiting, link' \in {"null", "connecting", "established", "broken"},
           attached' \in BOOLEAN, running' \in BOOLEAN
    PROVE  RestType'
BY DEF StillWaiting, RestType

LEMMA LinkType ==
    ASSUME RestType, NEW ok
    PROVE  LinkAfter(ok) \in {"null", "connecting", "established", "broken"}
BY DEF RestType, LinkAfter

\* A step that defers nothing.
LEMMA StepInv ==
    ASSUME IInv, ~running, Core(table', client'), Keeps(client, client'), StillWaiting,
           link' \in {"null", "connecting", "established", "broken"},
           attached' \in BOOLEAN, UNCHANGED <<deferred, running>>
    PROVE  IInv'
<1>1. RestType'
  BY RestTypeStep DEF IInv, RestType
<1>2. DeferredInv'
  <2>1. deferred' \in Seq(CallType) /\ (running' => deferred' # <<>>)
    BY DEF IInv, DeferredInv
  <2>2. ASSUME NEW i \in DOMAIN deferred, deferred[i].call = "deallocate"
        PROVE  /\ deferred[i].session \in DOMAIN client'.sessions
               /\ client'.sessions[deferred[i].session].gaveUp
    BY <2>2 DEF IInv, DeferredInv, Keeps, Sessions
  <2>. QED
    BY <2>1, <2>2 DEF DeferredInv, Sessions
<1>. QED
  BY <1>1, <1>2 DEF IInv, Core

\* create_transaction: the handle is new to the client.
LEMMA BeginInv ==
    ASSUME NEW tb, TableInv(tb), CanAllocate(tb), NEW sse \in BOOLEAN
    PROVE  LET h == Allocate(tb)
               r == CreateTransaction(tb, sse)
           IN  /\ h \in Own /\ h \notin Live(tb) /\ h.generation = tb.generationId
               /\ TableInv(r) /\ Live(r) = Live(tb) \cup {h}
               /\ tb.generationId \in Nat /\ r.generationId = tb.generationId + 1
<1>1. /\ Allocate(tb) \in Handle
      /\ Allocate(tb).generation = tb.generationId
      /\ Allocate(tb).initiator = "target"
  BY AllocateType DEF TableInv
<1>2. tb.generationId \in Nat
  BY DEF TableInv, TableType
<1>3. Allocate(tb) \notin Live(tb)
  BY <1>1, <1>2 DEF TableInv, Older
<1>. QED
  BY <1>1, <1>2, <1>3, CreateTransactionInv DEF Own

\* The transaction of a message, for the client.
LEMMA ArrivesInv ==
    ASSUME IInv, NEW k \in Key, Arrives(k)
    PROVE  LET tb == Resolve(table, k)
               h  == tb.lookup[k]
           IN  /\ Core(tb, client) /\ h \in Handle /\ h \in Live(tb)
               /\ tb.generationId \in Nat /\ ~running
<1> DEFINE tb == Resolve(table, k)
           h  == tb.lookup[k]
<1>1. TableInv(table) /\ ClientInv(client, Live(table), table.generationId)
  BY DEF IInv
<1>2. Found(table, k) \/ k.initiator = "server"
  BY DEF Arrives
<1>3. /\ TableInv(tb) /\ h \in Live(tb) /\ Live(tb) = Live(table) \cup {h}
      /\ tb.generationId \in {table.generationId, table.generationId + 1}
  BY <1>1, <1>2, ResolveInv
<1> HIDE DEF tb, h
<1>4. table.generationId \in Nat /\ tb.generationId \in Nat /\ Live(tb) \subseteq Handle
  BY <1>1, <1>3 DEF TableInv, TableType
<1>5. Live(table) \subseteq Live(tb) /\ table.generationId <= tb.generationId
  BY <1>3, <1>4
<1>6. ClientInv(client, Live(tb), tb.generationId)
  BY <1>1, <1>4, <1>5, LaterInv
<1>7. ~running
  BY DEF Arrives, UsersRun
<1>. QED
  BY <1>3, <1>4, <1>6, <1>7 DEF Core, tb, h

\* What is left at the end of a message.
LEMMA FinishInv ==
    ASSUME NEW tb, NEW c, Core(tb, c), NEW h \in Handle, NEW end, Finish(tb, c, h, end)
    PROVE  Core(table', client') /\ Keeps(c, client')
<1> DEFINE after == IF end THEN ServerEnd(tb, h) ELSE tb
<1>1. table' = after /\ client' = EndRemoved(c, tb, after, h)
  BY DEF Finish
<1>2. /\ TableInv(after) /\ after.generationId = tb.generationId
      /\ Live(after) \subseteq Live(tb) /\ Live(tb) \ {h} \subseteq Live(after)
  BY ServerEndInv, RemovesOne DEF Core, Shrinks
<1> HIDE DEF after
<1>. QED
  BY <1>1, <1>2, EndRemovedInv DEF Core, Loosens

-----------------------------------------------------------------------------
(***************************************************************************)
(* The steps of users and of the server                                    *)
(***************************************************************************)

LEMMA RequestPeriodicInv ==
    ASSUME IInv, NEW ok \in BOOLEAN, RequestPeriodic(ok)
    PROVE  IInv'
<1>1. TableInv(table) /\ ClientInv(client, Live(table), table.generationId)
  BY DEF IInv
<1>2. CanAllocate(table) /\ FreeSessions(client) # {} /\ ~running
  BY DEF RequestPeriodic, CanBegin, UsersRun
<1> DEFINE h == Allocate(table)
<1>3. /\ h \in Own /\ h \notin Live(table) /\ h.generation = table.generationId
      /\ table.generationId \in Nat
      /\ TableInv(table') /\ Live(table') = Live(table) \cup {h}
      /\ table'.generationId = table.generationId + 1
  BY <1>1, <1>2, BeginInv DEF RequestPeriodic
<1>4. client' = NewRequest(client, h)
  BY DEF RequestPeriodic
<1> HIDE DEF h
<1>5. Core(table', client') /\ Keeps(client, client')
  BY <1>1, <1>2, <1>3, <1>4, NewRequestInv DEF Core
<1>. QED
  BY <1>2, <1>5, StepInv, LinkType DEF RequestPeriodic, IInv, RestType

LEMMA UpdateAssistanceDataInv ==
    ASSUME IInv, NEW s \in Sessions, NEW ok \in BOOLEAN, UpdateAssistanceData(s, ok)
    PROVE  IInv'
<1>1. TableInv(table) /\ ClientInv(client, Live(table), table.generationId)
  BY DEF IInv
<1>2. CanAllocate(table) /\ ~running /\ s \in DOMAIN client.sessions
  BY DEF UpdateAssistanceData, CanBegin, UsersRun, Sessions
<1> DEFINE h == Allocate(table)
<1>3. /\ h \in Own /\ h \notin Live(table) /\ h.generation = table.generationId
      /\ table.generationId \in Nat
      /\ TableInv(table') /\ Live(table') = Live(table) \cup {h}
      /\ table'.generationId = table.generationId + 1
  BY <1>1, <1>2, BeginInv DEF UpdateAssistanceData
<1>4. client' = Register(client, s, h)
  BY DEF UpdateAssistanceData
<1> HIDE DEF h
<1>5. Core(table', client') /\ Keeps(client, client')
  BY <1>1, <1>2, <1>3, <1>4, RegisterInv DEF Core
<1>. QED
  BY <1>2, <1>5, StepInv, LinkType DEF UpdateAssistanceData, IInv, RestType

LEMMA RequestSingleInv ==
    ASSUME IInv, NEW ok \in BOOLEAN, RequestSingle(ok)
    PROVE  IInv'
<1>1. TableInv(table) /\ ClientInv(client, Live(table), table.generationId)
  BY DEF IInv
<1>2. CanAllocate(table) /\ ~running
  BY DEF RequestSingle, CanBegin, UsersRun
<1> DEFINE h == Allocate(table)
           x == [waits |-> TRUE, scheduled |-> FALSE]
<1>3. /\ h \in Own /\ h \notin Live(table) /\ h.generation = table.generationId
      /\ table.generationId \in Nat
      /\ TableInv(table') /\ Live(table') = Live(table) \cup {h}
      /\ table'.generationId = table.generationId + 1
  BY <1>1, <1>2, BeginInv DEF RequestSingle
<1>4. client' = [client EXCEPT !.singles = Put(@, h, x)]
  BY DEF RequestSingle
<1>5. x \in SingleType
  BY DEF SingleType
<1> HIDE DEF h, x
<1>6. Core(table', client') /\ Keeps(client, client')
  BY <1>1, <1>3, <1>4, <1>5, NewSingleInv DEF Core
<1>. QED
  BY <1>2, <1>6, StepInv, LinkType DEF RequestSingle, IInv, RestType

\* The first delivery may end the transaction, before the delivery is kept.
LEMMA StartDeliveryInv ==
    ASSUME NEW c, NEW before, NEW after, NEW gen, NEW h \in Handle,
           ClientInv(c, Live(before), gen), attached \in BOOLEAN,
           Live(after) \subseteq Live(before), Live(before) \ {h} \subseteq Live(after)
    PROVE  LET d == StartDelivery(c, before, after, h)
           IN  ClientInv(d, Live(after), gen) /\ Keeps(c, d)
<1> DEFINE e == EndRemoved(c, before, after, h)
           m == Put(e.deliveries, h, attached)
<1>1. ClientInv(e, Live(after), gen) /\ Loosens(c, e)
  BY EndRemovedInv
<1>2. StartDelivery(c, before, after, h) = [e EXCEPT !.deliveries = m]
  BY DEF StartDelivery
<1> HIDE DEF e
<1>3. DOMAIN m \subseteq Handle /\ m \in [DOMAIN m -> BOOLEAN]
  BY <1>1 DEF ClientInv, ClientType, Put
<1> HIDE DEF m
<1>4. /\ ClientInv([e EXCEPT !.deliveries = m], Live(after), gen)
      /\ Loosens(e, [e EXCEPT !.deliveries = m])
  BY <1>1, <1>3, DeliveriesInv
<1>. QED
  BY <1>1, <1>2, <1>4, KeepsTransitive DEF Loosens

LEMMA StartLocationInformationInv ==
    ASSUME IInv, NEW ok \in BOOLEAN, StartLocationInformation(ok)
    PROVE  IInv'
<1> DEFINE begun == CreateTransaction(table, FALSE)
           h     == Allocate(table)
           sent  == Sent(begun, h, FALSE, ok)
<1>1. TableInv(table) /\ ClientInv(client, Live(table), table.generationId)
  BY DEF IInv
<1>2. CanAllocate(table) /\ ~running
  BY DEF StartLocationInformation, CanBegin, UsersRun
<1>3. /\ h \in Own /\ table.generationId \in Nat
      /\ TableInv(begun) /\ Live(begun) = Live(table) \cup {h}
      /\ begun.generationId = table.generationId + 1
  BY <1>1, <1>2, BeginInv
<1>4. table' = sent /\ client' = StartDelivery(client, begun, sent, h)
  BY DEF StartLocationInformation
<1> HIDE DEF begun, h
<1>5. h \in Handle
  BY <1>3 DEF Own
<1>6. /\ TableInv(sent) /\ sent.generationId = begun.generationId
      /\ Live(sent) \subseteq Live(begun) /\ Live(begun) \ {h} \subseteq Live(sent)
  BY <1>3, <1>5, SentInv
<1> HIDE DEF sent
<1>7. ClientInv(client, Live(begun), begun.generationId)
  <2>1. begun.generationId \in Nat /\ table.generationId <= begun.generationId
    BY <1>3
  <2>. QED
    BY <2>1, <1>1, <1>3, LaterInv
<1>8. attached \in BOOLEAN
  BY DEF IInv, RestType
<1>9. Core(table', client') /\ Keeps(client, client')
  BY <1>4, <1>5, <1>6, <1>7, <1>8, StartDeliveryInv DEF Core
<1>. QED
  BY <1>2, <1>9, StepInv, LinkType DEF StartLocationInformation, IInv, RestType

LEMMA ScheduleInv ==
    ASSUME IInv, Schedule
    PROVE  IInv'
<1> DEFINE c == [client EXCEPT !.sessions = [s \in DOMAIN @ |-> [@[s] EXCEPT !.scheduled = TRUE]]]
           m == [h \in DOMAIN client.singles |-> [client.singles[h] EXCEPT !.scheduled = TRUE]]
<1>1. ClientInv(c, Live(table), table.generationId) /\ Keeps(client, c)
  BY ScheduledInv DEF IInv
<1>2. c.singles = client.singles
  BY DEF IInv, ClientInv, ClientType
<1>3. client' = [c EXCEPT !.singles = m]
  BY DEF Schedule, IInv, ClientInv, ClientType
<1> HIDE DEF c
<1>4. \A h \in DOMAIN client.singles : /\ m[h] \in SingleType
                                       /\ m[h].waits = client.singles[h].waits
  BY DEF IInv, ClientInv, ClientType, SingleType
<1>5. DOMAIN m = DOMAIN client.singles
  OBVIOUS
<1>6. m \in [DOMAIN m -> SingleType]
  BY <1>4
<1> HIDE DEF m
<1>7. /\ ClientInv(client', Live(table), table.generationId)
      /\ Keeps(c, client')
  BY <1>1, <1>2, <1>3, <1>4, <1>5, <1>6, FewerSinglesInv
<1>8. Core(table', client') /\ Keeps(client, client')
  BY <1>1, <1>7, KeepsTransitive DEF Core, IInv, Schedule
<1>. QED
  BY <1>8, StepInv DEF Schedule, UsersRun

LEMMA ReceiveAssistanceDataInv ==
    ASSUME IInv, NEW k \in Key, NEW s \in SessionIds \cup {-1}, NEW end \in BOOLEAN,
           ReceiveAssistanceData(k, s, end)
    PROVE  IInv'
<1> DEFINE tb == Resolve(table, k)
           h  == tb.lookup[k]
<1>1. /\ Core(tb, client) /\ h \in Handle /\ h \in Live(tb)
      /\ tb.generationId \in Nat /\ ~running
  BY ArrivesInv DEF ReceiveAssistanceData
<1>2. /\ h \in DOMAIN client.periodicTx => s = client.periodicTx[h]
      /\ \E c \in ProvideAssistanceData(client, h, s) : Finish(tb, c, h, end)
  BY DEF ReceiveAssistanceData
<1> HIDE DEF tb, h
<1>3. PICK c \in ProvideAssistanceData(client, h, s) : Finish(tb, c, h, end)
  BY <1>2
<1>4. Core(tb, c) /\ Keeps(client, c)
  BY <1>1, <1>2, ProvideAssistanceDataInv DEF Core
<1>5. Core(table', client') /\ Keeps(client, client')
  BY <1>1, <1>3, <1>4, FinishInv, KeepsTransitive
<1>. QED
  BY <1>1, <1>5, StepInv DEF ReceiveAssistanceData, IInv, RestType

LEMMA ReceiveRequestCapabilitiesInv ==
    ASSUME IInv, NEW k \in Key, NEW end \in BOOLEAN, NEW ok \in BOOLEAN,
           NEW asks \in BOOLEAN, NEW passes \in BOOLEAN,
           ReceiveRequestCapabilities(k, end, ok, asks, passes)
    PROVE  IInv'
<1> DEFINE tb == Resolve(table, k)
           h  == tb.lookup[k]
           replied == Sent(tb, h, TRUE, ok)
           c  == EndRemoved(client, tb, replied, h)
           begun == CreateTransaction(replied, TRUE)
<1>1. /\ Core(tb, client) /\ h \in Handle /\ h \in Live(tb)
      /\ tb.generationId \in Nat /\ ~running
  BY ArrivesInv DEF ReceiveRequestCapabilities, ServerBegins
<1>2. /\ asks => CanAllocate(replied) /\ FreeSessions(c) # {}
      /\ IF asks
         THEN Finish(begun, NewRequest(c, Allocate(replied)), h, end)
         ELSE passes = ok /\ Finish(replied, c, h, end)
  BY DEF ReceiveRequestCapabilities
<1> HIDE DEF tb, h
<1>3. /\ TableInv(replied) /\ replied.generationId = tb.generationId
      /\ Live(replied) \subseteq Live(tb) /\ Live(tb) \ {h} \subseteq Live(replied)
  BY <1>1, SentInv DEF Core
<1> HIDE DEF replied
<1>4. ClientInv(c, Live(replied), replied.generationId) /\ Loosens(client, c)
  BY <1>1, <1>3, EndRemovedInv DEF Core
<1> HIDE DEF c
<1>5. Core(table', client') /\ Keeps(client, client')
  <2>1. CASE asks
    <3> DEFINE g == Allocate(replied)
    <3>1. /\ g \in Own /\ g \notin Live(replied) /\ g.generation = replied.generationId
          /\ replied.generationId \in Nat
          /\ TableInv(begun) /\ Live(begun) = Live(replied) \cup {g}
          /\ begun.generationId = replied.generationId + 1
      BY <1>2, <1>3, <2>1, BeginInv
    <3>2. Finish(begun, NewRequest(c, g), h, end) /\ FreeSessions(c) # {}
      BY <1>2, <2>1
    <3> HIDE DEF g, begun
    <3>3. Core(begun, NewRequest(c, g)) /\ Keeps(c, NewRequest(c, g))
      BY <1>4, <3>1, <3>2, NewRequestInv DEF Core
    <3>. QED
      BY <1>1, <1>4, <3>2, <3>3, FinishInv, KeepsTransitive DEF Loosens
  <2>2. CASE ~asks
    <3>1. Finish(replied, c, h, end)
      BY <1>2, <2>2
    <3>2. Core(replied, c)
      BY <1>3, <1>4 DEF Core
    <3>. QED
      BY <1>1, <1>4, <3>1, <3>2, FinishInv, KeepsTransitive DEF Loosens
  <2>. QED
    BY <2>1, <2>2
<1>. QED
  BY <1>1, <1>5, StepInv, LinkType DEF ReceiveRequestCapabilities, IInv, RestType

LEMMA ReceiveRequestLocationInv ==
    ASSUME IInv, NEW k \in Key, NEW end \in BOOLEAN, NEW ok \in BOOLEAN,
           ReceiveRequestLocation(k, end, ok)
    PROVE  IInv'
<1> DEFINE tb == Resolve(table, k)
           h  == tb.lookup[k]
           sent == Sent(tb, h, FALSE, ok)
           c  == StartDelivery(client, tb, sent, h)
<1>1. /\ Core(tb, client) /\ h \in Handle /\ h \in Live(tb)
      /\ tb.generationId \in Nat /\ ~running
  BY ArrivesInv DEF ReceiveRequestLocation, ServerBegins
<1>2. Finish(sent, c, h, end)
  BY DEF ReceiveRequestLocation
<1> HIDE DEF tb, h
<1>3. /\ TableInv(sent) /\ sent.generationId = tb.generationId
      /\ Live(sent) \subseteq Live(tb) /\ Live(tb) \ {h} \subseteq Live(sent)
  BY <1>1, SentInv DEF Core
<1> HIDE DEF sent
<1>4. attached \in BOOLEAN
  BY DEF IInv, RestType
<1>5. Core(sent, c) /\ Keeps(client, c)
  BY <1>1, <1>3, <1>4, StartDeliveryInv DEF Core
<1> HIDE DEF c
<1>6. Core(table', client') /\ Keeps(client, client')
  BY <1>1, <1>2, <1>5, FinishInv, KeepsTransitive
<1>. QED
  BY <1>1, <1>6, StepInv, LinkType DEF ReceiveRequestLocation, IInv, RestType

LEMMA ReceiveOtherInv ==
    ASSUME IInv, NEW k \in Key, NEW end \in BOOLEAN, ReceiveOther(k, end)
    PROVE  IInv'
<1> DEFINE tb == Resolve(table, k)
           h  == tb.lookup[k]
<1>1. /\ Core(tb, client) /\ h \in Handle /\ ~running
  BY ArrivesInv DEF ReceiveOther
<1>2. Finish(tb, client, h, end)
  BY DEF ReceiveOther
<1> HIDE DEF tb, h
<1>3. Core(table', client') /\ Keeps(client, client')
  BY <1>1, <1>2, FinishInv
<1>. QED
  BY <1>1, <1>3, StepInv DEF ReceiveOther, IInv, RestType

-----------------------------------------------------------------------------
(***************************************************************************)
(* Connections, timers and deferred calls                                  *)
(***************************************************************************)

LEMMA EstablishedInv == ASSUME IInv, Established PROVE IInv'
BY DEF Established, IInv, DeferredInv, RestType, Sessions, Waiting, Requests

LEMMA GrowsOldInv ==
    ASSUME IInv, NEW h \in Waiting, GrowsOld(h)
    PROVE  IInv'
BY DEF GrowsOld, IInv, DeferredInv, RestType, Sessions, Waiting, Requests

\* The deferred calls that the program makes have their types.
LEMMA CallTypes ==
    /\ Teardown \in CallType /\ Teardown.call = "teardown"
    /\ \A s \in SessionIds : Deallocate(s) \in CallType /\ Deallocate(s).session = s
    /\ \A h \in Handle : Remove(h) \in CallType /\ Remove(h).call = "remove"
BY DEF Teardown, Deallocate, Remove, CallType

LEMMA DisconnectedInv == ASSUME IInv, Disconnected PROVE IInv'
<1>1. /\ ~running /\ deferred' = deferred \o <<Teardown>>
      /\ link' = "broken" /\ UNCHANGED <<table, client, attached, running, old>>
  BY DEF Disconnected, UsersRun, IInv, DeferredInv
<1>2. /\ <<Teardown>> \in Seq(CallType)
      /\ \A i \in DOMAIN <<Teardown>> : <<Teardown>>[i].call # "deallocate"
  BY CallTypes
<1>3. DeferredInv'
  BY <1>1, <1>2, DeferredInvGrows DEF IInv, Sessions
<1>4. RestType'
  BY <1>1 DEF IInv, RestType, Waiting, Sessions, Requests
<1>. QED
  BY <1>1, <1>3, <1>4 DEF IInv

LEMMA CheckSessionInv ==
    ASSUME IInv, NEW s \in Sessions, CheckSession(s)
    PROVE  IInv'
<1> DEFINE stale == Requests(s) \cap old
           hs    == IF NeverSendAbort THEN {} ELSE stale
           d     == GivenUp(client, s, stale, hs)
           q     == IF attached THEN Repeat(Deallocate(s), Cardinality(stale)) ELSE <<>>
<1>1. PICK passed \in Passing(hs) :
         table' = Aborted(table, hs, passed) /\ link' = LinkAfter(passed = hs)
  BY DEF CheckSession
<1>2. /\ ~running /\ deferred' = deferred \o q /\ client' = d
      /\ StillWaiting /\ UNCHANGED <<attached, running>>
  BY DEF CheckSession, UsersRun, GivenUp
<1>3. s \in SessionIds /\ IsFiniteSet(stale)
  <2>1. s \in SessionIds /\ IsFiniteSet(Requests(s)) /\ stale \subseteq Requests(s)
    BY DEF IInv, ClientInv, ClientType, Sessions, Requests
  <2>. QED
    BY <2>1, FS_Subset
<1>4. /\ TableInv(table') /\ table'.generationId = table.generationId
      /\ Live(table') = Live(table) \ (hs \cap passed)
  BY <1>1, AbortedInv DEF IInv
<1>5. /\ ClientInv(client', Live(table'), table'.generationId)
      /\ DOMAIN client'.sessions = Sessions /\ client'.sessions[s].gaveUp
      /\ \A t \in Sessions : client.sessions[t].gaveUp => client'.sessions[t].gaveUp
  <2>1. stale \subseteq Requests(s) /\ ClientInv(client, Live(table), table.generationId)
    BY DEF IInv
  <2>2. /\ s \in DOMAIN client.sessions /\ stale \subseteq client.sessions[s].requests
        /\ hs \subseteq stale
        /\ "never_send_abort" \notin client.hacks => hs = stale
    BY DEF Sessions, Requests, NeverSendAbort
  <2>3. Live(table) \ hs \subseteq Live(table')
    BY <1>4
  <2>4. ClientInv(d, Live(table'), table.generationId)
    <3> HIDE DEF stale, hs
    <3>. QED
      BY <2>1, <2>2, <2>3, GiveUpInv
  <2>5. client' = d
    BY <1>2
  <2>6. client.sessions \in [DOMAIN client.sessions -> SessionType]
    BY DEF IInv, ClientInv, ClientType
  <2>7. DOMAIN client = {"sessions", "requestTx", "periodicTx", "singles", "deliveries",
                         "next", "hacks"}
    BY DEF IInv, ClientInv, ClientType
  <2> DEFINE x == [client.sessions[s] EXCEPT !.requests = @ \ stale, !.gaveUp = TRUE]
  <2>8. d.sessions = [client.sessions EXCEPT ![s] = x] /\ x.gaveUp
    BY <2>2, <2>6, <2>7 DEF GivenUp, SessionType
  <2> HIDE DEF d, hs, stale, x
  <2>9. /\ DOMAIN d.sessions = Sessions /\ d.sessions[s].gaveUp
        /\ \A t \in Sessions : client.sessions[t].gaveUp => d.sessions[t].gaveUp
    BY <2>2, <2>6, <2>8 DEF Sessions
  <2>. QED
    BY <2>4, <2>5, <2>9, <1>4
<1>6. Cardinality(stale) \in Nat
  BY <1>3, FS_CardinalityType
<1>7. q \in Seq(CallType) /\ \A i \in DOMAIN q : q[i].session = s
  <2> DEFINE n == Cardinality(stale)
             r == Repeat(Deallocate(s), n)
  <2>1. r \in Seq(CallType) /\ \A i \in DOMAIN r : r[i] = Deallocate(s)
    <3>1. n \in Nat
      BY <1>6
    <3> HIDE DEF n
    <3>. QED
      BY <3>1, <1>3, CallTypes DEF Repeat
  <2>2. Deallocate(s).session = s
    BY <1>3, CallTypes
  <2>3. q = IF attached THEN r ELSE <<>>
    OBVIOUS
  <2> HIDE DEF q, r
  <2>4. CASE attached
    BY <2>1, <2>2, <2>3, <2>4
  <2>5. CASE ~attached
    BY <2>3, <2>5
  <2>. QED
    BY <2>4, <2>5
<1> HIDE DEF q, d, hs, stale
<1>8. DeferredInv'
  <2>1. \A t \in Sessions : /\ t \in DOMAIN client'.sessions
                            /\ client.sessions[t].gaveUp => client'.sessions[t].gaveUp
    BY <1>5
  <2>2. \A i \in DOMAIN q : /\ q[i].session \in DOMAIN client'.sessions
                            /\ client'.sessions[q[i].session].gaveUp
    BY <1>5, <1>7
  <2>. QED
    BY <1>2, <1>7, <2>1, <2>2, DeferredInvGrows DEF IInv
<1>9. RestType'
  BY <1>1, <1>2, RestTypeStep, LinkType DEF IInv, RestType
<1>. QED
  BY <1>4, <1>5, <1>8, <1>9 DEF IInv

LEMMA CheckSingleInv ==
    ASSUME IInv, NEW h \in DOMAIN client.singles, CheckSingle(h)
    PROVE  IInv'
<1> DEFINE m == [client.singles EXCEPT ![h].waits = FALSE]
           q == IF attached THEN <<Remove(h)>> ELSE <<>>
<1>1. /\ ~running /\ deferred' = deferred \o q /\ client' = [client EXCEPT !.singles = m]
      /\ StillWaiting /\ UNCHANGED <<table, link, attached, running>>
  BY DEF CheckSingle, UsersRun, IInv, DeferredInv
<1>2. /\ DOMAIN m = DOMAIN client.singles /\ m \in [DOMAIN m -> SingleType]
      /\ \A g \in DOMAIN m : m[g].waits => client.singles[g].waits
  BY DEF IInv, ClientInv, ClientType, SingleType
<1>3. h \in Handle
  BY DEF IInv, ClientInv, ClientType, Own
<1>4. q \in Seq(CallType) /\ \A i \in DOMAIN q : q[i].call # "deallocate"
  BY <1>3, CallTypes
<1> HIDE DEF m, q
<1>5. /\ ClientInv(client', Live(table), table.generationId)
      /\ Keeps(client, client')
  BY <1>1, <1>2, FewerSinglesInv DEF IInv
<1>6. DeferredInv'
  BY <1>1, <1>4, <1>5, DeferredInvGrows DEF IInv, Keeps, Sessions
<1>7. RestType'
  BY <1>1, RestTypeStep DEF IInv, RestType
<1>. QED
  BY <1>1, <1>5, <1>6, <1>7 DEF IInv

LEMMA DeliverLocationInv ==
    ASSUME IInv, NEW h \in DOMAIN client.deliveries, NEW ok \in BOOLEAN,
           DeliverLocation(h, ok)
    PROVE  IInv'
<1> DEFINE sent == Sent(table, h, FALSE, ok)
<1>1. ~running /\ table' = sent /\ client' = EndRemoved(client, table, sent, h)
  BY DEF DeliverLocation, UsersRun
<1>2. h \in Handle
  BY DEF IInv, ClientInv, ClientType
<1>3. /\ TableInv(sent) /\ sent.generationId = table.generationId
      /\ Live(sent) \subseteq Live(table) /\ Live(table) \ {h} \subseteq Live(sent)
  BY <1>2, SentInv DEF IInv
<1> HIDE DEF sent
<1>4. Core(table', client') /\ Keeps(client, client')
  BY <1>1, <1>2, <1>3, EndRemovedInv DEF Core, Loosens, IInv
<1>. QED
  BY <1>1, <1>4, StepInv, LinkType DEF DeliverLocation, IInv, RestType

LEMMA RunDeallocateInv == ASSUME IInv, RunDeallocate PROVE IInv'
<1> DEFINE s == Head(deferred).session
<1>1. Runs("deallocate") /\ StillWaiting /\ UNCHANGED attached
  BY DEF RunDeallocate
<1>2. running' \in BOOLEAN
  BY <1>1 DEF Runs
<1>3. CASE s \in Sessions
  <2> DEFINE mine == ToAbort(s)
  <2>1. PICK passed \in Passing(mine \cap Live(table)) :
           /\ table'  = Aborted(table, mine, passed)
           /\ client' = Destroyed(client, s, Live(table) \ Live(Aborted(table, mine, passed)))
           /\ link'   = LinkAfter(passed = mine \cap Live(table))
    BY <1>3 DEF RunDeallocate
  <2>2. /\ TableInv(table') /\ table'.generationId = table.generationId
        /\ Live(table') = Live(table) \ (mine \cap passed)
    BY <2>1, AbortedInv DEF IInv
  <2>3. /\ ClientInv(client', Live(table'), table'.generationId)
        /\ DOMAIN client'.sessions = Sessions \ {s}
        /\ \A t \in DOMAIN client'.sessions : client'.sessions[t] = client.sessions[t]
    <3> DEFINE ended == Live(table) \ Live(Aborted(table, mine, passed))
               d     == Gone(client, s, mine, ended)
    <3>1. client' = d
      BY <2>1 DEF Destroyed, Gone, ToAbort, Requests, Periodic
    <3>2. /\ s \in DOMAIN client.sessions
          /\ mine \subseteq client.sessions[s].requests \cup client.sessions[s].periodic
          /\ "never_send_abort" \notin client.hacks =>
                mine = client.sessions[s].requests \cup client.sessions[s].periodic
      BY <1>3 DEF Sessions, ToAbort, Requests, Periodic, NeverSendAbort
    <3>3. ClientInv(d, Live(table'), table.generationId)
      <4>1. ClientInv(client, Live(table), table.generationId)
        BY DEF IInv
      <4>2. Live(table) \ mine \subseteq Live(table')
        BY <2>2
      <4> HIDE DEF ended, mine, s
      <4>. QED
        BY <3>2, <4>1, <4>2, DestroyedInv
    <3>4. d.sessions = Erase(client.sessions, s)
      BY DEF Gone, IInv, ClientInv, ClientType
    <3>5. /\ DOMAIN d.sessions = DOMAIN client.sessions \ {s}
          /\ \A t \in DOMAIN d.sessions : d.sessions[t] = client.sessions[t]
      <4> HIDE DEF d
      <4>. QED
        BY <3>4 DEF Erase, Restrict
    <3> HIDE DEF d, mine, s
    <3>. QED
      BY <3>1, <3>3, <3>5, <2>2 DEF Sessions
  <2> HIDE DEF s, mine
  <2>4. DeferredInv'
    BY <1>1, <2>3, DeferredInvRuns DEF IInv
  <2>5. RestType'
    BY <1>1, <1>2, <2>1, RestTypeStep, LinkType DEF IInv, RestType
  <2>. QED
    BY <2>2, <2>3, <2>4, <2>5 DEF IInv
<1>4. CASE s \notin Sessions
  <2>1. UNCHANGED <<table, client, link>>
    BY <1>4 DEF RunDeallocate
  <2>2. DeferredInv'
    BY <1>1, <2>1, DeferredInvRuns DEF IInv, Sessions
  <2>3. RestType'
    BY <1>1, <1>2, <2>1, RestTypeStep DEF IInv, RestType
  <2>. QED
    BY <2>1, <2>2, <2>3 DEF IInv
<1>. QED
  BY <1>3, <1>4

LEMMA RunRemoveInv == ASSUME IInv, RunRemove PROVE IInv'
<1> DEFINE m == Restrict(client.singles, DOMAIN client.singles \ Head(deferred).single)
<1>1. /\ Runs("remove") /\ StillWaiting /\ UNCHANGED <<table, link, attached>>
      /\ client' = [client EXCEPT !.singles = m]
  BY DEF RunRemove
<1>2. /\ DOMAIN m \subseteq DOMAIN client.singles /\ m \in [DOMAIN m -> SingleType]
      /\ \A g \in DOMAIN m : m[g].waits => client.singles[g].waits
  BY DEF IInv, ClientInv, ClientType, Restrict
<1> HIDE DEF m
<1>3. /\ ClientInv(client', Live(table), table.generationId)
      /\ client'.sessions = client.sessions
  BY <1>1, <1>2, FewerSinglesInv DEF IInv
<1>4. DeferredInv'
  BY <1>1, <1>3, DeferredInvRuns DEF IInv, Sessions
<1>5. RestType'
  BY <1>1, RestTypeStep DEF IInv, RestType, Runs
<1>. QED
  BY <1>1, <1>3, <1>4, <1>5 DEF IInv

LEMMA RunTeardownInv ==
    ASSUME IInv, NEW asks \in BOOLEAN, RunTeardown(asks)
    PROVE  IInv'
<1> DEFINE hs == UNION {ToAbort(s) : s \in Sessions}
           tb == Aborted(table, hs, hs)
           h  == Allocate(tb)
<1>1. /\ Runs("teardown") /\ StillWaiting /\ link' = "null" /\ attached' = FALSE
      /\ OnDisconnected(tb, asks)
  BY DEF RunTeardown
<1> HIDE DEF hs
<1>2. TableInv(tb)
  BY AbortedInv DEF IInv
<1>3. /\ ClientInv(Emptied, Live(tb), tb.generationId)
      /\ DOMAIN Emptied.sessions = {}
  BY EmptyInv DEF Emptied, IInv, ClientInv, ClientType
<1> HIDE DEF tb, h
<1>4. RestType'
  BY <1>1, RestTypeStep DEF IInv, RestType, Runs
<1>5. CASE ~asks
  <2>1. table' = tb /\ client' = Emptied
    BY <1>1, <1>5 DEF OnDisconnected
  <2>2. DOMAIN client'.sessions = {}
    BY <1>3, <2>1
  <2>3. DeferredInv'
    BY <1>1, <2>2, DeferredInvRuns DEF IInv
  <2>. QED
    BY <1>2, <1>3, <1>4, <2>1, <2>3 DEF IInv
<1>6. CASE asks
  <2>1. /\ CanAllocate(tb)
        /\ \A i \in DOMAIN deferred : deferred[i].call # "deallocate"
        /\ table' = CreateTransaction(tb, TRUE) /\ client' = NewRequest(Emptied, h)
    BY <1>1, <1>6 DEF OnDisconnected, h
  <2>2. /\ h \in Own /\ h \notin Live(tb) /\ h.generation = tb.generationId
        /\ tb.generationId \in Nat
        /\ TableInv(table') /\ Live(table') = Live(tb) \cup {h}
        /\ table'.generationId = tb.generationId + 1
    BY <1>2, <2>1, BeginInv DEF h
  <2>3. FreeSessions(Emptied) # {}
    <3>1. 0 \in 0 .. NumSessions - 1
      BY ClientAssumption
    <3>. QED
      BY <1>3, <3>1 DEF FreeSessions
  <2>4. ClientInv(client', Live(table'), table'.generationId)
    <3> DEFINE live == Live(tb)
               gen  == tb.generationId
    <3>1. gen \in Nat /\ ClientInv(Emptied, live, gen) /\ FreeSessions(Emptied) # {}
      BY <1>3, <2>2, <2>3
    <3>2. h \in Own /\ h \notin live /\ h.generation = gen
      BY <2>2
    <3>3. Live(table') = live \cup {h} /\ table'.generationId = gen + 1
      BY <2>2
    <3> HIDE DEF live, gen
    <3>4. ClientInv(NewRequest(Emptied, h), live \cup {h}, gen + 1)
      BY <3>1, <3>2, NewRequestInv
    <3>. QED
      BY <2>1, <3>3, <3>4
  <2>5. DeferredInv'
    <3>1. /\ deferred \in Seq(CallType) /\ deferred # <<>>
          /\ deferred' = Tail(deferred) /\ running' = (Tail(deferred) # <<>>)
      BY <1>1 DEF IInv, DeferredInv, Runs
    <3>2. deferred' \in Seq(CallType)
      BY <3>1
    <3>3. \A i \in DOMAIN deferred' : deferred'[i].call # "deallocate"
      <4>1. \A i \in DOMAIN deferred' :
               i + 1 \in DOMAIN deferred /\ deferred'[i] = deferred[i + 1]
        BY <3>1
      <4>. QED
        BY <2>1, <4>1
    <3>. QED
      BY <3>1, <3>2, <3>3 DEF DeferredInv
  <2>. QED
    BY <1>4, <2>2, <2>4, <2>5 DEF IInv
<1>. QED
  BY <1>5, <1>6

-----------------------------------------------------------------------------
(***************************************************************************)
(* The invariant                                                           *)
(***************************************************************************)

LEMMA InitIInv == ASSUME Init PROVE IInv
<1>1. PICK hacks \in Hacks : client = [NoClient EXCEPT !.hacks = hacks]
  BY DEF Init
<1>2. /\ ClientInv(client, Live(table), table.generationId)
      /\ DOMAIN client.sessions = {} /\ DOMAIN client.singles = {}
  BY <1>1, EmptyInv
<1>3. TableInv(table)
  <2>1. table = NewTable /\ DOMAIN EmptyMap = {} /\ 1 \in Ids
    BY NumIdsAssumption DEF Init, EmptyMap, Ids
  <2>2. \A S : EmptyMap \in [{} -> S]
    BY DEF EmptyMap
  <2>3. Live(table) = {}
    BY <2>1 DEF NewTable, Live
  <2>4. TableType(table)
    BY <2>1, <2>2, <2>3 DEF TableType, NewTable
  <2>. QED
    BY <2>1, <2>3, <2>4 DEF TableInv, SoundLookup, ServerReachable, Older, NewTable
<1>4. DeferredInv
  BY DEF Init, DeferredInv
<1>5. RestType
  BY DEF Init, RestType
<1>. QED
  BY <1>2, <1>3, <1>4, <1>5 DEF IInv

LEMMA NextIInv == ASSUME IInv, [Next]_vars PROVE IInv'
<1>1. CASE Users
  <2>1. PICK ok \in BOOLEAN :
           \/ RequestPeriodic(ok)
           \/ \E s \in Sessions : UpdateAssistanceData(s, ok)
           \/ RequestSingle(ok)
           \/ StartLocationInformation(ok)
    BY <1>1 DEF Users
  <2>. QED
    BY <2>1, RequestPeriodicInv, UpdateAssistanceDataInv, RequestSingleInv,
       StartLocationInformationInv
<1>2. CASE Server
  <2>1. PICK k \in Key, end \in BOOLEAN :
           \/ \E s \in SessionIds \cup {-1} : ReceiveAssistanceData(k, s, end)
           \/ \E ok, asks, passes \in BOOLEAN :
                 ReceiveRequestCapabilities(k, end, ok, asks, passes)
           \/ \E ok \in BOOLEAN : ReceiveRequestLocation(k, end, ok)
           \/ ReceiveOther(k, end)
    BY <1>2 DEF Server
  <2>. QED
    BY <2>1, ReceiveAssistanceDataInv, ReceiveRequestCapabilitiesInv,
       ReceiveRequestLocationInv, ReceiveOtherInv
<1>3. CASE UNCHANGED vars
  BY <1>3 DEF vars, IInv, DeferredInv, RestType, Sessions, Waiting, Requests
<1>4. CASE Schedule
  BY <1>4, ScheduleInv
<1>5. CASE Established
  BY <1>5, EstablishedInv
<1>6. CASE Disconnected
  BY <1>6, DisconnectedInv
<1>7. CASE \E h \in Waiting : GrowsOld(h)
  BY <1>7, GrowsOldInv
<1>8. CASE \E s \in Sessions : CheckSession(s)
  BY <1>8, CheckSessionInv
<1>9. CASE \E h \in DOMAIN client.singles : CheckSingle(h)
  BY <1>9, CheckSingleInv
<1>10. CASE \E h \in DOMAIN client.deliveries, ok \in BOOLEAN : DeliverLocation(h, ok)
  BY <1>10, DeliverLocationInv
<1>11. CASE RunDeallocate
  BY <1>11, RunDeallocateInv
<1>12. CASE RunRemove
  BY <1>12, RunRemoveInv
<1>13. CASE \E asks \in BOOLEAN : RunTeardown(asks)
  BY <1>13, RunTeardownInv
<1>. QED
  BY <1>1, <1>2, <1>3, <1>4, <1>5, <1>6, <1>7, <1>8, <1>9, <1>10, <1>11, <1>12, <1>13
     DEF Next

\* The table, the routes, the lists and the deferred calls fit together.
THEOREM SpecIInv == Spec => []IInv
BY InitIInv, NextIInv, PTL DEF Spec

-----------------------------------------------------------------------------
(***************************************************************************)
(* What the runs check, for every value of the constants                   *)
(***************************************************************************)

\* The client's containers have the types of lpp/client.hpp, through every
\* request, message, timeout and reconnection.
THEOREM TypeCorrect == Spec => []TypeOK
<1>1. IInv => TypeOK
  <2> SUFFICES ASSUME IInv PROVE TypeOK
    OBVIOUS
  <2>1. /\ TableType(table) /\ Sessions \subseteq SessionIds
        /\ \A s \in Sessions :
              /\ Requests(s) \subseteq Handle /\ Periodic(s) \subseteq Handle
              /\ client.sessions[s].scheduled \in BOOLEAN
              /\ client.sessions[s].gaveUp \in BOOLEAN
    BY DEF IInv, TableInv, ClientInv, ClientType, SessionType, Sessions, Requests,
           Periodic, Own, Theirs
  <2>2. /\ \A h \in DOMAIN client.requestTx :
              h \in Handle /\ client.requestTx[h] \in SessionIds
        /\ \A h \in DOMAIN client.periodicTx :
              h \in Handle /\ client.periodicTx[h] \in SessionIds
    BY DEF IInv, ClientInv, ClientType, Own, Theirs
  <2>3. /\ \A h \in DOMAIN client.singles :
              h \in Handle /\ client.singles[h] \in [waits : BOOLEAN, scheduled : BOOLEAN]
        /\ \A h \in DOMAIN client.deliveries :
              h \in Handle /\ client.deliveries[h] \in BOOLEAN
        /\ client.next \in Nat /\ client.hacks \in Hacks
    BY DEF IInv, ClientInv, ClientType, SingleType, Own
  <2>4. /\ Len(deferred) \in Nat
        /\ \A i \in 1 .. Len(deferred) :
              /\ deferred[i].call \in {"teardown", "deallocate", "remove"}
              /\ deferred[i].session \in SessionIds \cup {-1}
              /\ deferred[i].single \subseteq Handle
    <3>1. deferred \in Seq(CallType)
      BY DEF IInv, DeferredInv
    <3>2. Len(deferred) \in Nat /\ \A i \in 1 .. Len(deferred) : deferred[i] \in CallType
      BY <3>1
    <3>. QED
      BY <3>2 DEF CallType
  <2>. QED
    BY <2>1, <2>2, <2>3, <2>4 DEF TypeOK, IInv, RestType
<1>. QED
  BY <1>1, SpecIInv, PTL

\* The maps that lead a message to a session and the sessions' own lists
\* agree, although a request, a periodic transaction and the session itself
\* each go on a path of their own (register_request, handle_periodic_ended,
\* process_end_transaction, check_active_requests, destroy, cancel).
THEOREM TheRoutesAgree == Spec => []RoutesAgree
<1>1. IInv => RoutesAgree
  BY DEF IInv, ClientInv, RequestRoutes, PeriodicRoutes, RoutesAgree, Agree,
         NeverSendAbort, Sessions, Requests, Periodic
<1>. QED
  BY <1>1, SpecIInv, PTL

\* Whichever side ends a transaction, process_end_transaction finds who waits
\* for it: nobody waits for an answer that cannot come.
THEOREM NobodyWaitsForTheDead == Spec => []WaitedForIsLive
<1>1. IInv => WaitedForIsLive
  <2> SUFFICES ASSUME IInv PROVE WaitedForIsLive
    OBVIOUS
  <2>1. /\ \A s \in DOMAIN client.sessions :
              /\ client.sessions[s].requests \subseteq Live(table)
              /\ client.sessions[s].periodic \subseteq Live(table)
        /\ \A h \in DOMAIN client.singles : client.singles[h].waits => h \in Live(table)
    BY DEF IInv, ClientInv, Listed
  <2>2. ASSUME NEW h \in Waiting PROVE h \in Live(table)
    <3>1. CASE \E s \in DOMAIN client.sessions : h \in client.sessions[s].requests
      BY <2>1, <3>1
    <3>2. CASE h \in DOMAIN client.singles /\ client.singles[h].waits
      BY <2>1, <3>2
    <3>. QED
      BY <2>2, <3>1, <3>2 DEF Waiting, Sessions, Requests
  <2>. QED
    BY <2>1, <2>2 DEF WaitedForIsLive, Sessions, Periodic
<1>. QED
  BY <1>1, SpecIInv, PTL

\* A deferred deallocate_periodic_session_handle never hits a session that
\* has been given the number since: none is made before it runs.
THEOREM DeallocationsFindTheirOwn == Spec => []DeallocatesItsOwn
<1>1. IInv => DeallocatesItsOwn
  BY DEF IInv, DeferredInv, DeallocatesItsOwn
<1>. QED
  BY <1>1, SpecIInv, PTL

\* Client::cancel ends the transactions of all periodic sessions.
THEOREM CancelStopsAllSessions == Spec => CancelStopsSessions
<1> DEFINE A == attached /\ ~attached' /\ ~NeverSendAbort =>
                   \A s \in Sessions : (Requests(s) \cup Periodic(s)) \cap Live(table)' = {}
<1>1. IInv /\ [Next]_vars => [A]_vars
  <2> SUFFICES ASSUME IInv, Next, attached, ~attached', ~NeverSendAbort
               PROVE  \A s \in Sessions : (Requests(s) \cup Periodic(s)) \cap Live(table)' = {}
    OBVIOUS
  <2>1. PICK asks \in BOOLEAN : RunTeardown(asks)
    <3>1. attached' # attached
      OBVIOUS
    <3>2. ~Users
      BY <3>1 DEF Users, RequestPeriodic, UpdateAssistanceData, RequestSingle,
                  StartLocationInformation
    <3>3. ~Server
      <4>1. ASSUME NEW k, NEW x, NEW end, ReceiveAssistanceData(k, x, end)
            PROVE  FALSE
        BY <3>1, <4>1 DEF ReceiveAssistanceData
      <4>2. ASSUME NEW k, NEW end, NEW ok, NEW asks, NEW passes,
                   ReceiveRequestCapabilities(k, end, ok, asks, passes)
            PROVE  FALSE
        BY <3>1, <4>2 DEF ReceiveRequestCapabilities
      <4>3. ASSUME NEW k, NEW end, NEW ok, ReceiveRequestLocation(k, end, ok)
            PROVE  FALSE
        BY <3>1, <4>3 DEF ReceiveRequestLocation
      <4>4. ASSUME NEW k, NEW end, ReceiveOther(k, end)
            PROVE  FALSE
        BY <3>1, <4>4 DEF ReceiveOther
      <4>. QED
        BY <4>1, <4>2, <4>3, <4>4 DEF Server
    <3>4. ~Schedule /\ ~Established /\ ~Disconnected
      BY <3>1 DEF Schedule, Established, Disconnected
    <3>5. /\ ~\E h \in Waiting : GrowsOld(h)
          /\ ~\E h \in DOMAIN client.singles : CheckSingle(h)
          /\ ~\E h \in DOMAIN client.deliveries, ok \in BOOLEAN : DeliverLocation(h, ok)
      BY <3>1 DEF GrowsOld, CheckSingle, DeliverLocation
    <3>6. ~\E s \in Sessions : CheckSession(s)
      BY <3>1 DEF CheckSession
    <3>7. ~RunDeallocate /\ ~RunRemove
      BY <3>1 DEF RunDeallocate, RunRemove
    <3>. QED
      BY <3>2, <3>3, <3>4, <3>5, <3>6, <3>7 DEF Next
  <2> DEFINE hs == UNION {ToAbort(s) : s \in Sessions}
             tb == Aborted(table, hs, hs)
  <2>2. OnDisconnected(tb, asks)
    BY <2>1 DEF RunTeardown
  <2>3. \A s \in Sessions : Requests(s) \cup Periodic(s) \subseteq hs
    BY DEF ToAbort
  <2> HIDE DEF hs
  <2>4. /\ TableInv(tb) /\ Live(tb) = Live(table) \ hs
        /\ tb.generationId = table.generationId
    BY AbortedInv DEF IInv
  <2> HIDE DEF tb
  <2>5. \A h \in Live(table)' : h \in Live(tb) \/ h \notin Live(table)
    <3>1. CASE table' = tb
      BY <3>1
    <3>2. CASE table' = CreateTransaction(tb, TRUE) /\ CanAllocate(tb)
      <4>1. Live(table') = Live(tb) \cup {Allocate(tb)}
        BY <2>4, <3>2, BeginInv
      <4>2. Allocate(tb).generation = table.generationId
        BY <2>4, <3>2, BeginInv
      <4>3. Allocate(tb) \notin Live(table)
        BY <4>2 DEF IInv, TableInv, Older, TableType
      <4>. QED
        BY <4>1, <4>3
    <3>. QED
      BY <2>2, <3>1, <3>2 DEF OnDisconnected
  <2>6. \A s \in Sessions : Requests(s) \cup Periodic(s) \subseteq Live(table)
    BY DEF IInv, ClientInv, Listed, Sessions, Requests, Periodic
  <2>. QED
    BY <2>3, <2>4, <2>5, <2>6
<1>. QED
  BY <1>1, SpecIInv, PTL DEF Spec, CancelStopsSessions
============================================================================

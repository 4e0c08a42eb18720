----------------------- MODULE LppTransactionsProofs -----------------------
(***************************************************************************)
(* Proofs about LppTransactions, for every number of transaction numbers   *)
(* and every bound.  The lemmas of LppTableProofs follow the operators of  *)
(* LppTransactionTable; each theorem then only has to look at how an       *)
(* action composes them.                                                   *)
(***************************************************************************)
EXTENDS LppTransactions, LppTableProofs, SequenceTheorems

\* send and send_with_end: no transaction is added, and the transaction of a
\* message that carried endTransaction is gone.
LEMMA AskingInv ==
    ASSUME NEW tb, TableInv(tb), NEW h \in Handle, NEW end \in BOOLEAN
    PROVE  Shrinks(tb, Asking(tb, h, end)) /\ Live(Asking(tb, h, end)) = Live(tb)
<1>1. CASE ~(end /\ h \in Live(tb))
  BY <1>1 DEF Asking, Shrinks
<1>2. CASE end /\ h \in Live(tb)
  <2> DEFINE d == [tb.transactions[h] EXCEPT !.client_should_send_end = TRUE]
             m == [tb EXCEPT !.transactions[h] = d]
  <2>1. d \in Data
    BY <1>2 DEF TableInv, TableType, Data
  <2>2. Asking(tb, h, end) = m
    BY <1>2 DEF Asking
  <2>3. Shrinks(tb, m) /\ Live(m) = Live(tb)
    BY <1>2, <2>1, SetFlagInv
  <2> HIDE DEF m
  <2>4. QED
    BY <2>2, <2>3
<1>3. QED
  BY <1>1, <1>2

LEMMA SendTableInv ==
    ASSUME NEW tb, TableInv(tb), NEW h \in Handle, NEW lk, NEW outcome
    PROVE  LET r == SendTable(tb, lk, h, outcome)
           IN  /\ Shrinks(tb, r)
               /\ Sendable(tb, h) /\ Accepted(lk, outcome)
                  /\ tb.transactions[h].client_should_send_end => h \notin Live(r)
<1> DEFINE sends == Sendable(tb, h) /\ Accepted(lk, outcome)
                    /\ tb.transactions[h].client_should_send_end
<1>1. CASE ~sends
  BY <1>1 DEF SendTable, Shrinks
<1>2. CASE sends
  <2> DEFINE d == [tb.transactions[h] EXCEPT !.client_should_send_end = FALSE]
             m == [tb EXCEPT !.transactions[h] = d]
  <2>1. h \in Live(tb)
    BY <1>2 DEF Sendable
  <2>2. d \in Data
    BY <2>1 DEF TableInv, TableType, Data
  <2>3. Shrinks(tb, m)
    BY <2>1, <2>2, SetFlagInv
  <2>4. SendTable(tb, lk, h, outcome) = ClientEnd(m, h)
    BY <1>2 DEF SendTable
  <2>5. Shrinks(m, ClientEnd(m, h)) /\ h \notin Live(ClientEnd(m, h))
    BY <2>3, ClientEndInv DEF Shrinks
  <2>6. QED
    BY <2>3, <2>4, <2>5, ShrinksTransitive
<1>3. QED
  BY <1>1, <1>2

LEMMA MessageOfType ==
    ASSUME NEW tb, TableInv(tb), NEW h \in Live(tb), NEW end \in BOOLEAN
    PROVE  MessageOf(tb, h) \in Message
BY DEF MessageOf, Message, TableInv, TableType, Data

----------------------------------------------------------------------------
(***************************************************************************)
(* The inductive invariant.  Freshness needs that every handle anybody     *)
(* holds is older than the next generation, and that the messages on their *)
(* way belong to handles that are held.                                    *)
(***************************************************************************)

HeldInv ==
    /\ Live(table) \subseteq held
    /\ \A h \in held : h.generation < table.generationId
    /\ \A d \in current : d.handle \in held
    /\ table.generationId > 0

\* A callback runs only inside the processing of a payload.
CurrentInv == current # {} => payloads > 0

\* The messages of a sequence belong to held handles, and none that carries
\* endTransaction belongs to a live transaction.
MessagesOK(q, hs, tb) ==
    \A i \in 1 .. Len(q) :
        /\ q[i].handle \in hs
        /\ q[i].end => q[i].handle \notin Live(tb)

IInv == /\ TypeOK
        /\ TableInv(table)
        /\ HeldInv
        /\ CurrentInv
        /\ MessagesOK(wire, held, table)
        /\ MessagesOK(posQueue, held, table)
        /\ QueueEmptyOnceEstablished
        /\ UnreachableOnlyAfterReuse

\* Messages stay in order when the table loses transactions or gains ones
\* nobody held.
LEMMA MessagesOKStable ==
    ASSUME NEW q \in Seq(Message), NEW hs, NEW hs2, NEW tb, NEW tb2,
           MessagesOK(q, hs, tb),
           hs \subseteq hs2,
           \A h \in Live(tb2) : h \in Live(tb) \/ h \notin hs
    PROVE  MessagesOK(q, hs2, tb2)
<1> SUFFICES ASSUME NEW i \in 1 .. Len(q)
             PROVE  /\ q[i].handle \in hs2
                    /\ q[i].end => q[i].handle \notin Live(tb2)
  BY DEF MessagesOK
<1>1. q[i].handle \in hs /\ (q[i].end => q[i].handle \notin Live(tb))
  BY DEF MessagesOK
<1>2. QED
  BY <1>1

LEMMA MessagesOKAppend ==
    ASSUME NEW q \in Seq(Message), NEW hs, NEW tb, MessagesOK(q, hs, tb),
           NEW e \in Message, e.handle \in hs, e.end => e.handle \notin Live(tb)
    PROVE  MessagesOK(Append(q, e), hs, tb)
BY DEF MessagesOK

LEMMA MessagesOKConcat ==
    ASSUME NEW q \in Seq(Message), NEW p \in Seq(Message), NEW hs, NEW tb,
           MessagesOK(q, hs, tb), MessagesOK(p, hs, tb)
    PROVE  MessagesOK(q \o p, hs, tb)
BY ConcatProperties DEF MessagesOK

LEMMA InitIInv == Init => IInv
<1> SUFFICES ASSUME Init PROVE IInv
  OBVIOUS
<1>1. Live(table) = {} /\ DOMAIN table.lookup = {}
  BY DEF Init, NewTable, EmptyMap, Live
<1>2. TableInv(table)
  <2>1. TableType(table)
    BY <1>1, NumIdsAssumption
    DEF Init, NewTable, EmptyMap, TableType, Live, Ids
  <2>2. QED
    BY <1>1, <2>1 DEF TableInv, SoundLookup, ServerReachable, Older
<1>3. TypeOK
  <2>1. reused \in BOOLEAN
    BY DEF Init
  <2>2. QED
    BY <1>2, <2>1 DEF Init, TypeOK, TableInv, Links
<1>4. HeldInv
  BY <1>1 DEF Init, HeldInv, NewTable
<1>5. MessagesOK(wire, held, table) /\ MessagesOK(posQueue, held, table)
  BY DEF Init, MessagesOK
<1>6. QueueEmptyOnceEstablished /\ UnreachableOnlyAfterReuse
  BY <1>1 DEF Init, QueueEmptyOnceEstablished, UnreachableOnlyAfterReuse,
     AllReachable
<1>7. QED
  BY <1>2, <1>3, <1>4, <1>5, <1>6 DEF IInv, CurrentInv, Init

----------------------------------------------------------------------------
(***************************************************************************)
(* The inductive step, one lemma per group of actions.                     *)
(***************************************************************************)

\* Whatever shrinks the table and leaves the counters of the users alone.
LEMMA ShrinkStep ==
    ASSUME IInv, held' = held, current' \subseteq current,
           Shrinks(table, table'), reused' = reused
    PROVE  /\ TableInv(table')
           /\ HeldInv'
           /\ UnreachableOnlyAfterReuse'
           /\ MessagesOK(wire, held', table')
           /\ MessagesOK(posQueue, held', table')
<1>1. TableInv(table') /\ Live(table') \subseteq Live(table)
  BY DEF Shrinks
<1>2. HeldInv'
  <2>1. Live(table)' \subseteq held' /\ table.generationId' = table.generationId
    BY <1>1 DEF IInv, HeldInv, Shrinks, Live
  <2>2. QED
    BY <2>1 DEF IInv, HeldInv
<1>3. UnreachableOnlyAfterReuse'
  BY DEF IInv, UnreachableOnlyAfterReuse, Shrinks, AllReachable, Live, Reaches
<1>4. wire \in Seq(Message) /\ posQueue \in Seq(Message)
  BY DEF IInv, TypeOK
<1>5. MessagesOK(wire, held', table') /\ MessagesOK(posQueue, held', table')
  BY <1>1, <1>4, MessagesOKStable DEF IInv
<1>6. QED
  BY <1>1, <1>2, <1>3, <1>5

LEMMA CreateStep ==
    ASSUME IInv, NEW sse \in BOOLEAN, Create(sse)
    PROVE  IInv' /\ \A h \in Live(table)' \ Live(table) :
                        h \notin held /\ \A g \in Live(table) : g.generation # h.generation
<1> DEFINE h == Allocate(table)
<1>1. TableInv(table) /\ TableType(table) /\ CanAllocate(table)
  BY DEF IInv, TableInv, Create
<1>2. /\ TableInv(table')
      /\ Live(table') = Live(table) \cup {h}
      /\ table'.generationId = table.generationId + 1
      /\ Reaches(table', h)
      /\ \A g \in Live(table) : Reaches(table, g) /\ KeyOf(g) # KeyOf(h)
                               => Reaches(table', g)
  BY <1>1, CreateTransactionInv DEF Create
<1>3. h \in Handle /\ h.generation = table.generationId
  BY <1>1, AllocateType
<1>4. held' = held \cup {h} /\ UNCHANGED <<wire, posQueue, link, payloads, current>>
  BY DEF Create
<1>5. table.generationId \in Nat
  BY <1>1 DEF TableType
<1>6. h \notin held /\ \A g \in Live(table) : g.generation # h.generation
  BY <1>3, <1>5 DEF IInv, HeldInv, TypeOK, Handle
<1>7. HeldInv'
  <2>1. Live(table') \subseteq held'
    BY <1>2, <1>4 DEF IInv, HeldInv
  <2>2. \A g \in held' : g.generation < table'.generationId
    BY <1>2, <1>3, <1>4, <1>5 DEF IInv, HeldInv, TypeOK, Handle
  <2>3. \A d \in current' : d.handle \in held'
    BY <1>4 DEF IInv, HeldInv
  <2>4. QED
    BY <1>2, <1>5, <2>1, <2>2, <2>3 DEF HeldInv, Live
<1>8. MessagesOK(wire', held', table') /\ MessagesOK(posQueue', held', table')
  <2>1. held \subseteq held' /\ \A g \in Live(table') : g \in Live(table) \/ g \notin held
    BY <1>2, <1>4, <1>6
  <2>2. wire \in Seq(Message) /\ posQueue \in Seq(Message)
    BY DEF IInv, TypeOK
  <2>3. QED
    BY <1>4, <2>1, <2>2, MessagesOKStable DEF IInv
<1>9. UnreachableOnlyAfterReuse'
  <2> SUFFICES ASSUME ~reused', NEW g \in Live(table') PROVE Reaches(table', g)
    BY DEF UnreachableOnlyAfterReuse, AllReachable, Live, Reaches
  <2>1. ~reused /\ \A f \in Live(table) : KeyOf(f) # KeyOf(h)
    BY DEF Create
  <2>2. QED
    BY <1>2, <2>1 DEF IInv, UnreachableOnlyAfterReuse, AllReachable
<1>10. TypeOK'
  <2>1. reused' \in BOOLEAN
    BY DEF Create, IInv, TypeOK
  <2>2. TableType(table)'
    BY <1>2 DEF TableInv
  <2>3. QED
    BY <1>3, <1>4, <2>1, <2>2 DEF IInv, TypeOK
<1>11. QED
  BY <1>2, <1>4, <1>6, <1>7, <1>8, <1>9, <1>10
  DEF IInv, CurrentInv, QueueEmptyOnceEstablished, Live

\* The handle of a send may be stale; then nothing happens.  Otherwise the
\* message it makes carries endTransaction only if the transaction is gone.
LEMMA SendStep ==
    ASSUME IInv, NEW h \in held, NEW end \in BOOLEAN, NEW outcome \in Outcomes,
           Send(h, end, outcome)
    PROVE  IInv' /\ Live(table') \subseteq Live(table)
<1> DEFINE a == Asking(table, h, end)
           e == MessageOf(a, h)
<1>1. h \in Handle /\ TableInv(table)
  BY DEF IInv, TypeOK
<1>2. Shrinks(table, a) /\ Live(a) = Live(table)
  BY <1>1, AskingInv
<1>3. TableInv(a)
  BY <1>2 DEF Shrinks
<1>4. /\ table' = SendTable(a, link, h, outcome)
      /\ link' = SendLink(a, link, h, outcome)
      /\ posQueue' = SendQueue(a, link, posQueue, h, outcome)
      /\ wire' = SendWire(a, link, wire, h, outcome)
      /\ UNCHANGED <<held, reused, payloads, current>>
  BY DEF Send
<1> HIDE DEF a
<1>5. /\ Shrinks(a, table')
      /\ Sendable(a, h) /\ Accepted(link, outcome)
         /\ a.transactions[h].client_should_send_end => h \notin Live(table')
  BY <1>1, <1>3, <1>4, SendTableInv
<1>6. Shrinks(table, table')
  BY <1>2, <1>5, ShrinksTransitive
<1>7. /\ TableInv(table') /\ HeldInv' /\ UnreachableOnlyAfterReuse'
      /\ MessagesOK(wire, held', table') /\ MessagesOK(posQueue, held', table')
  BY <1>4, <1>6, ShrinkStep
<1>8. ASSUME Sendable(a, h)
      PROVE  /\ e \in Message
             /\ e.handle = h
             /\ e.end = a.transactions[h].client_should_send_end
  BY <1>3, <1>8, MessageOfType DEF MessageOf, Sendable
<1>9. wire \in Seq(Message) /\ posQueue \in Seq(Message)
  BY DEF IInv, TypeOK
<1>10. wire' \in Seq(Message) /\ MessagesOK(wire', held', table')
  <2>1. CASE Sendable(a, h) /\ Accepted(link, outcome) /\ link # "null"
    <3>1. wire' = Append(wire, e)
      BY <1>4, <2>1 DEF SendWire
    <3>2. e \in Message /\ e.handle \in held' /\ (e.end => e.handle \notin Live(table'))
      BY <1>4, <1>5, <1>8, <2>1
    <3> HIDE DEF e
    <3>3. QED
      BY <1>7, <1>9, <3>1, <3>2, MessagesOKAppend
  <2>2. CASE ~(Sendable(a, h) /\ Accepted(link, outcome) /\ link # "null")
    BY <1>4, <1>7, <1>9, <2>2 DEF SendWire
  <2>3. QED
    BY <2>1, <2>2
<1>11. posQueue' \in Seq(Message) /\ MessagesOK(posQueue', held', table')
  <2>1. CASE Sendable(a, h) /\ Accepted(link, outcome) /\ link = "null"
    <3> DEFINE grown == Append(posQueue, e)
    <3>1. posQueue' = IF Len(grown) > QueueLimit THEN <<>> ELSE grown
      BY <1>4, <2>1 DEF SendQueue
    <3>2. e \in Message /\ e.handle \in held' /\ (e.end => e.handle \notin Live(table'))
      BY <1>4, <1>5, <1>8, <2>1
    <3> HIDE DEF e
    <3>3. grown \in Seq(Message) /\ MessagesOK(grown, held', table')
      BY <1>7, <1>9, <3>2, MessagesOKAppend
    <3>4. MessagesOK(<<>>, held', table')
      BY DEF MessagesOK
    <3> HIDE DEF grown
    <3>5. QED
      BY <3>1, <3>3, <3>4
  <2>2. CASE ~(Sendable(a, h) /\ Accepted(link, outcome) /\ link = "null")
    BY <1>4, <1>7, <1>9, <2>2 DEF SendQueue
  <2>3. QED
    BY <2>1, <2>2
<1>12. link' \in Links /\ QueueEmptyOnceEstablished'
  BY <1>4 DEF IInv, TypeOK, SendLink, SendQueue, Links, QueueEmptyOnceEstablished
<1>13. TypeOK'
  BY <1>4, <1>7, <1>10, <1>11, <1>12 DEF IInv, TypeOK, TableInv
<1>14. QED
  BY <1>4, <1>6, <1>7, <1>10, <1>11, <1>12, <1>13 DEF IInv, CurrentInv, Shrinks

LEMMA DeleteStep ==
    ASSUME IInv, NEW h \in held, Delete(h)
    PROVE  IInv' /\ Live(table') \subseteq Live(table)
<1>1. Shrinks(table, table')
  BY ClientEndInv DEF IInv, TypeOK, Delete
<1>2. UNCHANGED <<link, posQueue, wire, held, reused, payloads, current>>
  BY DEF Delete
<1>3. /\ TableInv(table') /\ HeldInv' /\ UnreachableOnlyAfterReuse'
      /\ MessagesOK(wire, held', table') /\ MessagesOK(posQueue, held', table')
  BY <1>1, <1>2, ShrinkStep
<1>4. TypeOK'
  BY <1>2, <1>3 DEF IInv, TypeOK, TableInv
<1>5. QED
  BY <1>1, <1>2, <1>3, <1>4 DEF IInv, CurrentInv, QueueEmptyOnceEstablished, Shrinks

LEMMA DeliveredStep ==
    ASSUME IInv, Delivered
    PROVE  IInv' /\ Live(table') \subseteq Live(table)
<1>1. PICK d \in current :
        /\ current'  = {}
        /\ payloads' = payloads - 1
        /\ table'    = IF d.serverEnd THEN ServerEnd(table, d.handle) ELSE table
        /\ UNCHANGED <<link, posQueue, wire, held, reused>>
  BY DEF Delivered
<1>2. TableInv(table) /\ d.handle \in Handle
  BY DEF IInv, TypeOK, Delivery
<1>3. Shrinks(table, table')
  BY <1>1, <1>2, ServerEndInv DEF Shrinks
<1>4. /\ TableInv(table') /\ HeldInv' /\ UnreachableOnlyAfterReuse'
      /\ MessagesOK(wire, held', table') /\ MessagesOK(posQueue, held', table')
  BY <1>1, <1>3, ShrinkStep
<1>5. payloads' \in Nat
  BY <1>1 DEF IInv, TypeOK, CurrentInv
<1>6. TypeOK'
  BY <1>1, <1>4, <1>5 DEF IInv, TypeOK, TableInv
<1>7. QED
  BY <1>1, <1>3, <1>4, <1>6 DEF IInv, CurrentInv, QueueEmptyOnceEstablished, Shrinks

\* A payload for a known transaction leaves the table alone; one that begins
\* a server transaction hands out a handle with the next generation.
LEMMA DeliverStep ==
    ASSUME IInv, NEW k \in Key, NEW serverEnd \in BOOLEAN, Deliver(k, serverEnd)
    PROVE  IInv' /\ \A h \in Live(table)' \ Live(table) :
                        h \notin held /\ \A g \in Live(table) : g.generation # h.generation
<1> DEFINE r == Resolve(table, k)
           h == r.lookup[k]
<1>1. TableInv(table) /\ table.generationId \in Nat
  BY DEF IInv, TableInv, TableType
<1>2. /\ TableInv(r)
      /\ h \in Live(r)
      /\ Live(r) = Live(table) \cup {h}
      /\ h \in Live(table) \/ h.generation = table.generationId
      /\ r.generationId \in {table.generationId, table.generationId + 1}
      /\ h.generation < r.generationId
      /\ AllReachable(table) => AllReachable(r)
  BY <1>1, ResolveInv DEF Deliver
<1>3. /\ table' = r
      /\ held' = held \cup {h}
      /\ current' = {[handle |-> h, serverEnd |-> serverEnd]}
      /\ payloads > 0
      /\ UNCHANGED <<link, posQueue, wire, reused, payloads>>
  BY DEF Deliver
<1>4. h \in Handle
  BY <1>2 DEF TableInv, TableType
<1> HIDE DEF r, h
<1>5. h \in Live(table) \/ (h \notin held /\ \A g \in Live(table) : g.generation # h.generation)
  BY <1>1, <1>2 DEF IInv, HeldInv, TypeOK, Handle
<1>6. HeldInv'
  <2>1. Live(table') \subseteq held'
    BY <1>2, <1>3 DEF IInv, HeldInv
  <2>2. \A g \in held' : g.generation < table'.generationId
    BY <1>1, <1>2, <1>3, <1>4 DEF IInv, HeldInv, TypeOK, Handle
  <2>3. \A d \in current' : d.handle \in held'
    BY <1>3
  <2>4. table'.generationId > 0
    BY <1>1, <1>2, <1>3 DEF IInv, HeldInv
  <2>5. QED
    BY <2>1, <2>2, <2>3, <2>4 DEF HeldInv, Live
<1>7. MessagesOK(wire', held', table') /\ MessagesOK(posQueue', held', table')
  <2>1. held \subseteq held' /\ \A g \in Live(table') : g \in Live(table) \/ g \notin held
    BY <1>2, <1>3, <1>5
  <2>2. wire \in Seq(Message) /\ posQueue \in Seq(Message)
    BY DEF IInv, TypeOK
  <2>3. QED
    BY <1>3, <2>1, <2>2, MessagesOKStable DEF IInv
<1>8. UnreachableOnlyAfterReuse'
  BY <1>2, <1>3 DEF IInv, UnreachableOnlyAfterReuse, AllReachable, Live, Reaches
<1>9. TypeOK'
  <2>1. current' \subseteq Delivery
    BY <1>3, <1>4 DEF Delivery
  <2>2. TableType(table)'
    BY <1>2, <1>3 DEF TableInv
  <2>3. QED
    BY <1>3, <1>4, <2>1, <2>2 DEF IInv, TypeOK
<1>10. QED
  BY <1>2, <1>3, <1>5, <1>6, <1>7, <1>8, <1>9
  DEF IInv, CurrentInv, QueueEmptyOnceEstablished, Live

\* Under the hack a handle with generation 0 joins the held ones: older than
\* any generation that is still to be given out.
LEMMA DeliverHackStep ==
    ASSUME IInv, NEW k \in Key, DeliverHack(k)
    PROVE  IInv' /\ table' = table
<1> DEFINE h == [id |-> k.id, generation |-> 0, initiator |-> "server"]
<1>1. /\ held' = held \cup {h}
      /\ current' = {[handle |-> h, serverEnd |-> FALSE]}
      /\ payloads > 0
      /\ UNCHANGED <<table, link, posQueue, wire, reused, payloads>>
  BY DEF DeliverHack
<1>2. h \in Handle /\ h.generation = 0
  BY DEF Handle, Key, Initiators
<1> HIDE DEF h
<1>3. TypeOK'
  <2>1. current' \subseteq Delivery
    BY <1>1, <1>2 DEF Delivery
  <2>2. QED
    BY <1>1, <1>2, <2>1 DEF IInv, TypeOK
<1>4. HeldInv'
  BY <1>1, <1>2 DEF IInv, HeldInv
<1>5. MessagesOK(wire', held', table') /\ MessagesOK(posQueue', held', table')
  <2>1. wire \in Seq(Message) /\ posQueue \in Seq(Message) /\ held \subseteq held'
    BY <1>1 DEF IInv, TypeOK
  <2>2. QED
    BY <1>1, <2>1, MessagesOKStable DEF IInv
<1>6. QED
  BY <1>1, <1>3, <1>4, <1>5
  DEF IInv, CurrentInv, QueueEmptyOnceEstablished, UnreachableOnlyAfterReuse

\* The actions of the connection, and payloads that are dropped, leave the
\* table and the handles alone.
LEMMA ConnectionStep ==
    ASSUME IInv,
           \/ Connect \/ Connected \/ Cancel \/ DropPayload
           \/ \E ok \in BOOLEAN : Posinit(ok)
           \/ \E n \in 1 .. MaxPayloads : ReceivePos(n)
    PROVE  IInv' /\ table' = table
<1>1. CASE Connect
  BY <1>1 DEF Connect, IInv, TypeOK, Links, HeldInv, CurrentInv, MessagesOK,
     QueueEmptyOnceEstablished, UnreachableOnlyAfterReuse
<1>2. CASE Connected
  BY <1>2 DEF Connected, IInv, TypeOK, Links, HeldInv, CurrentInv, MessagesOK,
     QueueEmptyOnceEstablished, UnreachableOnlyAfterReuse
<1>3. CASE Cancel
  BY <1>3 DEF Cancel, IInv, TypeOK, Links, HeldInv, CurrentInv, MessagesOK,
     QueueEmptyOnceEstablished, UnreachableOnlyAfterReuse
<1>4. CASE DropPayload
  BY <1>4 DEF DropPayload, IInv, TypeOK, Links, HeldInv, CurrentInv, MessagesOK,
     QueueEmptyOnceEstablished, UnreachableOnlyAfterReuse
<1>5. ASSUME NEW n \in 1 .. MaxPayloads, ReceivePos(n)
      PROVE  IInv' /\ table' = table
  BY <1>5, SendAssumption
  DEF ReceivePos, IInv, TypeOK, Links, HeldInv, CurrentInv, MessagesOK,
      QueueEmptyOnceEstablished, UnreachableOnlyAfterReuse
<1>6. ASSUME NEW ok \in BOOLEAN, Posinit(ok)
      PROVE  IInv' /\ table' = table
  <2>1. /\ posQueue' = <<>>
        /\ wire' = IF ok THEN wire \o posQueue ELSE wire
        /\ link' = IF ok THEN "established" ELSE "broken"
        /\ UNCHANGED <<table, held, reused, payloads, current>>
    BY <1>6 DEF Posinit
  <2>2. wire \in Seq(Message) /\ posQueue \in Seq(Message)
    BY DEF IInv, TypeOK
  <2>3. wire' \in Seq(Message) /\ MessagesOK(wire', held', table')
    BY <2>1, <2>2, MessagesOKConcat DEF IInv
  <2>4. posQueue' \in Seq(Message) /\ MessagesOK(posQueue', held', table')
    BY <2>1 DEF MessagesOK
  <2>5. TypeOK'
    BY <2>1, <2>3, <2>4 DEF IInv, TypeOK, Links
  <2>6. QED
    BY <2>1, <2>3, <2>4, <2>5
    DEF IInv, HeldInv, CurrentInv, QueueEmptyOnceEstablished, UnreachableOnlyAfterReuse
<1>7. QED
  BY <1>1, <1>2, <1>3, <1>4, <1>5, <1>6

\* What one step of the program does: the invariant is kept, and what enters
\* the table is fresh.
LEMMA NextIInv ==
    ASSUME IInv, [Next]_vars
    PROVE  IInv' /\ \A h \in Live(table)' \ Live(table) :
                        h \notin held /\ \A g \in Live(table) : g.generation # h.generation
<1>1. CASE UNCHANGED vars
  BY <1>1 DEF vars, IInv, TypeOK, HeldInv, CurrentInv, QueueEmptyOnceEstablished,
     UnreachableOnlyAfterReuse
<1>2. ASSUME NEW sse \in BOOLEAN, Create(sse)
      PROVE  IInv' /\ \A h \in Live(table)' \ Live(table) :
                h \notin held /\ \A g \in Live(table) : g.generation # h.generation
  BY <1>2, CreateStep
<1>3. ASSUME NEW h \in held, NEW end \in BOOLEAN, NEW outcome \in Outcomes,
             Send(h, end, outcome)
      PROVE  IInv' /\ Live(table)' \subseteq Live(table)
  BY <1>3, SendStep DEF Live
<1>4. ASSUME NEW h \in held, Delete(h)
      PROVE  IInv' /\ Live(table)' \subseteq Live(table)
  BY <1>4, DeleteStep DEF Live
<1>5. CASE Connect \/ Connected \/ Cancel \/ DropPayload
  BY <1>5, ConnectionStep DEF Live
<1>6. ASSUME NEW ok \in BOOLEAN, Posinit(ok)
      PROVE  IInv' /\ Live(table)' \subseteq Live(table)
  BY <1>6, ConnectionStep DEF Live
<1>7. ASSUME NEW n \in 1 .. MaxPayloads, ReceivePos(n)
      PROVE  IInv' /\ Live(table)' \subseteq Live(table)
  BY <1>7, ConnectionStep DEF Live
<1>8. ASSUME NEW k \in Key, NEW serverEnd \in BOOLEAN, Deliver(k, serverEnd)
      PROVE  IInv' /\ \A h \in Live(table)' \ Live(table) :
                h \notin held /\ \A g \in Live(table) : g.generation # h.generation
  BY <1>8, DeliverStep
<1>9. ASSUME NEW k \in Key, DeliverHack(k)
      PROVE  IInv' /\ Live(table)' \subseteq Live(table)
  BY <1>9, DeliverHackStep DEF Live
<1>10. CASE Delivered
  BY <1>10, DeliveredStep DEF Live
<1>11. QED
  BY <1>1, <1>2, <1>3, <1>4, <1>5, <1>6, <1>7, <1>8, <1>9, <1>10 DEF Next

LEMMA SpecIInv == Spec => []IInv
<1>1. IInv /\ [Next]_vars => IInv'
  BY NextIInv
<1>2. QED
  BY <1>1, InitIInv, PTL DEF Spec

----------------------------------------------------------------------------
(***************************************************************************)
(* The theorems.                                                           *)
(***************************************************************************)

\* Every variable has its type, in every reachable state, for every number of
\* transaction numbers and whatever the users and the server do.
THEOREM TypeCorrect == Spec => []TypeOK
<1>1. IInv => TypeOK
  BY DEF IInv
<1>2. QED
  BY <1>1, SpecIInv, PTL

\* mTransacionLookup neither dangles nor crosses (add_transaction,
\* remove_transaction), although numbers are reused while they are live.
THEOREM LookupIsSound == Spec => []LookupSound
<1>1. IInv => LookupSound
  BY DEF IInv, TableInv, LookupSound
<1>2. QED
  BY <1>1, SpecIInv, PTL

\* Messages of the server always reach the transaction it means
\* (process_lpp_payload, find_transaction).
THEOREM ServerTransactionsAreReachable == Spec => []ServerTransactionsReachable
<1>1. IInv => ServerTransactionsReachable
  BY DEF IInv, TableInv, ServerTransactionsReachable
<1>2. QED
  BY <1>1, SpecIInv, PTL

\* The generation of transaction.hpp:81-83 does what it is for: no handle
\* kept by a user ever names a transaction that began after it was given out.
THEOREM HandlesAreNeverRecycled == Spec => NewTransactionsAreFresh
<1> DEFINE Fresh == \A h \in Live(table)' \ Live(table) :
                        h \notin held /\ \A g \in Live(table) : g.generation # h.generation
<1>1. IInv /\ [Next]_vars => [Fresh]_vars
  BY NextIInv
<1>2. Spec => [][Fresh]_vars
  BY <1>1, SpecIInv, PTL DEF Spec
<1>3. QED
  BY <1>2 DEF NewTransactionsAreFresh

\* After a message with endTransaction was accepted by send, its transaction
\* cannot be used again, on any connection.
THEOREM EndIsTheLastWord == Spec => []EndedTransactionsAreGone
<1>1. IInv => EndedTransactionsAreGone
  <2> SUFFICES ASSUME IInv, NEW i \in 1 .. Len(wire \o posQueue),
                      (wire \o posQueue)[i].end
               PROVE  (wire \o posQueue)[i].handle \notin Live(table)
    BY DEF EndedTransactionsAreGone
  <2>1. MessagesOK(wire \o posQueue, held, table)
    BY MessagesOKConcat DEF IInv, TypeOK
  <2>2. QED
    BY <2>1 DEF MessagesOK
<1>2. QED
  BY <1>1, SpecIInv, PTL

\* No message waits in mPosQueue on an established session.
THEOREM NothingWaitsOnceEstablished == Spec => []QueueEmptyOnceEstablished
<1>1. IInv => QueueEmptyOnceEstablished
  BY DEF IInv
<1>2. QED
  BY <1>1, SpecIInv, PTL

\* The only way a live transaction becomes unreachable is the allocation of
\* its number to another one (allocate_transaction).
THEOREM OnlyReuseUnreaches == Spec => []UnreachableOnlyAfterReuse
<1>1. IInv => UnreachableOnlyAfterReuse
  BY DEF IInv
<1>2. QED
  BY <1>1, SpecIInv, PTL

\* Whatever is sent, received and ended, the connection goes through the phases
\* of LppLink: a failed send breaks it and nothing but cancel tears it down.
THEOREM TransactionsImplementLink == Spec => ImplementsLink
<1>1. Init => Link!Init
  BY DEF Init, Link!Init
<1>2. IInv /\ [Next]_vars => [Link!Next]_link
  <2> SUFFICES ASSUME IInv, [Next]_vars, link' # link
               PROVE  Link!Next
    OBVIOUS
  <2>1. CASE Connect \/ Connected \/ Cancel
    BY <2>1 DEF Connect, Connected, Cancel, Link!Next, Link!Begin,
       Link!Connected, Link!TearDown
  <2>2. ASSUME NEW ok \in BOOLEAN, Posinit(ok)
        PROVE  Link!Next
    BY <2>2 DEF Posinit, Link!Next, Link!Establish, Link!Break
  <2>3. ASSUME NEW h \in held, NEW end \in BOOLEAN, NEW outcome \in Outcomes,
               Send(h, end, outcome)
        PROVE  Link!Next
    BY <2>3 DEF Send, SendLink, Link!Next, Link!Break
  <2>4. QED
    BY <2>1, <2>2, <2>3 DEF Next, vars, Create, Delete, ReceivePos, Deliver,
       DeliverHack, Delivered, DropPayload
<1>3. QED
  BY <1>1, <1>2, SpecIInv, PTL DEF Spec, ImplementsLink, Link!Spec

============================================================================

--------------------------- MODULE LppTableProofs ---------------------------
(***************************************************************************)
(* Lemmas about the operators of LppTransactionTable, for every number of  *)
(* transaction numbers: what each leaves of a table that is sound.  The    *)
(* proofs about LppTransactions and about LppClient rest on them.          *)
(***************************************************************************)
EXTENDS LppTransactionTable, WellFoundedInduction, TLAPS

\* The part of the inductive invariant that speaks of the table alone: the
\* lookup does not dangle, server transactions are reachable, and every
\* generation in use is older than the next one.
Older(tb) == \A h \in Live(tb) : h.generation < tb.generationId

TableInv(tb) == TableType(tb) /\ SoundLookup(tb) /\ ServerReachable(tb) /\ Older(tb)

\* What every operator that adds no transaction does to a table.
Shrinks(tb, r) ==
    /\ TableInv(r)
    /\ Live(r) \subseteq Live(tb)
    /\ r.generationId = tb.generationId
    /\ AllReachable(tb) => AllReachable(r)

LEMMA KeyOfType == ASSUME NEW h \in Handle PROVE KeyOf(h) \in Key
BY DEF Handle, Key, KeyOf

\* add_transaction keeps the table sound when the new handle is younger than
\* the counter and, for a server transaction, its number is free.
LEMMA AddTransactionInv ==
    ASSUME NEW tb, TableInv(tb), NEW h \in Handle, NEW sse \in BOOLEAN,
           h.generation < tb.generationId,
           h.initiator = "target" \/ KeyOf(h) \notin DOMAIN tb.lookup
    PROVE  /\ TableInv(AddTransaction(tb, h, sse))
           /\ Live(AddTransaction(tb, h, sse)) = Live(tb) \cup {h}
<1>1. CASE h \in Live(tb)
  BY <1>1 DEF AddTransaction
<1>2. CASE h \notin Live(tb)
  <2> DEFINE r == AddTransaction(tb, h, sse)
  <2>1. /\ DOMAIN r = DOMAIN tb
        /\ r.transactions = Put(tb.transactions, h, NewData(sse))
        /\ r.lookup = Put(tb.lookup, KeyOf(h), h)
        /\ r.clientTransactions = tb.clientTransactions
        /\ r.transactionId = tb.transactionId
        /\ r.generationId = tb.generationId
    BY <1>2 DEF AddTransaction, TableInv, TableType
  <2>2. Live(r) = Live(tb) \cup {h}
    BY <2>1 DEF Live, Put
  <2>3. NewData(sse) \in Data
    BY DEF NewData, Data
  <2>4. TableType(r)
    <3>1. r.transactions \in [Live(r) -> Data]
      BY <2>1, <2>2, <2>3 DEF TableInv, TableType, Put, Live
    <3>2. DOMAIN r.lookup \subseteq Key /\ r.lookup \in [DOMAIN r.lookup -> Handle]
      BY <2>1, KeyOfType DEF TableInv, TableType, Put
    <3>3. QED
      BY <2>1, <2>2, <3>1, <3>2 DEF TableInv, TableType
  <2>5. SoundLookup(r)
    BY <2>1, <2>2 DEF TableInv, SoundLookup, Put
  <2>6. ServerReachable(r)
    BY <2>1, <2>2 DEF TableInv, ServerReachable, Reaches, Put, KeyOf
  <2>7. Older(r)
    BY <2>1, <2>2 DEF TableInv, Older
  <2>8. QED
    BY <2>2, <2>4, <2>5, <2>6, <2>7 DEF TableInv
<1>3. QED
  BY <1>1, <1>2

\* remove_transaction: what is left is a sound table, and a transaction that
\* was removable is gone.
LEMMA RemoveTransactionInv ==
    ASSUME NEW tb, TableInv(tb), NEW h \in Handle
    PROVE  LET r == RemoveTransaction(tb, h)
           IN  /\ Shrinks(tb, r)
               /\ h \in Live(tb) /\ Removable(tb.transactions[h]) => h \notin Live(r)
<1> DEFINE r == RemoveTransaction(tb, h)
<1>1. CASE ~(h \in Live(tb) /\ Removable(tb.transactions[h]))
  BY <1>1 DEF RemoveTransaction, Shrinks
<1>2. CASE h \in Live(tb) /\ Removable(tb.transactions[h])
  <2>1. /\ DOMAIN r = DOMAIN tb
        /\ r.transactions = Erase(tb.transactions, h)
        /\ r.lookup = Erase(tb.lookup, KeyOf(h))
        /\ r.clientTransactions \subseteq tb.clientTransactions
        /\ r.transactionId = tb.transactionId
        /\ r.generationId = tb.generationId
    BY <1>2 DEF RemoveTransaction, TableInv, TableType
  <2>2. Live(r) = Live(tb) \ {h}
    BY <2>1 DEF Live, Erase, Restrict
  <2>3. TableType(r)
    <3>1. r.transactions \in [Live(r) -> Data]
      BY <2>1, <2>2 DEF TableInv, TableType, Erase, Restrict, Live
    <3>2. DOMAIN r.lookup \subseteq Key /\ r.lookup \in [DOMAIN r.lookup -> Handle]
      BY <2>1 DEF TableInv, TableType, Erase, Restrict
    <3>3. QED
      BY <2>1, <2>2, <3>1, <3>2 DEF TableInv, TableType
  <2>4. SoundLookup(r)
    BY <2>1, <2>2 DEF TableInv, SoundLookup, Erase, Restrict
  <2>5. ASSUME NEW g \in Live(r), Reaches(tb, g),
               Reaches(tb, h) \/ KeyOf(g) # KeyOf(h)
        PROVE  Reaches(r, g)
    <3>1. KeyOf(g) # KeyOf(h)
      BY <2>2, <2>5 DEF Reaches
    <3>2. QED
      BY <2>1, <2>5, <3>1 DEF Reaches, Erase, Restrict
  <2>6. ServerReachable(r)
    <3> SUFFICES ASSUME NEW g \in Live(r), g.initiator = "server"
                 PROVE  Reaches(r, g)
      BY DEF ServerReachable
    <3>1. Reaches(tb, g)
      BY <2>2 DEF TableInv, ServerReachable
    <3>2. CASE h.initiator = "server"
      BY <1>2, <2>5, <3>1, <3>2 DEF TableInv, ServerReachable
    <3>3. CASE h.initiator # "server"
      BY <2>5, <3>1, <3>3 DEF KeyOf
    <3>4. QED
      BY <3>2, <3>3
  <2>7. AllReachable(tb) => AllReachable(r)
    BY <1>2, <2>2, <2>5 DEF AllReachable
  <2>8. Older(r)
    BY <2>1, <2>2 DEF TableInv, Older
  <2>9. QED
    BY <2>1, <2>2, <2>3, <2>4, <2>6, <2>7, <2>8 DEF TableInv, Shrinks
<1>3. QED
  BY <1>1, <1>2

\* Setting one of the flags of a live transaction changes nothing else.
LEMMA SetFlagInv ==
    ASSUME NEW tb, TableInv(tb), NEW h \in Live(tb), NEW d \in Data
    PROVE  LET r == [tb EXCEPT !.transactions[h] = d]
           IN  /\ Shrinks(tb, r)
               /\ Live(r) = Live(tb)
               /\ r.transactions[h] = d
<1> DEFINE r == [tb EXCEPT !.transactions[h] = d]
<1>1. /\ DOMAIN r = DOMAIN tb
      /\ r.transactions = [tb.transactions EXCEPT ![h] = d]
      /\ r.lookup = tb.lookup
      /\ r.clientTransactions = tb.clientTransactions
      /\ r.transactionId = tb.transactionId
      /\ r.generationId = tb.generationId
  BY DEF TableInv, TableType
<1>2. Live(r) = Live(tb) /\ r.transactions[h] = d
  BY <1>1 DEF TableInv, TableType, Live
<1>3. TableType(r)
  BY <1>1, <1>2 DEF TableInv, TableType, Live
<1>4. SoundLookup(r) /\ ServerReachable(r) /\ Older(r)
  BY <1>1, <1>2 DEF TableInv, SoundLookup, ServerReachable, Reaches, Older
<1>5. AllReachable(tb) => AllReachable(r)
  BY <1>1, <1>2 DEF AllReachable, Reaches
<1>6. QED
  BY <1>1, <1>2, <1>3, <1>4, <1>5 DEF TableInv, Shrinks

LEMMA ShrinksTransitive ==
    ASSUME NEW a, NEW b, NEW c, Shrinks(a, b), Shrinks(b, c)
    PROVE  Shrinks(a, c)
BY DEF Shrinks

\* server_end_transaction and client_end_transaction.  The client's end alone
\* always removes the transaction, because of ended_by_both.
LEMMA ServerEndInv ==
    ASSUME NEW tb, TableInv(tb), NEW h \in Handle
    PROVE  Shrinks(tb, ServerEnd(tb, h))
<1>1. CASE h \notin Live(tb)
  BY <1>1 DEF ServerEnd, Shrinks
<1>2. CASE h \in Live(tb)
  <2> DEFINE d == [tb.transactions[h] EXCEPT !.server_has_sent_end = TRUE]
             m == [tb EXCEPT !.transactions[h] = d]
  <2>1. d \in Data
    BY <1>2 DEF TableInv, TableType, Data
  <2>2. Shrinks(tb, m)
    BY <1>2, <2>1, SetFlagInv
  <2>3. ServerEnd(tb, h) = RemoveTransaction(m, h)
    BY <1>2 DEF ServerEnd
  <2>4. Shrinks(m, RemoveTransaction(m, h))
    BY <2>2, RemoveTransactionInv DEF Shrinks
  <2>5. QED
    BY <2>2, <2>3, <2>4, ShrinksTransitive
<1>3. QED
  BY <1>1, <1>2

LEMMA ClientEndInv ==
    ASSUME NEW tb, TableInv(tb), NEW h \in Handle
    PROVE  Shrinks(tb, ClientEnd(tb, h)) /\ h \notin Live(ClientEnd(tb, h))
<1>1. CASE h \notin Live(tb)
  BY <1>1 DEF ClientEnd, Shrinks
<1>2. CASE h \in Live(tb)
  <2> DEFINE d == [tb.transactions[h] EXCEPT !.client_has_sent_end = TRUE]
             m == [tb EXCEPT !.transactions[h] = d]
  <2>1. d \in Data /\ d.client_has_sent_end
    BY <1>2 DEF TableInv, TableType, Data
  <2>2. Shrinks(tb, m) /\ h \in Live(m) /\ m.transactions[h] = d
    BY <1>2, <2>1, SetFlagInv
  <2>3. ClientEnd(tb, h) = RemoveTransaction(m, h)
    BY <1>2 DEF ClientEnd
  <2>4. Removable(m.transactions[h])
    BY <2>1, <2>2 DEF Removable
  <2>5. /\ Shrinks(m, RemoveTransaction(m, h))
        /\ h \notin Live(RemoveTransaction(m, h))
    BY <2>2, <2>4, RemoveTransactionInv DEF Shrinks
  <2>6. QED
    BY <2>2, <2>3, <2>5, ShrinksTransitive
<1>3. QED
  BY <1>1, <1>2

\* allocate_transaction gives out a number in range, whatever is in use.
LEMMA AllocateType ==
    ASSUME NEW tb, TableType(tb), CanAllocate(tb)
    PROVE  /\ Allocate(tb) \in Handle
           /\ Allocate(tb).generation = tb.generationId
           /\ Allocate(tb).initiator = "target"
<1> DEFINE S == Offsets(tb)
           Least(i) == i \in S /\ \A j \in S : i <= j
<1>1. S \subseteq Nat /\ S # {}
  BY NumIdsAssumption DEF Offsets, CanAllocate
<1>2. \E i \in S : \A j \in S : ~(<<j, i>> \in OpToRel(<, Nat))
  <2> HIDE DEF S
  <2> QED BY <1>1, NatLessThanWellFounded, WFMin
<1>3. \E i \in S : \A j \in S : i <= j
  <2>1. PICK i \in S : \A j \in S : ~(<<j, i>> \in OpToRel(<, Nat))
    BY <1>2
  <2>2. \A j \in S : ~(j < i)
    <3> HIDE DEF S
    <3> QED BY <1>1, <2>1 DEF OpToRel
  <2> QED BY <1>1, <2>2
<1>4. PICK i \in S : i = CHOOSE k \in S : \A j \in S : k <= j
  BY <1>3
<1>5. (tb.transactionId + i) % NumIds \in Ids
  BY <1>1, NumIdsAssumption DEF TableType, Ids
<1>6. QED
  BY <1>4, <1>5 DEF Allocate, Handle, Initiators, TableType

LEMMA CreateTransactionInv ==
    ASSUME NEW tb, TableInv(tb), CanAllocate(tb), NEW sse \in BOOLEAN
    PROVE  LET r == CreateTransaction(tb, sse)
           IN  /\ TableInv(r)
               /\ Live(r) = Live(tb) \cup {Allocate(tb)}
               /\ r.generationId = tb.generationId + 1
               /\ Reaches(r, Allocate(tb))
               /\ \A g \in Live(tb) : Reaches(tb, g) /\ KeyOf(g) # KeyOf(Allocate(tb))
                                     => Reaches(r, g)
<1> DEFINE h == Allocate(tb)
           m == [tb EXCEPT !.transactionId = (h.id + 1) % NumIds,
                           !.generationId  = @ + 1]
           r == AddTransaction(m, h, sse)
<1>1. /\ h \in Handle
      /\ h.generation = tb.generationId
      /\ h.initiator = "target"
  BY AllocateType DEF TableInv
<1>2. /\ DOMAIN m = DOMAIN tb
      /\ m.transactions = tb.transactions
      /\ m.lookup = tb.lookup
      /\ m.clientTransactions = tb.clientTransactions
      /\ m.transactionId = (h.id + 1) % NumIds
      /\ m.generationId = tb.generationId + 1
  BY DEF TableInv, TableType
<1>3. (h.id + 1) % NumIds \in Ids /\ tb.generationId + 1 \in Nat
  BY <1>1, NumIdsAssumption DEF Handle, Ids, TableInv, TableType
<1>4. TableInv(m) /\ Live(m) = Live(tb)
  <2>1. Live(m) = Live(tb)
    BY <1>2 DEF Live
  <2>2. TableType(m)
    BY <1>2, <1>3, <2>1 DEF TableInv, TableType
  <2>3. SoundLookup(m) /\ ServerReachable(m)
    BY <1>2, <2>1 DEF TableInv, SoundLookup, ServerReachable, Reaches
  <2>4. Older(m)
    BY <1>2, <2>1 DEF TableInv, TableType, Older, Handle
  <2>5. QED
    BY <2>1, <2>2, <2>3, <2>4 DEF TableInv
<1>5. h.generation < m.generationId
  BY <1>1, <1>2 DEF TableInv, TableType
<1>6. TableInv(r) /\ Live(r) = Live(tb) \cup {h}
  BY <1>1, <1>4, <1>5, AddTransactionInv
<1>7. h \notin Live(m)
  BY <1>1, <1>4 DEF TableInv, TableType, Older
<1>8. /\ r.generationId = tb.generationId + 1
      /\ r.lookup = Put(tb.lookup, KeyOf(h), h)
  BY <1>2, <1>7 DEF AddTransaction, TableInv, TableType
<1>9. /\ Reaches(r, h)
      /\ \A g \in Live(tb) : Reaches(tb, g) /\ KeyOf(g) # KeyOf(h) => Reaches(r, g)
  BY <1>8 DEF Reaches, Put
<1>10. CreateTransaction(tb, sse) = r
  BY DEF CreateTransaction
<1>11. QED
  BY <1>6, <1>8, <1>9, <1>10

\* The transaction a payload is delivered to: live, reachable, and either
\* there before or younger than every handle given out before.
LEMMA ResolveInv ==
    ASSUME NEW tb, TableInv(tb), NEW k \in Key,
           Found(tb, k) \/ k.initiator = "server"
    PROVE  LET r == Resolve(tb, k)
               h == r.lookup[k]
           IN  /\ TableInv(r)
               /\ h \in Live(r)
               /\ Live(r) = Live(tb) \cup {h}
               /\ h \in Live(tb) \/ h.generation = tb.generationId
               /\ r.generationId \in {tb.generationId, tb.generationId + 1}
               /\ h.generation < r.generationId
               /\ AllReachable(tb) => AllReachable(r)
<1>1. CASE Found(tb, k)
  <2>1. Resolve(tb, k) = tb
    BY <1>1 DEF Resolve
  <2>2. tb.lookup[k] \in Live(tb)
    BY <1>1 DEF Found
  <2>3. QED
    BY <2>1, <2>2 DEF TableInv, Older
<1>2. CASE ~Found(tb, k)
  <2> DEFINE h == NewServerHandle(tb, k)
             m == [tb EXCEPT !.generationId = @ + 1]
             r == AddTransaction(m, h, TRUE)
  <2>1. k.initiator = "server" /\ Resolve(tb, k) = r
    BY <1>2 DEF Resolve, Key, Initiators
  <2>2. k \notin DOMAIN tb.lookup
    BY <1>2 DEF Found, TableInv, SoundLookup
  <2>3. /\ h \in Handle
        /\ h.generation = tb.generationId
        /\ KeyOf(h) = k
    BY <2>1 DEF NewServerHandle, Handle, Key, KeyOf, TableInv, TableType
  <2>4. /\ DOMAIN m = DOMAIN tb
        /\ m.transactions = tb.transactions
        /\ m.lookup = tb.lookup
        /\ m.clientTransactions = tb.clientTransactions
        /\ m.transactionId = tb.transactionId
        /\ m.generationId = tb.generationId + 1
    BY DEF TableInv, TableType
  <2>5. TableInv(m) /\ Live(m) = Live(tb)
    <3>1. Live(m) = Live(tb)
      BY <2>4 DEF Live
    <3>2. TableType(m)
      BY <2>4, <3>1 DEF TableInv, TableType
    <3>3. SoundLookup(m) /\ ServerReachable(m)
      BY <2>4, <3>1 DEF TableInv, SoundLookup, ServerReachable, Reaches
    <3>4. Older(m)
      BY <2>4, <3>1 DEF TableInv, TableType, Older, Handle
    <3>5. QED
      BY <3>1, <3>2, <3>3, <3>4 DEF TableInv
  <2>6. h.generation < m.generationId
    BY <2>3, <2>4 DEF TableInv, TableType
  <2>7. KeyOf(h) \notin DOMAIN m.lookup
    BY <2>2, <2>3, <2>4
  <2>8. TableInv(r) /\ Live(r) = Live(tb) \cup {h}
    BY <2>3, <2>5, <2>6, <2>7, AddTransactionInv
  <2>9. h \notin Live(m)
    BY <2>3, <2>5 DEF TableInv, TableType, Older
  <2>10. /\ r.generationId = tb.generationId + 1
         /\ r.lookup = Put(tb.lookup, k, h)
    BY <2>3, <2>4, <2>9 DEF AddTransaction, TableInv, TableType
  <2>11. r.lookup[k] = h
    BY <2>10 DEF Put
  <2>12. AllReachable(tb) => AllReachable(r)
    BY <2>2, <2>3, <2>8, <2>10 DEF AllReachable, Reaches, Put
  <2>13. h.generation < r.generationId
    BY <2>4, <2>6, <2>10
  <2>14. QED
    BY <2>1, <2>3, <2>8, <2>10, <2>11, <2>12, <2>13
<1>3. QED
  BY <1>1, <1>2
============================================================================

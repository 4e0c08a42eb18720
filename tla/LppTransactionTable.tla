------------------------ MODULE LppTransactionTable ------------------------
(***************************************************************************)
(* The LPP transaction table of lpp::Session (dependency/lpp/session.cpp): *)
(* the maps mTransactions and mTransacionLookup, the set                   *)
(* mClientTransactions and the two counters they are fed from.  Only pure  *)
(* operators live here: each takes a table and returns the table the C++   *)
(* member function of the same name leaves behind, so that a handler that  *)
(* calls several of them is their composition.                             *)
(***************************************************************************)
EXTENDS Integers, Functions

CONSTANT NumIds         \* transaction numbers are 0 .. NumIds-1 (256 in LPP)

ASSUME NumIdsAssumption == NumIds \in Nat /\ NumIds >= 2

Initiators == {"target", "server"}
Ids        == 0 .. NumIds - 1

\* TransactionHandle: what the users of a session hold.  The generation is
\* local to the client and never travels.
Handle == [id : Ids, generation : Nat, initiator : Initiators]

\* TransactionLookup: what a message on the wire names.
Key == [id : Ids, initiator : Initiators]

KeyOfNumberOnly(h) == [id |-> h.id, initiator |-> "server"]       \* mutant
KeyOf(h) == [id |-> h.id, initiator |-> h.initiator]

\* TransactionData, without the copy of the handle.
Data == [single_side_endable    : BOOLEAN,
         client_should_send_end : BOOLEAN,
         client_has_sent_end    : BOOLEAN,
         server_has_sent_end    : BOOLEAN]

\* A finite map with an entry written, and with an entry erased.
Put(f, k, v) == [x \in DOMAIN f \cup {k} |-> IF x = k THEN v ELSE f[x]]
Erase(f, k)  == Restrict(f, DOMAIN f \ {k})

EmptyMap == [x \in {} |-> x]

NewTable == [transactions       |-> EmptyMap,
             lookup             |-> EmptyMap,
             clientTransactions |-> {},
             transactionId      |-> 1,
             generationId       |-> 1]

Live(tb) == DOMAIN tb.transactions

----------------------------------------------------------------------------

NewData(sse) == [single_side_endable    |-> sse,
                 client_should_send_end |-> FALSE,
                 client_has_sent_end    |-> FALSE,
                 server_has_sent_end    |-> FALSE]

\* Session::add_transaction.  An entry of the lookup for the same key is
\* overwritten, whatever it pointed to.
AddTransaction(tb, h, sse) ==
    IF h \in Live(tb)
    THEN tb
    ELSE [tb EXCEPT !.transactions = Put(@, h, NewData(sse)),
                    !.lookup       = Put(@, KeyOf(h), h)]

\* The condition of Session::remove_transaction: ended_by_both tests the
\* client's flag twice.
Removable(d) ==
    LET ended_by_both    == d.client_has_sent_end /\ d.client_has_sent_end
        ended_by_someone == d.client_has_sent_end \/ d.server_has_sent_end
    IN  ended_by_both \/ (d.single_side_endable /\ ended_by_someone)

\* Mutants of the next operator: the lookup entry is left behind, or the
\* entry of the other initiator goes, too.
RemoveTransactionLeavingLookup(tb, h) ==
    IF h \in Live(tb) /\ Removable(tb.transactions[h])
    THEN [tb EXCEPT !.transactions = Erase(@, h)]
    ELSE tb

RemoveTransactionByNumber(tb, h) ==
    IF h \in Live(tb) /\ Removable(tb.transactions[h])
    THEN [tb EXCEPT !.transactions = Erase(@, h),
                    !.lookup       = Restrict(@, {k \in DOMAIN @ : k.id # h.id})]
    ELSE tb

\* Session::remove_transaction.  The lookup entry goes with the transaction,
\* whichever transaction it points to.
RemoveTransaction(tb, h) ==
    IF h \in Live(tb) /\ Removable(tb.transactions[h])
    THEN [tb EXCEPT !.transactions       = Erase(@, h),
                    !.lookup             = Erase(@, KeyOf(h)),
                    !.clientTransactions = IF h.initiator = "target"
                                           THEN @ \ {h.id} ELSE @]
    ELSE tb

\* Session::server_end_transaction and Session::client_end_transaction.
ServerEnd(tb, h) ==
    IF h \in Live(tb)
    THEN RemoveTransaction(
            [tb EXCEPT !.transactions[h].server_has_sent_end = TRUE], h)
    ELSE tb

ClientEnd(tb, h) ==
    IF h \in Live(tb)
    THEN RemoveTransaction(
            [tb EXCEPT !.transactions[h].client_has_sent_end = TRUE], h)
    ELSE tb

\* Session::allocate_transaction: the first number from mTransactionId on that
\* is not in mClientTransactions, NumIds-1 numbers being tried.
Offsets(tb) == {i \in 0 .. NumIds - 2 :
                   (tb.transactionId + i) % NumIds \notin tb.clientTransactions}

CanAllocate(tb) == Offsets(tb) # {}

Allocate(tb) ==
    LET i == CHOOSE i \in Offsets(tb) : \A j \in Offsets(tb) : i <= j
    IN  [id         |-> (tb.transactionId + i) % NumIds,
         generation |-> tb.generationId,
         initiator  |-> "target"]

\* Mutants of the next operator: the number does not wrap, or the generation
\* does not move on.
CreateTransactionWithoutWrap(tb, sse) ==
    IF CanAllocate(tb)
    THEN LET h == Allocate(tb)
         IN  AddTransaction([tb EXCEPT !.transactionId = h.id + 1,
                                       !.generationId  = @ + 1], h, sse)
    ELSE tb

CreateTransactionSameGeneration(tb, sse) ==
    IF CanAllocate(tb)
    THEN LET h == Allocate(tb)
         IN  AddTransaction([tb EXCEPT !.transactionId = (h.id + 1) % NumIds], h, sse)
    ELSE tb

\* Session::create_transaction.
CreateTransaction(tb, sse) ==
    IF CanAllocate(tb)
    THEN LET h == Allocate(tb)
         IN  AddTransaction([tb EXCEPT !.transactionId = (h.id + 1) % NumIds,
                                       !.generationId  = @ + 1], h, sse)
    ELSE tb

\* Session::find_transaction(LPP_TransactionID): through the lookup and then
\* the table.
Found(tb, k) == k \in DOMAIN tb.lookup /\ tb.lookup[k] \in Live(tb)

\* The part of Session::process_lpp_payload that finds or makes the
\* transaction a payload belongs to: a server transaction that is not known
\* is added with a new generation, a client transaction is not.
NewServerHandle(tb, k) == [id         |-> k.id,
                           generation |-> tb.generationId,
                           initiator  |-> "server"]

Resolve(tb, k) ==
    IF Found(tb, k) \/ k.initiator = "target"
    THEN tb
    ELSE AddTransaction([tb EXCEPT !.generationId = @ + 1],
                        NewServerHandle(tb, k), TRUE)

----------------------------------------------------------------------------
(***************************************************************************)
(* What is said of a table.                                                *)
(***************************************************************************)

TableType(tb) ==
    /\ DOMAIN tb = {"transactions", "lookup", "clientTransactions",
                    "transactionId", "generationId"}
    /\ Live(tb) \subseteq Handle
    /\ tb.transactions \in [Live(tb) -> Data]
    /\ DOMAIN tb.lookup \subseteq Key
    /\ tb.lookup \in [DOMAIN tb.lookup -> Handle]
    /\ tb.clientTransactions \subseteq Ids
    /\ tb.transactionId \in Ids
    /\ tb.generationId \in Nat

\* A message that names the transaction h finds h.
Reaches(tb, h) == /\ KeyOf(h) \in DOMAIN tb.lookup
                  /\ tb.lookup[KeyOf(h)] = h

\* What the lookup holds for a key is a live transaction with that key.
SoundLookup(tb) ==
    \A k \in DOMAIN tb.lookup :
        tb.lookup[k] \in Live(tb) /\ KeyOf(tb.lookup[k]) = k

ServerReachable(tb) ==
    \A h \in Live(tb) : h.initiator = "server" => Reaches(tb, h)

AllReachable(tb) == \A h \in Live(tb) : Reaches(tb, h)
============================================================================

-------------------------- MODULE EventLoopProofs --------------------------
(***************************************************************************)
(* Proofs about EventLoop, for every set of tasks, every size of the pool  *)
(* of slots and every number of events per wait.  The invariant has a part *)
(* for the pool, which the lemmas about RegisterFd and Unregister keep, a  *)
(* part for the stack of what the thread is doing, and parts for the       *)
(* events and for the deferred calls, which refer to both.                 *)
(***************************************************************************)
EXTENDS EventLoop, FiniteSetTheorems, SequenceTheorems, WellFoundedInduction,
        TLAPS

----------------------------------------------------------------------------
(***************************************************************************)
(* The inductive invariant.                                                *)
(***************************************************************************)
Gens    == 0..(GenModulus - 1)
Handles == [slot : 0..NumSlots, gen : Gens]
SlotStates == [inUse : BOOLEAN, pending : BOOLEAN, gen : Gens,
               owner : Tasks \cup {NoTask}, reg : Nat]
Origins == {"event", "deferred"}
CancelCalls == [call : {"cancel"}, task : Timers, object : Nat, from : Origins]
UserCalls   == [call : {"user"}, task : {NoTask}, object : {0}, from : Origins]
Calls   == CancelCalls \cup UserCalls
Reports == [h : Handles, reg : Nat, depth : Nat]

SetupFrames    == [at : {"setup"}, left : SUBSET (Queues \cup Sources)]
LoopFrames     == [at : {"deferred"}, once : BOOLEAN, waited : BOOLEAN,
                   calls : Seq(Calls)]
WaitFrames     == [at : {"wait"}, once : BOOLEAN]
EventsFrames   == [at : {"events"}, once : BOOLEAN, next : Nat, last : Nat]
CallbackFrames == [at : {"callback"}, task : Tasks \cup {NoTask}, reg : Nat,
                   pops : Nat]
ReturnedFrames == [at : {"returned"}]
StackFrames == SetupFrames \cup LoopFrames \cup WaitFrames \cup EventsFrames
                 \cup CallbackFrames \cup ReturnedFrames

\* Every variable with the whole of its type.
LoopType ==
    /\ mode \in [perWait : Nat \ {0}, nests : BOOLEAN]
    /\ deferred \in Seq(Calls)
    /\ events \in Seq(Reports) /\ Len(events) <= EventCount
    /\ stack \in Seq(StackFrames)
    /\ ready \subseteq Timers \cup Sources
    /\ object \in [Timers -> [id : Nat, awaited : BOOLEAN]]
    /\ queue \in [Queues -> [size : 0..QueueSize, signal : Nat]]
    /\ interrupted \in BOOLEAN
    /\ steps \in 0..MaxSteps

PoolType(p) ==
    /\ p \in [slots : [Slots -> SlotStates], kernel : [Tasks -> Handles],
              count : Int]
    /\ \A s \in Slots : p.slots[s].inUse => /\ p.slots[s].gen # 0
                                            /\ ~p.slots[s].pending
                                            /\ p.slots[s].owner \in Tasks

InUse(p) == {s \in Slots : p.slots[s].inUse}

\* The pool, the interest list, the count and the handles hd agree.
PoolInv(p, hd) ==
    /\ PoolType(p) /\ hd \in [Tasks -> Handles]
    /\ p.kernel = hd
    /\ \A t \in Tasks : hd[t] # Invalid =>
          Live(p.slots, hd[t]) /\ p.slots[hd[t].slot].owner = t
    /\ \A s \in InUse(p) : hd[p.slots[s].owner].slot = s
    /\ p.count = Cardinality(InUse(p))

\* A loop, the callback of an event or of a deferred call, a loop nested in
\* it, and so on; only the outermost loop is that of execute().  n is how many
\* events mEvents has, nests whether callbacks nest loops.
Shape(st, n, nests) ==
    \A i \in 1..Len(st) :
        /\ st[i].at = "callback" => /\ i > 1 /\ st[i - 1].at \in {"deferred", "events"}
                                    /\ st[i].pops > 0 => st[i].task \in Queues
                                    /\ st[i - 1].at = "deferred" => st[i].task = NoTask
        /\ st[i].at # "callback" => i = 1 \/ (nests /\ st[i - 1].at = "callback")
        /\ st[i].at \in {"deferred", "wait", "events"} => st[i].once = (i # 1)
        /\ st[i].at \in {"setup", "returned"} => Len(st) = 1
        /\ st[i].at = "wait" => i = Len(st)
        /\ st[i].at = "events" => st[i].next >= 1 /\ st[i].last <= n

StackShape == stack # <<>> /\ Shape(stack, Len(events), mode.nests)

\* Until it is set up nothing has happened yet, and what is left to be set up
\* has not been registered.
SetupInv ==
    stack[1].at = "setup" => /\ events = <<>> /\ deferred = <<>>
                             /\ \A t \in stack[1].left : handle[t] = Invalid

\* A slot has been registered fewer times since an event was reported than
\* there are generations: it has the registration of the event, or another
\* generation.
Few == MaxSteps < GenModulus - 1

Since(slots, e, k) ==
    /\ slots[e.h.slot].gen \in {e.h.gen + k, e.h.gen + k - (GenModulus - 1)}
    /\ k = 0 => slots[e.h.slot].reg = e.reg

EventsInv ==
    \A j \in 1..Len(events) :
        /\ events[j].h.slot \in Slots /\ events[j].h.gen # 0
        /\ \E k \in 0..steps : Since(pool, events[j], k)

\* Where no loop is nested in a batch, the events of a batch are those of the
\* loop's own wait.
BatchInv ==
    /\ ~mode.nests => \A j \in 1..Len(events) : events[j].depth = 1
    /\ mode.perWait = 1 =>
         \A i \in 1..Len(stack) : stack[i].at = "events" =>
            /\ stack[i].last <= 1
            /\ stack[i].next <= stack[i].last =>
                 i = Len(stack) /\ events[1].depth = i

\* At the outermost loop what the callbacks of events deferred has been taken.
DeferredInv ==
    stack[1].at \in {"deferred", "wait"} =>
        \A i \in 1..Len(deferred) : deferred[i].from = "deferred"

\* With one event per wait, a deferred cancel waits for the end of its batch,
\* and then for the calls before it, which are no callbacks of events.
CancelsInv ==
    mode.perWait = 1 =>
        /\ \A j \in 1..Len(deferred) : deferred[j].call = "cancel" =>
              /\ Top.at = "events" /\ Top.next > Top.last
              /\ deferred[j].object = object[deferred[j].task].id
        /\ \A i \in 1..Len(stack) : stack[i].at = "deferred" =>
              \A j \in 1..Len(stack[i].calls) : stack[i].calls[j].call = "cancel" =>
                 /\ \/ i = Len(stack)
                    \/ i = Len(stack) - 1 /\ Top.task = NoTask
                 /\ stack[i].calls[j].object = object[stack[i].calls[j].task].id

IInv ==
    /\ LoopType /\ PoolInv(Pool, handle) /\ StackShape /\ SetupInv
    /\ Few => EventsInv
    /\ BatchInv /\ DeferredInv /\ CancelsInv

----------------------------------------------------------------------------
(***************************************************************************)
(* The pool of slots.                                                      *)
(***************************************************************************)

\* Induction over a set of numbers.
LEMMA Induction ==
    ASSUME NEW S, 0 \in S, \A n \in Nat : n \in S => n + 1 \in S
    PROVE  Nat \subseteq S
<1> DEFINE T == Nat \ S
<1> SUFFICES ASSUME T # {} PROVE FALSE
  OBVIOUS
<1>1. T \subseteq Nat
  OBVIOUS
<1>2. PICK i \in T : \A j \in T : ~(<<j, i>> \in OpToRel(<, Nat))
  <2> HIDE DEF T
  <2> QED BY <1>1, NatLessThanWellFounded, WFMin
<1>3. i \in Nat /\ i # 0 /\ i - 1 \in Nat
  OBVIOUS
<1>4. i - 1 \notin T
  <2>1. <<i - 1, i>> \in OpToRel(<, Nat)
    BY <1>3 DEF OpToRel
  <2>2. QED
    BY <1>2, <2>1
<1>5. (i - 1) + 1 \in S
  BY <1>3, <1>4
<1>6. QED
  BY <1>3, <1>5

\* Generations count from 1, past the last one from 1 again.
LEMMA NextGenValue ==
    ASSUME NEW g \in Gens
    PROVE  /\ NextGen(g) \in Gens \ {0}
           /\ NextGen(g) = IF g = GenModulus - 1 THEN 1 ELSE g + 1
<1>1. GenModulus \in Nat /\ GenModulus > 1
  BY EventLoopAssumption
<1>2. CASE g = GenModulus - 1
  <2>1. (g + 1) % GenModulus = 0
    BY <1>1, <1>2
  <2>2. QED
    BY <1>1, <1>2, <2>1 DEF NextGen, Gens
<1>3. CASE g # GenModulus - 1
  <2>1. (g + 1) % GenModulus = g + 1
    BY <1>1, <1>3 DEF Gens
  <2>2. QED
    BY <1>1, <1>3, <2>1 DEF NextGen, Gens
<1>4. QED
  BY <1>2, <1>3

\* The ghost that numbers registrations counts.
LEMMA NewRegType ==
    ASSUME NEW p, PoolType(p)
    PROVE  NewReg(p) \in Nat
<1>1. NumSlots \in Nat \ {0} /\ \A s \in Slots : p.slots[s].reg \in Nat
  BY EventLoopAssumption DEF PoolType, SlotStates
<1> DEFINE Largest(s, n) == s \in 1..n /\ \A u \in 1..n : p.slots[u].reg <= p.slots[s].reg
           Have == {n \in Nat : n = 0 \/ n > NumSlots \/ \E s \in 1..n : Largest(s, n)}
<1>2. 0 \in Have
  OBVIOUS
<1>3. ASSUME NEW n \in Nat, n \in Have
      PROVE  n + 1 \in Have
  <2> SUFFICES ASSUME n + 1 <= NumSlots PROVE \E s \in 1..(n + 1) : Largest(s, n + 1)
    BY <1>1
  <2>1. \A u \in 1..(n + 1) : p.slots[u].reg \in Nat
    BY <1>1 DEF Slots
  <2>2. CASE n = 0
    <3>1. Largest(1, n + 1)
      BY <2>1, <2>2
    <3>2. QED
      BY <3>1
  <2>3. CASE n # 0
    <3>1. PICK s \in 1..n : Largest(s, n)
      BY <1>1, <1>3, <2>3
    <3>2. CASE p.slots[n + 1].reg <= p.slots[s].reg
      <4>1. Largest(s, n + 1)
        BY <2>1, <3>1, <3>2
      <4>2. QED
        BY <4>1
    <3>3. CASE ~(p.slots[n + 1].reg <= p.slots[s].reg)
      <4>1. Largest(n + 1, n + 1)
        BY <2>1, <3>1, <3>3
      <4>2. QED
        BY <4>1
    <3>4. QED
      BY <3>2, <3>3
  <2>4. QED
    BY <2>2, <2>3
<1>4. PICK s \in Slots : \A u \in Slots : p.slots[u].reg <= p.slots[s].reg
  <2>1. Nat \subseteq Have
    <3> HIDE DEF Have
    <3> QED BY <1>2, <1>3, Induction
  <2>2. NumSlots \in Have
    BY <1>1, <2>1
  <2>3. QED
    BY <1>1, <2>2 DEF Slots
<1>5. \E r \in Registrations(p) : \A q \in Registrations(p) : q <= r
  BY <1>4 DEF Registrations
<1>6. Registrations(p) \subseteq Nat
  BY <1>1 DEF Registrations
<1>7. QED
  BY <1>5, <1>6 DEF NewReg

\* The slots in use are finitely many, and at most all of them.
LEMMA InUseFinite ==
    ASSUME NEW p
    PROVE  /\ IsFiniteSet(InUse(p))
           /\ Cardinality(InUse(p)) \in 0..NumSlots
<1>1. IsFiniteSet(Slots) /\ Cardinality(Slots) = NumSlots
  BY EventLoopAssumption, FS_Interval DEF Slots
<1>2. InUse(p) \in SUBSET Slots
  BY DEF InUse
<1>3. IsFiniteSet(InUse(p)) /\ Cardinality(InUse(p)) <= NumSlots
  BY <1>1, <1>2, FS_Subset
<1>4. QED
  BY <1>3, FS_CardinalityType, EventLoopAssumption

\* The first of the free slots.
LEMMA FirstFree ==
    ASSUME NEW p, FreeSlots(p) # {}
    PROVE  (CHOOSE x \in FreeSlots(p) : \A y \in FreeSlots(p) : x <= y) \in FreeSlots(p)
<1> DEFINE F == FreeSlots(p)
<1>1. F \subseteq Nat
  BY EventLoopAssumption DEF FreeSlots, Slots
<1>2. PICK x \in F : \A y \in F : ~(<<y, x>> \in OpToRel(<, Nat))
  <2> HIDE DEF F
  <2> QED BY <1>1, NatLessThanWellFounded, WFMin DEF F
<1>3. ASSUME NEW y \in F PROVE x <= y
  <2>1. x \in Nat /\ y \in Nat
    BY <1>1
  <2>2. ~(y < x)
    BY <1>2, <2>1 DEF OpToRel
  <2>3. QED
    BY <2>1, <2>2
<1>4. QED
  BY <1>2, <1>3

\* What may happen to the generation and the registration of a slot: nothing,
\* but that its task gives it up, or the next generation.
Same(p, r, s) ==
    /\ r.slots[s].gen = p.slots[s].gen
    /\ r.slots[s].reg = p.slots[s].reg
    /\ r.slots[s].inUse => p.slots[s].inUse /\ r.slots[s].owner = p.slots[s].owner

Kept(p, r) == \A s \in Slots : Same(p, r, s)
Aged(p, r) == \A s \in Slots : \/ Same(p, r, s)
                               \/ r.slots[s].gen = NextGen(p.slots[s].gen)

\* A free slot is taken for a task that had none.
Taken(p, t, s, g, n) ==
    [slots  |-> [p.slots EXCEPT ![s] = [inUse |-> TRUE, pending |-> FALSE,
                                        gen |-> g, owner |-> t, reg |-> n]],
     kernel |-> [p.kernel EXCEPT ![t] = [slot |-> s, gen |-> g]],
     count  |-> p.count + 1]

LEMMA TakenInv ==
    ASSUME NEW p, NEW hd, PoolInv(p, hd), NEW t \in Tasks, hd[t] = Invalid,
           NEW s \in FreeSlots(p), NEW g \in Gens \ {0}, NEW n \in Nat
    PROVE  PoolInv(Taken(p, t, s, g, n), [hd EXCEPT ![t] = [slot |-> s, gen |-> g]])
<1> DEFINE r == Taken(p, t, s, g, n)
           h == [slot |-> s, gen |-> g]
           hd2 == [hd EXCEPT ![t] = h]
<1>1. s \in Slots /\ ~p.slots[s].inUse /\ h \in Handles /\ h # Invalid
  BY EventLoopAssumption DEF FreeSlots, Handles, Slots, Invalid
<1>2. /\ r.slots = [p.slots EXCEPT ![s] = [inUse |-> TRUE, pending |-> FALSE,
                                           gen |-> g, owner |-> t, reg |-> n]]
      /\ r.kernel = [p.kernel EXCEPT ![t] = h] /\ r.count = p.count + 1
  BY DEF Taken
<1>3. r.slots \in [Slots -> SlotStates] /\ r.kernel \in [Tasks -> Handles] /\ r.count \in Int
  BY <1>1, <1>2 DEF PoolInv, PoolType, SlotStates
<1>4. PoolType(r)
  <2>1. r \in [slots : [Slots -> SlotStates], kernel : [Tasks -> Handles], count : Int]
    BY <1>3 DEF Taken
  <2>2. ASSUME NEW u \in Slots, r.slots[u].inUse
        PROVE  r.slots[u].gen # 0 /\ ~r.slots[u].pending /\ r.slots[u].owner \in Tasks
    BY <1>1, <1>2, <2>2 DEF PoolInv, PoolType
  <2> HIDE DEF r
  <2>3. QED
    BY <2>1, <2>2 DEF PoolType
<1>5. hd2 \in [Tasks -> Handles] /\ r.kernel = hd2
  BY <1>1, <1>2 DEF PoolInv
<1>6. ASSUME NEW v \in Tasks, hd2[v] # Invalid
      PROVE  Live(r.slots, hd2[v]) /\ r.slots[hd2[v].slot].owner = v
  <2>1. CASE v = t
    BY <1>1, <1>2, <2>1 DEF PoolInv, PoolType, Live
  <2>2. CASE v # t
    BY <1>1, <1>2, <1>6, <2>2 DEF PoolInv, PoolType, Live
  <2>3. QED
    BY <2>1, <2>2
<1>7. InUse(r) = InUse(p) \cup {s} /\ s \notin InUse(p)
  BY <1>1, <1>2 DEF InUse, PoolInv, PoolType
<1>8. ASSUME NEW u \in InUse(r)
      PROVE  hd2[r.slots[u].owner].slot = u
  <2>1. CASE u = s
    BY <1>1, <1>2, <2>1 DEF PoolInv, PoolType
  <2>2. CASE u # s
    <3>1. u \in InUse(p) /\ r.slots[u] = p.slots[u]
      BY <1>1, <1>2, <1>7, <2>2 DEF InUse, PoolInv, PoolType
    <3>2. p.slots[u].owner \in Tasks /\ hd[p.slots[u].owner].slot = u
      BY <3>1 DEF InUse, PoolInv, PoolType
    <3>3. p.slots[u].owner # t
      BY <3>1, <3>2 DEF InUse, Invalid, Slots
    <3>4. QED
      BY <3>1, <3>2, <3>3 DEF PoolInv
  <2>3. QED
    BY <2>1, <2>2
<1>9. r.count = Cardinality(InUse(r))
  <2>1. Cardinality(InUse(p) \cup {s}) = Cardinality(InUse(p)) + 1
    BY <1>7, InUseFinite, FS_AddElement
  <2>2. p.count = Cardinality(InUse(p))
    BY DEF PoolInv
  <2> HIDE DEF r
  <2>3. QED
    BY <1>2, <1>7, <2>1, <2>2
<1> HIDE DEF r, hd2
<1>10. QED
  BY <1>4, <1>5, <1>6, <1>8, <1>9 DEF PoolInv, r, hd2, h

\* A free slot may change what it keeps, and stay free.
LEMMA SkippedInv ==
    ASSUME NEW p, NEW hd, PoolInv(p, hd), NEW s \in FreeSlots(p),
           NEW d \in SlotStates, ~d.inUse
    PROVE  PoolInv([p EXCEPT !.slots[s] = d], hd)
<1> DEFINE r == [p EXCEPT !.slots[s] = d]
<1>1. /\ r.slots = [p.slots EXCEPT ![s] = d]
      /\ r.kernel = p.kernel /\ r.count = p.count
      /\ r \in [slots : [Slots -> SlotStates], kernel : [Tasks -> Handles], count : Int]
  BY DEF PoolInv, PoolType, FreeSlots
<1>2. s \in Slots /\ ~p.slots[s].inUse
  BY DEF FreeSlots
<1> HIDE DEF r
<1>3. PoolType(r)
  BY <1>1, <1>2 DEF PoolInv, PoolType
<1>4. InUse(r) = InUse(p)
  BY <1>1, <1>2 DEF InUse, PoolInv, PoolType
<1>5. \A u \in InUse(p) : r.slots[u] = p.slots[u]
  BY <1>1, <1>2 DEF InUse, PoolInv, PoolType
<1>6. ASSUME NEW v \in Tasks, hd[v] # Invalid
      PROVE  Live(r.slots, hd[v]) /\ r.slots[hd[v].slot].owner = v
  <2>1. hd[v].slot \in InUse(p)
    BY <1>6 DEF PoolInv, Live, InUse
  <2>2. QED
    BY <1>5, <1>6, <2>1 DEF PoolInv, Live
<1>7. \A u \in InUse(r) : hd[r.slots[u].owner].slot = u
  BY <1>4, <1>5 DEF PoolInv
<1>8. QED
  BY <1>1, <1>3, <1>4, <1>6, <1>7 DEF PoolInv, r

\* A slot is given up by its task.
LEMMA ReleasedInv ==
    ASSUME NEW p, NEW hd, PoolInv(p, hd), NEW t \in Tasks
    PROVE  /\ PoolInv(Unregister(p, hd[t]), [hd EXCEPT ![t] = Invalid])
           /\ Kept(p, Unregister(p, hd[t]))
           /\ \A s \in FreeSlots(p) : /\ s \in FreeSlots(Unregister(p, hd[t]))
                                      /\ Unregister(p, hd[t]).slots[s] = p.slots[s]
<1> DEFINE r == Unregister(p, hd[t])
           hd2 == [hd EXCEPT ![t] = Invalid]
           o == hd[t].slot
<1>1. CASE hd[t] = Invalid
  <2>1. r = p
    BY <1>1 DEF Unregister, Live, Invalid, Slots
  <2>2. hd2 = hd
    BY <1>1 DEF PoolInv
  <2>3. QED
    BY <2>1, <2>2 DEF Kept, Same
<1>2. CASE hd[t] # Invalid
  <2>1. Live(p.slots, hd[t]) /\ p.slots[o].owner = t /\ o \in Slots /\ p.slots[o].inUse
    BY <1>2 DEF PoolInv, Live
  <2>2. /\ r = [slots  |-> [p.slots EXCEPT ![o].inUse = FALSE, ![o].pending = TRUE],
                kernel |-> [p.kernel EXCEPT ![t] = Invalid],
                count  |-> p.count - 1]
    BY <2>1 DEF Unregister
  <2>3. /\ \A s \in Slots : s # o => r.slots[s] = p.slots[s]
        /\ r.slots[o].inUse = FALSE /\ r.slots[o].pending = TRUE
        /\ r.slots[o].gen = p.slots[o].gen /\ r.slots[o].reg = p.slots[o].reg
        /\ r.kernel = [p.kernel EXCEPT ![t] = Invalid] /\ r.count = p.count - 1
    BY <2>1, <2>2 DEF PoolInv, PoolType, SlotStates
  <2>4. r \in [slots : [Slots -> SlotStates], kernel : [Tasks -> Handles], count : Int]
    <3>1. Invalid \in Handles
      BY EventLoopAssumption DEF Invalid, Handles, Gens
    <3>2. QED
      BY <2>1, <2>2, <3>1 DEF PoolInv, PoolType, SlotStates
  <2> HIDE DEF r
  <2>5. PoolType(r)
    BY <2>3, <2>4 DEF PoolInv, PoolType
  <2>6. InUse(r) = InUse(p) \ {o} /\ o \in InUse(p)
    BY <2>1, <2>3 DEF InUse
  <2>7. hd2 \in [Tasks -> Handles] /\ r.kernel = hd2
    <3>1. Invalid \in Handles
      BY EventLoopAssumption DEF Invalid, Handles, Gens
    <3>2. QED
      BY <2>3, <3>1 DEF PoolInv
  <2>8. ASSUME NEW v \in Tasks, hd2[v] # Invalid
        PROVE  Live(r.slots, hd2[v]) /\ r.slots[hd2[v].slot].owner = v
    <3>1. v # t /\ hd2[v] = hd[v]
      BY <2>8 DEF PoolInv
    <3>2. Live(p.slots, hd[v]) /\ p.slots[hd[v].slot].owner = v
      BY <2>8, <3>1 DEF PoolInv
    <3>3. hd[v].slot # o
      BY <2>1, <3>1, <3>2
    <3>4. QED
      BY <2>3, <3>1, <3>2, <3>3 DEF Live
  <2>9. ASSUME NEW u \in InUse(r)
        PROVE  hd2[r.slots[u].owner].slot = u
    <3>1. u \in InUse(p) /\ u # o /\ r.slots[u] = p.slots[u] /\ u \in Slots
      BY <2>3, <2>6, <2>9 DEF InUse
    <3>2. p.slots[u].owner \in Tasks /\ hd[p.slots[u].owner].slot = u
      BY <3>1 DEF InUse, PoolInv, PoolType
    <3>3. p.slots[u].owner # t
      BY <3>1, <3>2
    <3>4. QED
      BY <3>1, <3>2, <3>3 DEF PoolInv
  <2>10. r.count = Cardinality(InUse(r))
    <3>1. Cardinality(InUse(p) \ {o}) = Cardinality(InUse(p)) - 1
      BY <2>6, InUseFinite, FS_RemoveElement
    <3>2. p.count = Cardinality(InUse(p))
      BY DEF PoolInv
    <3>3. QED
      BY <2>3, <2>6, <3>1, <3>2
  <2>11. PoolInv(r, hd2)
    <3> HIDE DEF hd2
    <3> QED BY <2>5, <2>7, <2>8, <2>9, <2>10 DEF PoolInv
  <2>12. Kept(p, r)
    BY <2>3 DEF Kept, Same
  <2>13. \A s \in FreeSlots(p) : s \in FreeSlots(r) /\ r.slots[s] = p.slots[s]
    BY <2>1, <2>3 DEF FreeSlots
  <2>14. QED
    BY <2>11, <2>12, <2>13 DEF r
<1>3. QED
  BY <1>1, <1>2

\* process_deferred frees the slots that wait for it.
LEMMA ReclaimedInv ==
    ASSUME NEW hd, PoolInv(Pool, hd)
    PROVE  /\ PoolInv([Pool EXCEPT !.slots = Reclaimed(pool)], hd)
           /\ Kept(Pool, [Pool EXCEPT !.slots = Reclaimed(pool)])
<1> DEFINE r == [Pool EXCEPT !.slots = Reclaimed(pool)]
<1>1. /\ r = [slots |-> Reclaimed(pool), kernel |-> kernel, count |-> count]
      /\ Pool.slots = pool /\ Pool.kernel = kernel /\ Pool.count = count
  BY DEF Pool
<1> HIDE DEF r
<1>2. pool \in [Slots -> SlotStates]
  BY <1>1 DEF PoolInv, PoolType
<1>3. ASSUME NEW s \in Slots
      PROVE  IF pool[s].pending
             THEN /\ r.slots[s] \in SlotStates
                  /\ r.slots[s].inUse = pool[s].inUse
                  /\ r.slots[s].gen = pool[s].gen
                  /\ r.slots[s].reg = pool[s].reg
             ELSE r.slots[s] = pool[s]
  <2>1. r.slots[s] = IF pool[s].pending
                     THEN [pool[s] EXCEPT !.pending = FALSE, !.owner = NoTask]
                     ELSE pool[s]
    BY <1>1 DEF Reclaimed
  <2>2. pool[s] \in SlotStates
    BY <1>2
  <2>3. QED
    BY <2>1, <2>2 DEF SlotStates
<1>4. r.slots \in [Slots -> SlotStates]
  <2>1. \A s \in Slots : r.slots[s] \in SlotStates
    BY <1>2, <1>3
  <2>2. r.slots = [s \in Slots |-> r.slots[s]]
    BY <1>1 DEF Reclaimed
  <2>3. QED
    BY <2>1, <2>2
<1>5. r \in [slots : [Slots -> SlotStates], kernel : [Tasks -> Handles], count : Int]
  BY <1>1, <1>4 DEF PoolInv, PoolType
<1>6. \A s \in Slots : pool[s].inUse => ~pool[s].pending
  BY <1>1 DEF PoolInv, PoolType
<1>7. PoolType(r)
  BY <1>1, <1>3, <1>5, <1>6 DEF PoolInv, PoolType
<1>8. InUse(r) = InUse(Pool) /\ \A s \in InUse(Pool) : r.slots[s] = pool[s]
  BY <1>1, <1>3, <1>6 DEF InUse
<1>9. \A v \in Tasks : hd[v] # Invalid =>
          Live(r.slots, hd[v]) /\ r.slots[hd[v].slot].owner = v
  <2> SUFFICES ASSUME NEW v \in Tasks, hd[v] # Invalid
               PROVE  Live(r.slots, hd[v]) /\ r.slots[hd[v].slot].owner = v
    OBVIOUS
  <2>1. Live(pool, hd[v]) /\ pool[hd[v].slot].owner = v
    BY <1>1 DEF PoolInv
  <2>2. hd[v].slot \in InUse(Pool)
    BY <1>1, <2>1 DEF Live, InUse
  <2>3. QED
    BY <1>8, <2>1, <2>2 DEF Live
<1>10. \A s \in InUse(r) : hd[r.slots[s].owner].slot = s
  BY <1>1, <1>8 DEF PoolInv
<1>11. PoolInv(r, hd)
  BY <1>1, <1>7, <1>8, <1>9, <1>10 DEF PoolInv
<1>12. Kept(Pool, r)
  BY <1>1, <1>3, <1>6 DEF Kept, Same
<1>13. QED
  BY <1>11, <1>12 DEF r

\* register_fd of a task that has no event.
LEMMA RegisteredInv ==
    ASSUME NEW p, NEW hd, PoolInv(p, hd), NEW t \in Tasks, hd[t] = Invalid,
           NEW fails \in BOOLEAN
    PROVE  LET r == RegisterFd(p, t, fails)
           IN  /\ PoolInv(r.pool, [hd EXCEPT ![t] = r.handle])
               /\ Aged(p, r.pool)
<1> DEFINE r == RegisterFd(p, t, fails)
           s == CHOOSE x \in FreeSlots(p) : \A y \in FreeSlots(p) : x <= y
           g == NextGen(p.slots[s].gen)
           d == [FreeSlot(g) EXCEPT !.reg = p.slots[s].reg]
<1>1. [hd EXCEPT ![t] = Invalid] = hd
  BY DEF PoolInv
<1>2. CASE FreeSlots(p) = {}
  <2>1. r = [pool |-> p, handle |-> Invalid]
    BY <1>2 DEF RegisterFd
  <2> HIDE DEF r
  <2>2. PoolInv(r.pool, [hd EXCEPT ![t] = r.handle]) /\ Aged(p, r.pool)
    BY <1>1, <2>1 DEF Aged, Same
  <2>3. QED
    BY <2>2 DEF r
<1>3. CASE FreeSlots(p) # {}
  <2>1. s \in FreeSlots(p)
    BY <1>3, FirstFree
  <2> HIDE DEF s
  <2>2. s \in Slots /\ p.slots[s] \in SlotStates
    BY <2>1 DEF FreeSlots, PoolInv, PoolType
  <2>3. g \in Gens \ {0}
    BY <2>2, NextGenValue DEF SlotStates
  <2>4. p.slots \in [Slots -> SlotStates] /\ p \in [slots : [Slots -> SlotStates],
                                                    kernel : [Tasks -> Handles], count : Int]
    BY DEF PoolInv, PoolType
  <2>5. CASE fails
    <3>1. r = [pool |-> [p EXCEPT !.slots[s] = d], handle |-> Invalid]
      BY <1>3, <2>5 DEF RegisterFd, s
    <3>2. d \in SlotStates /\ ~d.inUse /\ d.gen = g
      BY <2>2, <2>3 DEF FreeSlot, SlotStates
    <3> HIDE DEF r, d
    <3>3. PoolInv(r.pool, hd)
      BY <2>1, <3>1, <3>2, SkippedInv
    <3>4. Aged(p, r.pool)
      BY <2>2, <2>4, <3>1, <3>2 DEF Aged, Same
    <3>5. QED
      BY <1>1, <3>1, <3>3, <3>4 DEF r
  <2>6. CASE ~fails
    <3>1. p.kernel[t] = Invalid
      BY DEF PoolInv
    <3>2. r = [pool |-> Taken(p, t, s, g, NewReg(p)), handle |-> [slot |-> s, gen |-> g]]
      BY <1>3, <2>6, <3>1 DEF RegisterFd, Taken, s
    <3>3. NewReg(p) \in Nat
      BY NewRegType DEF PoolInv
    <3> HIDE DEF r, g
    <3>4. PoolInv(r.pool, [hd EXCEPT ![t] = r.handle])
      BY <2>1, <2>3, <3>2, <3>3, TakenInv
    <3>5. Aged(p, r.pool)
      BY <2>2, <2>4, <3>2 DEF Aged, Same, Taken, g
    <3>6. QED
      BY <3>4, <3>5 DEF r
  <2>7. QED
    BY <2>5, <2>6
<1>4. QED
  BY <1>2, <1>3

\* schedule_triggered_request: the descriptor of the new TimeoutTask is
\* registered before the destructor of the old one gives up its event.
LEMMA ReplacedInv ==
    ASSUME NEW p, NEW hd, PoolInv(p, hd), NEW t \in Tasks
    PROVE  LET r == RegisterFd([p EXCEPT !.kernel[t] = Invalid], t, FALSE)
               u == [Unregister(r.pool, hd[t]) EXCEPT !.kernel[t] = r.handle]
           IN  /\ PoolInv(u, [hd EXCEPT ![t] = r.handle])
               /\ Aged(p, u)
<1> DEFINE q == [p EXCEPT !.kernel[t] = Invalid]
           r == RegisterFd(q, t, FALSE)
           u == [Unregister(r.pool, hd[t]) EXCEPT !.kernel[t] = r.handle]
           v == Unregister(p, hd[t])
           hd1 == [hd EXCEPT ![t] = Invalid]
           s == CHOOSE x \in FreeSlots(p) : \A y \in FreeSlots(p) : x <= y
           g == NextGen(p.slots[s].gen)
<1>1. PoolInv(v, hd1) /\ Kept(p, v)
      /\ \A x \in FreeSlots(p) : x \in FreeSlots(v) /\ v.slots[x] = p.slots[x]
  BY ReleasedInv
<1>2. /\ p \in [slots : [Slots -> SlotStates], kernel : [Tasks -> Handles], count : Int]
      /\ hd \in [Tasks -> Handles] /\ p.kernel = hd
      /\ hd[t] # Invalid => p.slots[hd[t].slot].owner = t /\ Live(p.slots, hd[t])
  BY DEF PoolInv, PoolType
<1>3. /\ q.slots = p.slots /\ q.count = p.count
      /\ q.kernel = [p.kernel EXCEPT ![t] = Invalid]
      /\ q = [slots |-> p.slots, kernel |-> [p.kernel EXCEPT ![t] = Invalid],
              count |-> p.count]
  BY <1>2
<1>4. FreeSlots(q) = FreeSlots(p) /\ NewReg(q) = NewReg(p) /\ q.kernel[t] = Invalid
  BY <1>2, <1>3 DEF FreeSlots, NewReg, Registrations
<1>5. v = IF Live(p.slots, hd[t])
          THEN [slots  |-> [p.slots EXCEPT ![hd[t].slot].inUse = FALSE,
                                           ![hd[t].slot].pending = TRUE],
                kernel |-> hd1,
                count  |-> p.count - 1]
          ELSE p
  <2>1. Live(p.slots, hd[t]) => hd[t] # Invalid
    BY DEF Live, Invalid, Slots
  <2>2. QED
    BY <1>2, <2>1 DEF Unregister
<1>6. /\ hd1 \in [Tasks -> Handles] /\ hd1[t] = Invalid
      /\ [hd1 EXCEPT ![t] = Invalid] = hd1
      /\ hd[t] = Invalid => hd1 = hd
      /\ q = [slots |-> p.slots, kernel |-> hd1, count |-> p.count]
  <2>1. Invalid \in Handles
    BY EventLoopAssumption DEF Invalid, Handles, Gens
  <2>2. QED
    BY <1>2, <1>3, <2>1
<1> HIDE DEF q, v, hd1
<1>7. CASE FreeSlots(p) = {}
  <2>1. r = [pool |-> q, handle |-> Invalid]
    BY <1>4, <1>7 DEF RegisterFd
  <2> HIDE DEF r
  <2>2. u = [Unregister(q, hd[t]) EXCEPT !.kernel[t] = Invalid]
    BY <2>1
  <2>3. u = v
    <3>1. CASE Live(p.slots, hd[t])
      <4>1. Unregister(q, hd[t]) = v
        <5>1. Live(q.slots, hd[t]) /\ q.slots[hd[t].slot].owner = t
          BY <1>2, <1>6, <3>1 DEF Live, Invalid, Slots
        <5>2. QED
          BY <1>5, <1>6, <3>1, <5>1 DEF Unregister
      <4>2. v = [slots |-> v.slots, kernel |-> hd1, count |-> v.count]
        BY <1>5, <3>1
      <4> HIDE DEF u, r
      <4>3. QED
        BY <1>6, <2>2, <4>1, <4>2
    <3>2. CASE ~Live(p.slots, hd[t])
      <4>1. hd[t] = Invalid
        BY <1>2, <3>2
      <4>2. Unregister(q, hd[t]) = q
        BY <1>6, <3>2 DEF Unregister
      <4>3. v = q
        BY <1>2, <1>5, <1>6, <3>2, <4>1
      <4> HIDE DEF u, r
      <4>4. QED
        BY <1>6, <2>2, <4>2, <4>3
    <3>3. QED
      BY <3>1, <3>2
  <2> HIDE DEF u
  <2>4. [hd EXCEPT ![t] = Invalid] = hd1
    BY DEF hd1
  <2>5. Aged(p, u) /\ PoolInv(u, [hd EXCEPT ![t] = r.handle])
    BY <1>1, <2>1, <2>3, <2>4 DEF Kept, Aged, Same
  <2>6. QED
    BY <2>5 DEF u, r, q
<1>8. CASE FreeSlots(p) # {}
  <2>1. s \in FreeSlots(p)
    BY <1>8, FirstFree
  <2>2. g \in Gens \ {0} /\ NewReg(p) \in Nat /\ s \in Slots
    <3> HIDE DEF s
    <3> QED BY <1>2, <2>1, NextGenValue, NewRegType DEF SlotStates, PoolInv, FreeSlots
  <2>3. r = [pool |-> Taken(q, t, s, g, NewReg(p)), handle |-> [slot |-> s, gen |-> g]]
    BY <1>3, <1>4, <1>8 DEF RegisterFd, Taken
  <2> DEFINE n == NewReg(p)
             h == [slot |-> s, gen |-> g]
             w == Taken(q, t, s, g, n)
             d == [inUse |-> TRUE, pending |-> FALSE, gen |-> g, owner |-> t, reg |-> n]
             k == [hd EXCEPT ![t] = h]
  <2> HIDE DEF r, s, g, n, w
  <2>4. r.handle = h /\ u = [Unregister(w, hd[t]) EXCEPT !.kernel[t] = h]
    BY <2>3 DEF n, w
  <2> HIDE DEF u
  <2>5. /\ w = [slots |-> [p.slots EXCEPT ![s] = d], kernel |-> k, count |-> p.count + 1]
        /\ k \in [Tasks -> {hd[x] : x \in Tasks} \cup {h}] /\ [hd1 EXCEPT ![t] = h] = k
        /\ [k EXCEPT ![t] = h] = k /\ [[k EXCEPT ![t] = Invalid] EXCEPT ![t] = h] = k
    BY <1>2, <1>6 DEF Taken, hd1, w
  <2>6. v \in [slots : [Slots -> SlotStates], kernel : [Tasks -> Handles], count : Int]
        /\ v.kernel = hd1
    BY <1>1 DEF PoolInv, PoolType
  <2>7. Taken(v, t, s, g, n) = [slots  |-> [v.slots EXCEPT ![s] = d],
                                kernel |-> k, count |-> v.count + 1]
    BY <2>5, <2>6 DEF Taken
  <2> HIDE DEF k, d
  <2>8. u = Taken(v, t, s, g, n)
    <3>1. CASE Live(p.slots, hd[t])
      <4> DEFINE o == hd[t].slot
      <4>1. o \in Slots /\ s \in Slots /\ o # s /\ p.slots[o].owner = t /\ hd[t] # Invalid
        BY <1>2, <2>1, <3>1 DEF Live, FreeSlots, Invalid, Slots
      <4>2. v.slots = [p.slots EXCEPT ![o].inUse = FALSE, ![o].pending = TRUE]
            /\ v.count = p.count - 1
        BY <1>5, <3>1
      <4>3. Live(w.slots, hd[t]) /\ w.slots[o].owner = t
        BY <1>2, <2>5, <3>1, <4>1 DEF Live
      <4>4. Unregister(w, hd[t]) =
              [slots  |-> [w.slots EXCEPT ![o].inUse = FALSE, ![o].pending = TRUE],
               kernel |-> [k EXCEPT ![t] = Invalid], count |-> w.count - 1]
        BY <2>5, <4>3 DEF Unregister
      <4>5. [w.slots EXCEPT ![o].inUse = FALSE, ![o].pending = TRUE]
              = [v.slots EXCEPT ![s] = d]
        BY <1>2, <2>5, <4>1, <4>2
      <4>6. w.count - 1 = v.count + 1
        BY <1>2, <2>5, <4>2
      <4> DEFINE x == [v.slots EXCEPT ![s] = d]
                 y == [k EXCEPT ![t] = Invalid]
                 c == v.count + 1
      <4>7. Unregister(w, hd[t]) = [slots |-> x, kernel |-> y, count |-> c]
        BY <4>4, <4>5, <4>6
      <4>8. [y EXCEPT ![t] = h] = k /\ Taken(v, t, s, g, n) = [slots |-> x, kernel |-> k, count |-> c]
        BY <2>5, <2>7
      <4> HIDE DEF x, y, c
      <4>9. QED
        BY <2>4, <4>7, <4>8
    <3>2. CASE ~Live(p.slots, hd[t])
      <4>1. hd[t] = Invalid /\ v = p
        BY <1>2, <1>5, <3>2
      <4>2. Unregister(w, hd[t]) = w
        BY <4>1 DEF Unregister, Live, Invalid, Slots
      <4>3. QED
        BY <2>4, <2>5, <2>7, <4>1, <4>2
    <3>3. QED
      BY <3>1, <3>2
  <2>9. PoolInv(Taken(v, t, s, g, n), [hd1 EXCEPT ![t] = h])
    BY <1>1, <1>6, <2>1, <2>2, TakenInv DEF n
  <2>10. Aged(p, u)
    <3> HIDE DEF h
    <3> QED BY <1>1, <1>2, <2>1, <2>2, <2>6, <2>7, <2>8 DEF Kept, Aged, Same, d, g
  <2>11. QED
    BY <2>4, <2>5, <2>8, <2>9, <2>10 DEF u, r, q, k
<1>9. QED
  BY <1>7, <1>8

----------------------------------------------------------------------------
(***************************************************************************)
(* The stack of what the thread is doing.                                  *)
(***************************************************************************)
LEMMA OneOrMore ==
    ASSUME NEW l \in Nat \ {0}
    PROVE  l = 1 \/ (1 < l /\ 1 \in 1..(l - 1) /\ l - 1 \in 1..(l - 1))
  OBVIOUS

LEMMA AppendFacts ==
    ASSUME NEW S, NEW q \in Seq(S), NEW e \in S
    PROVE  /\ Append(q, e) \in Seq(S) /\ Append(q, e) # <<>>
           /\ Len(Append(q, e)) = Len(q) + 1 /\ Len(q) \in Nat
           /\ \A i \in 1..Len(q) : Append(q, e)[i] = q[i]
           /\ Append(q, e)[Len(q) + 1] = e
  OBVIOUS

LEMMA StackFacts ==
    ASSUME LoopType, StackShape
    PROVE  /\ Len(stack) \in Nat \ {0} /\ Top = stack[Len(stack)]
           /\ Below \in Seq(StackFrames) /\ Len(Below) = Len(stack) - 1
           /\ \A i \in 1..(Len(stack) - 1) : Below[i] = stack[i]
<1>1. stack \in Seq(StackFrames) /\ stack # <<>>
  BY DEF LoopType, StackShape
<1>2. Len(stack) \in Nat \ {0}
  BY <1>1
<1>3. \A i \in 1..(Len(stack) - 1) : stack[i] \in StackFrames
  BY <1>1, <1>2
<1> DEFINE l == Len(stack)
           n == l - 1
<1>4. n \in Int /\ 1 \in Int /\ n - 1 + 1 = n /\ (1 <= n \/ n = 0)
  <2>1. l \in Nat /\ l # 0
    BY <1>2
  <2> HIDE DEF l
  <2>2. QED
    BY <2>1
<1>5. /\ SubSeq(stack, 1, n) \in Seq(StackFrames)
      /\ Len(SubSeq(stack, 1, n)) = IF 1 <= n THEN n - 1 + 1 ELSE 0
      /\ \A i \in 1..(n - 1 + 1) : SubSeq(stack, 1, n)[i] = stack[1 + i - 1]
  <2> HIDE DEF n
  <2> QED BY <1>3, <1>4, SubSeqProperties DEF n
<1>6. QED
  BY <1>1, <1>2, <1>4, <1>5 DEF Top, Below

LEMMA TopType ==
    ASSUME LoopType, StackShape
    PROVE  /\ Top \in StackFrames
           /\ Top.at = "setup" => Top \in SetupFrames
           /\ Top.at = "deferred" => Top \in LoopFrames
           /\ Top.at = "wait" => Top \in WaitFrames
           /\ Top.at = "events" => Top \in EventsFrames
           /\ Top.at = "callback" => Top \in CallbackFrames
<1>1. Top \in StackFrames
  BY StackFacts DEF LoopType, Top
<1>2. QED
  BY <1>1 DEF StackFrames, SetupFrames, LoopFrames, WaitFrames, EventsFrames,
              CallbackFrames, ReturnedFrames

LEMMA ReplaceFacts ==
    ASSUME LoopType, StackShape, NEW f \in StackFrames
    PROVE  /\ Replace(f) \in Seq(StackFrames) /\ Replace(f) # <<>>
           /\ Len(Replace(f)) = Len(stack) /\ Replace(f)[Len(stack)] = f
           /\ \A i \in 1..(Len(stack) - 1) : Replace(f)[i] = stack[i]
<1> DEFINE b == Below
<1>1. Len(stack) \in Nat \ {0} /\ b \in Seq(StackFrames) /\ Len(b) = Len(stack) - 1
      /\ \A i \in 1..(Len(stack) - 1) : b[i] = stack[i]
  BY StackFacts
<1>2. Replace(f) = Append(b, f)
  BY DEF Replace
<1> HIDE DEF b
<1>3. /\ Append(b, f) \in Seq(StackFrames) /\ Append(b, f) # <<>>
      /\ Len(Append(b, f)) = Len(b) + 1
      /\ \A i \in 1..Len(b) : Append(b, f)[i] = b[i]
      /\ Append(b, f)[Len(b) + 1] = f
  BY <1>1, AppendFacts
<1>4. QED
  BY <1>1, <1>2, <1>3

----------------------------------------------------------------------------
(***************************************************************************)
(* Every step keeps the agreement of the pool, and changes the generations *)
(* and registrations of slots only as Aged allows: while the program sets  *)
(* up, or in a step that is counted.                                       *)
(***************************************************************************)
LEMMA PoolIsSet ==
    ASSUME NEW p, NEW hd, PoolInv(p, hd), SetPool(p)
    PROVE  Pool' = p
  BY DEF PoolInv, PoolType, SetPool, Pool

LEMMA PoolSame ==
    ASSUME UNCHANGED <<pool, kernel, count>>
    PROVE  Pool' = Pool /\ Kept(Pool, Pool')
  BY DEF Pool, Kept, Same

LEMMA PoolReclaimed ==
    ASSUME PoolInv(Pool, handle), NEW once, NEW waited, NEW below,
           ProcessDeferred(once, waited, below)
    PROVE  PoolInv(Pool', handle) /\ Kept(Pool, Pool')
<1>1. Pool' = [Pool EXCEPT !.slots = Reclaimed(pool)]
  BY DEF Pool, ProcessDeferred
<1>2. QED
  BY <1>1, ReclaimedInv

LEMMA PoolCancelled ==
    ASSUME PoolInv(Pool, handle), NEW t \in Tasks, Cancelled(t)
    PROVE  PoolInv(Pool', handle') /\ Kept(Pool, Pool')
<1>1. PoolInv(Unregister(Pool, handle[t]), [handle EXCEPT ![t] = Invalid])
      /\ Kept(Pool, Unregister(Pool, handle[t]))
  BY ReleasedInv
<1>2. SetPool(Unregister(Pool, handle[t])) /\ handle' = [handle EXCEPT ![t] = Invalid]
  BY DEF Cancelled
<1>3. QED
  BY <1>1, <1>2, PoolIsSet

LEMMA PoolStep ==
    ASSUME IInv, Next
    PROVE  /\ PoolInv(Pool', handle')
           /\ \/ Kept(Pool, Pool') /\ steps' \in {steps, steps + 1}
              \/ Aged(Pool, Pool') /\ steps' = steps + 1 /\ events' = events
              \/ Top.at = "setup"
<1> USE DEF IInv
<1>1. CASE Setup
  <2>1. CASE Top.left = {}
    BY <1>1, <2>1, PoolReclaimed DEF Setup
  <2>2. CASE Top.left # {}
    <3>1. PICK t \in Top.left :
            LET r == RegisterFd(Pool, t, FALSE)
            IN  SetPool(r.pool) /\ handle' = [handle EXCEPT ![t] = r.handle]
      BY <1>1, <2>2 DEF Setup
    <3>2. t \in Tasks /\ handle[t] = Invalid
      <4>1. Top \in SetupFrames /\ Top = stack[1]
        BY <1>1, StackFacts, TopType DEF Setup, StackShape, Shape
      <4>2. QED
        BY <1>1, <4>1 DEF SetupInv, SetupFrames, Setup, Tasks
    <3> DEFINE r == RegisterFd(Pool, t, FALSE)
    <3>3. PoolInv(r.pool, [handle EXCEPT ![t] = r.handle])
      BY <3>2, RegisteredInv
    <3>4. SetPool(r.pool) /\ handle' = [handle EXCEPT ![t] = r.handle]
      BY <3>1
    <3> HIDE DEF r
    <3>5. QED
      BY <1>1, <3>3, <3>4, PoolIsSet DEF Setup
  <2>3. QED
    BY <2>1, <2>2
<1>2. CASE \/ Wait \/ Leave \/ ProcessEvent \/ DeferredDone \/ Pop \/ Return
           \/ (\E t \in Tasks : Arrives(t))
  BY <1>2, PoolSame DEF Wait, Leave, ProcessEvent, DeferredDone, Pop, Return, Arrives
<1>3. CASE \/ (\E t \in Queues : Push(t)) \/ Defer \/ Interrupt
  BY <1>3, PoolSame DEF Push, Defer, Interrupt, Step
<1>4. CASE EventsDone \/ Nest
  BY <1>4, PoolReclaimed DEF EventsDone, Nest, Step
<1>5. CASE RunDeferred
  <2>1. Top \in LoopFrames /\ Top.calls # <<>>
    BY <1>5, TopType DEF RunDeferred
  <2>2. Head(Top.calls) \in Calls
    BY <2>1 DEF LoopFrames
  <2>3. CASE Head(Top.calls).call = "cancel"
    <3>1. Head(Top.calls).task \in Tasks
      BY <2>2, <2>3 DEF Calls, CancelCalls, UserCalls, Tasks
    <3>2. Cancelled(Head(Top.calls).task) /\ steps' = steps
      BY <1>5, <2>3 DEF RunDeferred
    <3>3. QED
      BY <3>1, <3>2, PoolCancelled DEF LoopType
  <2>4. CASE Head(Top.calls).call = "user"
    BY <1>5, <2>4, PoolSame DEF RunDeferred, LoopType
  <2>5. QED
    BY <2>2, <2>3, <2>4 DEF Calls, CancelCalls, UserCalls
<1>6. ASSUME NEW t \in Tasks, Cancel(t)
      PROVE  PoolInv(Pool', handle') /\ Kept(Pool, Pool') /\ steps' = steps + 1
  BY <1>6, PoolCancelled DEF Cancel, Step
<1>7. ASSUME NEW t \in Tasks, Schedule(t)
      PROVE  PoolInv(Pool', handle') /\ Aged(Pool, Pool') /\ steps' = steps + 1
             /\ events' = events
  <2>1. PICK fails \in BOOLEAN :
          LET r == RegisterFd(Pool, t, fails)
          IN  SetPool(r.pool) /\ handle' = [handle EXCEPT ![t] = r.handle]
    BY <1>7 DEF Schedule
  <2>2. handle[t] = Invalid /\ steps' = steps + 1 /\ events' = events
    BY <1>7 DEF Schedule, Step
  <2> DEFINE r == RegisterFd(Pool, t, fails)
  <2>3. PoolInv(r.pool, [handle EXCEPT ![t] = r.handle]) /\ Aged(Pool, r.pool)
    BY <2>2, RegisteredInv
  <2>4. SetPool(r.pool) /\ handle' = [handle EXCEPT ![t] = r.handle]
    BY <2>1
  <2> HIDE DEF r
  <2>5. QED
    BY <2>2, <2>3, <2>4, PoolIsSet
<1>8. ASSUME NEW t \in Sources, SetFd(t)
      PROVE  PoolInv(Pool', handle') /\ Aged(Pool, Pool') /\ steps' = steps + 1
             /\ events' = events
  <2> DEFINE v == Unregister(Pool, handle[t])
             hd == [handle EXCEPT ![t] = Invalid]
             r == RegisterFd(v, t, FALSE)
  <2>1. t \in Tasks
    BY DEF Tasks
  <2>2. PoolInv(v, hd) /\ Kept(Pool, v)
    BY <2>1, ReleasedInv
  <2>3. hd[t] = Invalid /\ [hd EXCEPT ![t] = r.handle] = [handle EXCEPT ![t] = r.handle]
    BY <2>1 DEF PoolInv
  <2> HIDE DEF v, hd
  <2>4. PoolInv(r.pool, [hd EXCEPT ![t] = r.handle]) /\ Aged(v, r.pool)
    BY <2>1, <2>2, <2>3, RegisteredInv
  <2>5. SetPool(r.pool) /\ handle' = [handle EXCEPT ![t] = r.handle]
        /\ steps' = steps + 1 /\ events' = events
    BY <1>8 DEF SetFd, Step, v
  <2> HIDE DEF r
  <2>6. Aged(Pool, r.pool)
    BY <2>2, <2>4 DEF Kept, Aged, Same
  <2>7. QED
    BY <2>3, <2>4, <2>5, <2>6, PoolIsSet
<1>9. ASSUME NEW t \in Timers, TriggeredRequest(t)
      PROVE  PoolInv(Pool', handle') /\ Aged(Pool, Pool') /\ steps' = steps + 1
             /\ events' = events
  <2> DEFINE r == RegisterFd([Pool EXCEPT !.kernel[t] = Invalid], t, FALSE)
             u == [Unregister(r.pool, handle[t]) EXCEPT !.kernel[t] = r.handle]
  <2>1. t \in Tasks
    BY DEF Tasks
  <2>2. PoolInv(u, [handle EXCEPT ![t] = r.handle]) /\ Aged(Pool, u)
    BY <2>1, ReplacedInv
  <2>3. SetPool(u) /\ handle' = [handle EXCEPT ![t] = r.handle]
        /\ steps' = steps + 1 /\ events' = events
    BY <1>9 DEF TriggeredRequest, Step
  <2> HIDE DEF u, r
  <2>4. QED
    BY <2>2, <2>3, PoolIsSet
<1>10. QED
  BY <1>1, <1>2, <1>3, <1>4, <1>5, <1>6, <1>7, <1>8, <1>9 DEF Next

----------------------------------------------------------------------------
(***************************************************************************)
(* What epoll_pwait leaves in mEvents.                                     *)
(***************************************************************************)
Report(t) == [h |-> handle[t], reg |-> pool[handle[t].slot].reg, depth |-> Len(stack)]

LEMMA ReportedFinite ==
    ASSUME LoopType, PoolInv(Pool, handle)
    PROVE  IsFiniteSet(Reported)
<1> DEFINE f == [t \in Reported |-> handle[t].slot]
<1>1. IsFiniteSet(Slots)
  BY EventLoopAssumption, FS_Interval DEF Slots
<1>2. \A t \in Reported : /\ t \in Tasks /\ handle[t].slot \in Slots
                           /\ pool[handle[t].slot].owner = t
  BY DEF Reported, LoopType, Tasks, PoolInv, Pool, Live
<1>3. f \in Injection(Reported, Slots)
  <2>1. f \in [Reported -> Slots]
    BY <1>2
  <2>2. \A t, u \in Reported : handle[t].slot = handle[u].slot => t = u
    BY <1>2
  <2>3. QED
    BY <2>1, <2>2 DEF Injection, IsInjective
<1>4. QED
  BY <1>1, <1>3, FS_Injection

LEMMA WaitFacts ==
    ASSUME IInv, Wait
    PROVE  \E n \in Nat :
             /\ n <= EventCount
             /\ stack' = Replace(Events(Top.once, ToProcess(n)))
             /\ events' \in Seq(Reports)
             /\ Len(events') = IF n >= Len(events) THEN n ELSE Len(events)
             /\ \A i \in 1..n : \E t \in Tasks : /\ handle[t] # Invalid
                                                 /\ t \in Reported
                                                 /\ events'[i] = Report(t)
             /\ \A i, k \in 1..n : events'[i].h = events'[k].h => i = k
             /\ \A i \in (n + 1)..Len(events) : events'[i] = events[i]
<1> DEFINE c == Cardinality(Reported)
           n == IF c < EventCount THEN c ELSE EventCount
<1>1. PICK order \in Orders(Reported) :
         /\ events' = [i \in 1..n |->
                         [h |-> kernel[order[i]],
                          reg |-> pool[kernel[order[i]].slot].reg,
                          depth |-> Len(stack)]] \o SubSeq(events, n + 1, Len(events))
         /\ stack' = Replace(Events(Top.once, ToProcess(n)))
  BY DEF Wait
<1>2. c \in Nat /\ n \in Nat /\ n <= EventCount /\ n <= c
  <2>1. c \in Nat
    BY ReportedFinite, FS_CardinalityType DEF IInv, c
  <2> HIDE DEF c
  <2>2. QED
    BY <2>1, EventLoopAssumption
<1>3. \A i \in 1..n : order[i] \in Reported
  <2>1. order \in [1..c -> Reported]
    BY <1>1 DEF Orders
  <2> HIDE DEF c
  <2>2. QED
    BY <1>2, <2>1
<1>4. Reported \subseteq Tasks
  BY DEF Reported, Tasks, IInv, LoopType
<1>5. kernel = handle /\ handle \in [Tasks -> Handles] /\ pool \in [Slots -> SlotStates]
      /\ Len(stack) \in Nat
  BY StackFacts DEF IInv, PoolInv, PoolType, Pool
<1>6. \A i \in 1..n : handle[order[i]] # Invalid /\ order[i] \in Tasks
  BY <1>3, <1>4, <1>5 DEF Reported
<1> DEFINE got == [i \in 1..n |-> Report(order[i])]
           rest == SubSeq(events, n + 1, Len(events))
<1>7. events' = got \o rest
  BY <1>1, <1>5 DEF Report
<1>8. \A t \in Tasks : handle[t] # Invalid => Report(t) \in Reports
  <2>1. ASSUME NEW t \in Tasks, handle[t] # Invalid
        PROVE  handle[t] \in Handles /\ pool[handle[t].slot] \in SlotStates
    BY <1>5, <2>1 DEF IInv, PoolInv, Pool, Live
  <2>2. QED
    BY <1>5, <2>1 DEF Report, Reports, SlotStates
<1>9. got \in Seq(Reports) /\ Len(got) = n
  <2>1. got \in [1..n -> Reports]
    BY <1>6, <1>8
  <2> HIDE DEF got, n
  <2>2. QED
    BY <1>2, <2>1
<1>10. events \in Seq(Reports) /\ Len(events) \in Nat
  BY DEF IInv, LoopType
<1> DEFINE m == Len(events)
<1>11. /\ rest \in Seq(Reports)
       /\ Len(rest) = IF n + 1 <= m THEN m - (n + 1) + 1 ELSE 0
       /\ \A i \in 1..(m - (n + 1) + 1) : rest[i] = events[n + 1 + i - 1]
  <2>1. \A i \in (n + 1)..m : events[i] \in Reports
    <3> HIDE DEF n
    <3> QED BY <1>2, <1>10
  <2>2. n + 1 \in Int /\ m \in Int
    <3> HIDE DEF n
    <3> QED BY <1>2, <1>10
  <2> HIDE DEF n, m
  <2>3. QED
    BY <2>1, <2>2, SubSeqProperties DEF m
<1> HIDE DEF got, rest, n, m
<1>12. /\ got \o rest \in Seq(Reports) /\ Len(got \o rest) = Len(got) + Len(rest)
       /\ \A i \in 1..(Len(got) + Len(rest)) :
            (got \o rest)[i] = IF i <= Len(got) THEN got[i] ELSE rest[i - Len(got)]
  BY <1>9, <1>11, ConcatProperties
<1>13. m \in Nat /\ m = Len(events)
  BY <1>10 DEF m
<1>14. Len(events') = IF n >= m THEN n ELSE m
  BY <1>2, <1>7, <1>9, <1>11, <1>12, <1>13
<1>15. \A i \in 1..n : events'[i] = Report(order[i])
  BY <1>2, <1>7, <1>9, <1>11, <1>12, <1>13 DEF got
<1>15a. ASSUME NEW i \in 1..n, NEW k \in 1..n, events'[i].h = events'[k].h
        PROVE  i = k
  <2>1. handle[order[i]] = handle[order[k]]
    <3>1. events'[i] = Report(order[i]) /\ events'[k] = Report(order[k])
      BY <1>15
    <3> DEFINE x == order[i]
               y == order[k]
    <3>2. Report(x).h = handle[x] /\ Report(y).h = handle[y]
      BY DEF Report
    <3> HIDE DEF x, y
    <3>3. QED
      BY <1>15a, <3>1, <3>2 DEF x, y
  <2>2. \A x \in 1..n : pool[handle[order[x]].slot].owner = order[x]
    BY <1>6 DEF IInv, PoolInv, Pool
  <2>3. order[i] = order[k]
    BY <2>1, <2>2
  <2>4. n <= c /\ c \in Nat /\ order \in Orders(Reported) /\ c = Cardinality(Reported)
    BY <1>1, <1>2 DEF n
  <2>5. order \in [1..c -> Reported] /\ \A x, y \in DOMAIN order : order[x] = order[y] => x = y
    BY <2>4 DEF Orders
  <2> HIDE DEF c
  <2>6. i \in DOMAIN order /\ k \in DOMAIN order
    BY <1>2, <2>4, <2>5
  <2>7. QED
    BY <2>3, <2>5, <2>6
<1>16. \A i \in (n + 1)..m : events'[i] = events[i]
  <2> SUFFICES ASSUME NEW i \in (n + 1)..m PROVE events'[i] = events[i]
    OBVIOUS
  <2>1. i - n \in 1..(m - (n + 1) + 1) /\ n + 1 + (i - n) - 1 = i /\ n + 1 <= m
        /\ ~(i <= n) /\ i \in 1..(n + (m - (n + 1) + 1))
    BY <1>2, <1>13
  <2>2. QED
    BY <1>7, <1>9, <1>11, <1>12, <2>1
<1>17. QED
  BY <1>1, <1>2, <1>3, <1>6, <1>7, <1>12, <1>13, <1>14, <1>15, <1>15a, <1>16 DEF n

----------------------------------------------------------------------------
(***************************************************************************)
(* The events: the generation of a slot does not come round while fewer    *)
(* registrations are made than there are generations.                      *)
(***************************************************************************)
LEMMA SinceStep ==
    ASSUME IInv, Few, NEW e \in Reports, e.h.slot \in Slots, e.h.gen # 0,
           NEW k \in 0..steps, Since(pool, e, k),
           \/ Kept(Pool, Pool') /\ steps' \in {steps, steps + 1}
           \/ Aged(Pool, Pool') /\ steps' = steps + 1
    PROVE  \E i \in 0..steps' : Since(pool', e, i)
<1> DEFINE s == e.h.slot
           g == e.h.gen
           m == GenModulus - 1
<1>1. /\ steps \in Nat /\ steps <= MaxSteps /\ MaxSteps \in Nat
      /\ GenModulus \in Nat \ {0, 1} /\ pool[s].gen \in Gens /\ g \in Gens
  BY EventLoopAssumption DEF IInv, LoopType, PoolInv, PoolType, Pool, SlotStates,
     Reports, Handles
<1>2. CASE pool'[s].gen = pool[s].gen /\ pool'[s].reg = pool[s].reg
           /\ steps' \in {steps, steps + 1}
  <2>1. k \in 0..steps' /\ Since(pool', e, k)
    BY <1>1, <1>2 DEF Since
  <2>2. QED
    BY <2>1
<1>3. CASE pool'[s].gen = NextGen(pool[s].gen) /\ steps' = steps + 1
  <2>1. pool'[s].gen = IF pool[s].gen = m THEN 1 ELSE pool[s].gen + 1
    BY <1>1, <1>3, NextGenValue
  <2>2. pool[s].gen \in {g + k, g + k - m} /\ k < m
    BY <1>1 DEF Since, Few
  <2>3. k + 1 \in 0..steps' /\ k + 1 # 0
    BY <1>1, <1>3
  <2>4. pool'[s].gen \in {g + (k + 1), g + (k + 1) - m}
    BY <1>1, <2>1, <2>2 DEF Gens
  <2>5. Since(pool', e, k + 1)
    BY <2>3, <2>4 DEF Since
  <2>6. QED
    BY <2>3, <2>5
<1>4. QED
  BY <1>2, <1>3 DEF Kept, Aged, Same, Pool

LEMMA SetupShape ==
    ASSUME IInv, Top.at = "setup"
    PROVE  /\ Len(stack) = 1 /\ Top = stack[1] /\ Top \in SetupFrames
           /\ events = <<>> /\ deferred = <<>>
<1>1. Top = stack[Len(stack)] /\ Len(stack) \in Nat \ {0}
  BY StackFacts DEF IInv
<1>2. Len(stack) = 1
  BY <1>1 DEF IInv, StackShape, Shape
<1>3. QED
  BY <1>1, <1>2, TopType DEF IInv, SetupInv

LEMMA EventsSame ==
    ASSUME Next, ~Wait
    PROVE  events' = events
  BY DEF Next, Setup, Leave, ProcessEvent, EventsDone, RunDeferred, DeferredDone,
         Arrives, Cancel, Schedule, SetFd, TriggeredRequest, Push, Defer, Interrupt,
         Nest, Pop, Return

LEMMA EventsStep ==
    ASSUME IInv, Next, Few
    PROVE  EventsInv'
<1>1. steps \in Nat /\ events \in Seq(Reports)
  BY EventLoopAssumption DEF IInv, LoopType
<1>2. CASE Wait
  <2>1. UNCHANGED <<pool, steps>>
    BY <1>2 DEF Wait
  <2>2. PICK n \in Nat :
             /\ Len(events') = IF n >= Len(events) THEN n ELSE Len(events)
             /\ \A i \in 1..n : \E t \in Tasks : handle[t] # Invalid /\ events'[i] = Report(t)
             /\ \A i \in (n + 1)..Len(events) : events'[i] = events[i]
    BY <1>2, WaitFacts
  <2>3. SUFFICES ASSUME NEW j \in 1..Len(events')
                 PROVE  /\ events'[j].h.slot \in Slots /\ events'[j].h.gen # 0
                        /\ \E k \in 0..steps' : Since(pool', events'[j], k)
    BY DEF EventsInv
  <2>4. CASE j \in 1..n
    <3>1. PICK t \in Tasks : handle[t] # Invalid /\ events'[j] = Report(t)
      BY <2>2, <2>4
    <3>2. /\ handle[t].slot \in Slots /\ handle[t].gen # 0
          /\ pool[handle[t].slot].gen = handle[t].gen
          /\ handle[t].gen \in Gens
      BY <3>1 DEF IInv, PoolInv, PoolType, Pool, Live, Handles
    <3>3. Since(pool, Report(t), 0)
      BY <3>2, EventLoopAssumption DEF Since, Report, Gens
    <3>4. 0 \in 0..steps' /\ Since(pool', events'[j], 0)
      BY <1>1, <2>1, <3>1, <3>3
    <3>5. QED
      BY <3>1, <3>2, <3>4 DEF Report
  <2>5. CASE j \notin 1..n
    <3>1. j \in 1..Len(events) /\ events'[j] = events[j]
      BY <1>1, <2>2, <2>5
    <3>2. QED
      BY <2>1, <3>1 DEF IInv, EventsInv, Since
  <2>6. QED
    BY <2>4, <2>5
<1>3. CASE ~Wait
  <2>1. events' = events
    BY <1>3, EventsSame
  <2>2. CASE Top.at = "setup"
    <3>1. Len(events') = 0
      BY <2>1, <2>2, SetupShape
    <3>2. QED
      BY <3>1 DEF EventsInv
  <2>3. CASE Top.at # "setup"
    <3>1. \/ Kept(Pool, Pool') /\ steps' \in {steps, steps + 1}
          \/ Aged(Pool, Pool') /\ steps' = steps + 1
      BY <2>3, PoolStep
    <3>2. SUFFICES ASSUME NEW j \in 1..Len(events)
                   PROVE  \E i \in 0..steps' : Since(pool', events[j], i)
      BY <2>1 DEF IInv, EventsInv, Since
    <3>3. events[j] \in Reports
      BY <1>1
    <3>4. events[j].h.slot \in Slots /\ events[j].h.gen # 0
      BY DEF IInv, EventsInv
    <3>5. PICK k \in 0..steps : Since(pool, events[j], k)
      BY DEF IInv, EventsInv
    <3>6. QED
      BY <3>1, <3>3, <3>4, <3>5, SinceStep
  <2>4. QED
    BY <2>2, <2>3
<1>4. QED
  BY <1>2, <1>3

----------------------------------------------------------------------------
(***************************************************************************)
(* The shape of the stack.                                                 *)
(***************************************************************************)
Loops == {"deferred", "wait", "events"}

\* The frame on top is replaced by another of its kind.
LEMMA ShapeReplace ==
    ASSUME LoopType, StackShape, NEW n \in Nat, Len(events) <= n,
           NEW f \in StackFrames,
           \/ /\ Top.at \in Loops /\ f.at \in Loops /\ f.once = Top.once
              /\ f.at = "events" => f.next >= 1 /\ f.last <= n
           \/ /\ Top.at = "callback" /\ f.at = "callback" /\ f.task = Top.task
              /\ f.pops > 0 => f.task \in Queues
    PROVE  Shape(Replace(f), n, mode.nests)
<1> DEFINE q == Replace(f)
<1>1. /\ Len(q) = Len(stack) /\ q[Len(stack)] = f
      /\ \A i \in 1..(Len(stack) - 1) : q[i] = stack[i]
  BY ReplaceFacts
<1>2. Len(stack) \in Nat \ {0} /\ Top = stack[Len(stack)]
  BY StackFacts
<1>3. Shape(stack, Len(events), mode.nests) /\ Len(events) \in Nat
  BY DEF StackShape, LoopType
<1>4. \A i \in 1..(Len(stack) - 1) :
        stack[i].at = "events" => stack[i].last <= n
  <2> SUFFICES ASSUME NEW i \in 1..(Len(stack) - 1), stack[i].at = "events"
               PROVE  stack[i].last <= n
    OBVIOUS
  <2>1. stack[i] \in StackFrames /\ i \in 1..Len(stack)
    BY <1>2 DEF LoopType
  <2>2. stack[i].last \in Nat
    BY <2>1 DEF StackFrames, SetupFrames, LoopFrames, WaitFrames, EventsFrames,
                CallbackFrames, ReturnedFrames
  <2>3. stack[i].last <= Len(events)
    BY <1>3, <2>1 DEF Shape
  <2>4. QED
    BY <1>3, <2>2, <2>3
<1> HIDE DEF q
<1>5. SUFFICES ASSUME NEW i \in 1..Len(q)
      PROVE  /\ q[i].at = "callback" => /\ i > 1 /\ q[i - 1].at \in {"deferred", "events"}
                                        /\ q[i].pops > 0 => q[i].task \in Queues
                                        /\ q[i - 1].at = "deferred" => q[i].task = NoTask
             /\ q[i].at # "callback" => i = 1 \/ (mode.nests /\ q[i - 1].at = "callback")
             /\ q[i].at \in Loops => q[i].once = (i # 1)
             /\ q[i].at \in {"setup", "returned"} => Len(q) = 1
             /\ q[i].at = "wait" => i = Len(q)
             /\ q[i].at = "events" => q[i].next >= 1 /\ q[i].last <= n
  BY DEF Shape, q, Loops
<1>6. CASE i < Len(stack)
  <2>1. i \in 1..(Len(stack) - 1) /\ i \in 1..Len(stack) /\ q[i] = stack[i]
        /\ (i > 1 => q[i - 1] = stack[i - 1])
    BY <1>1, <1>2, <1>6
  <2>2. QED
    BY <1>1, <1>2, <1>3, <1>4, <2>1 DEF Shape, Loops
<1>7. CASE i = Len(stack)
  <2>1. i \in 1..Len(stack) /\ q[i] = f /\ stack[i] = Top
        /\ (i > 1 => q[i - 1] = stack[i - 1])
    BY <1>1, <1>2, <1>7
  <2>2. QED
    BY <1>1, <1>2, <1>3, <1>7, <2>1 DEF Shape, Loops
<1>8. QED
  BY <1>1, <1>2, <1>6, <1>7

\* A callback is called by a loop, or nests a loop.
LEMMA ShapePush ==
    ASSUME NEW n, NEW q \in Seq(StackFrames), q # <<>>, Shape(q, n, mode.nests),
           NEW g \in StackFrames,
           \/ /\ g.at = "callback" /\ q[Len(q)].at \in {"deferred", "events"}
              /\ g.pops > 0 => g.task \in Queues
              /\ q[Len(q)].at = "deferred" => g.task = NoTask
           \/ g.at = "deferred" /\ g.once = TRUE /\ q[Len(q)].at = "callback" /\ mode.nests
    PROVE  Shape(Append(q, g), n, mode.nests)
<1> DEFINE r == Append(q, g)
<1>1. /\ Len(r) = Len(q) + 1 /\ Len(q) \in Nat \ {0} /\ r[Len(q) + 1] = g
      /\ \A i \in 1..Len(q) : r[i] = q[i]
  BY AppendFacts
<1> HIDE DEF r
<1>2. SUFFICES ASSUME NEW i \in 1..Len(r)
      PROVE  /\ r[i].at = "callback" => /\ i > 1 /\ r[i - 1].at \in {"deferred", "events"}
                                        /\ r[i].pops > 0 => r[i].task \in Queues
                                        /\ r[i - 1].at = "deferred" => r[i].task = NoTask
             /\ r[i].at # "callback" => i = 1 \/ (mode.nests /\ r[i - 1].at = "callback")
             /\ r[i].at \in Loops => r[i].once = (i # 1)
             /\ r[i].at \in {"setup", "returned"} => Len(r) = 1
             /\ r[i].at = "wait" => i = Len(r)
             /\ r[i].at = "events" => r[i].next >= 1 /\ r[i].last <= n
  BY DEF Shape, r, Loops
<1>3. CASE i = Len(q) + 1
  <2>1. r[i] = g /\ i > 1 /\ i # 1 /\ i = Len(r) /\ r[i - 1] = q[Len(q)]
    BY <1>1, <1>3
  <2>2. QED
    BY <2>1 DEF Loops
<1>4. CASE i # Len(q) + 1
  <2>1. i \in 1..Len(q) /\ r[i] = q[i] /\ (i > 1 => r[i - 1] = q[i - 1])
    BY <1>1, <1>4
  <2>2. (Len(q) = 1 => i = Len(q)) /\ q[Len(q)].at \notin {"setup", "returned", "wait"}
    BY <1>1, <2>1
  <2>3. QED
    BY <1>1, <2>1, <2>2 DEF Shape, Loops
<1>5. QED
  BY <1>3, <1>4

\* A callback or a nested loop returns.
LEMMA ShapeBelow ==
    ASSUME LoopType, StackShape, Len(stack) > 1
    PROVE  Below # <<>> /\ Shape(Below, Len(events), mode.nests)
<1> DEFINE q == Below
<1>1. /\ Len(stack) \in Nat /\ Len(q) = Len(stack) - 1 /\ q \in Seq(StackFrames)
      /\ \A i \in 1..(Len(stack) - 1) : q[i] = stack[i]
  BY StackFacts
<1>2. Shape(stack, Len(events), mode.nests)
  BY DEF StackShape
<1> HIDE DEF q
<1>3. q # <<>>
  BY <1>1
<1>4. SUFFICES ASSUME NEW i \in 1..Len(q)
      PROVE  /\ q[i].at = "callback" => /\ i > 1 /\ q[i - 1].at \in {"deferred", "events"}
                                        /\ q[i].pops > 0 => q[i].task \in Queues
                                        /\ q[i - 1].at = "deferred" => q[i].task = NoTask
             /\ q[i].at # "callback" => i = 1 \/ (mode.nests /\ q[i - 1].at = "callback")
             /\ q[i].at \in Loops => q[i].once = (i # 1)
             /\ q[i].at \in {"setup", "returned"} => Len(q) = 1
             /\ q[i].at = "wait" => i = Len(q)
             /\ q[i].at = "events" => q[i].next >= 1 /\ q[i].last <= Len(events)
  BY <1>3 DEF Shape, q, Loops
<1>5. i \in 1..Len(stack) /\ i # Len(stack) /\ q[i] = stack[i]
      /\ (i > 1 => q[i - 1] = stack[i - 1])
  BY <1>1
<1>6. QED
  BY <1>1, <1>2, <1>5 DEF Shape, Loops

\* There is only the frame of the setup, of execute() or of its return.
LEMMA ShapeOne ==
    ASSUME NEW f, NEW q, Len(q) = 1, q[1] = f, NEW n, NEW nests,
           f.at \in {"setup", "returned"} \/ (f.at = "deferred" /\ f.once = FALSE)
    PROVE  Shape(q, n, nests)
<1>1. f.at \in {"deferred", "wait", "events"} => f.once = (1 # 1)
  <2>1. (1 # 1) = FALSE
    OBVIOUS
  <2>2. QED
    BY <2>1, Zenon
<1>2. \A i \in 1..Len(q) : i = 1 /\ q[i] = f
  OBVIOUS
<1>3. f.at \notin {"callback", "wait", "events"}
  OBVIOUS
<1>4. QED
  BY <1>1, <1>2, <1>3, Zenon DEF Shape

\* A loop is nested exactly if it runs once.
LEMMA OnceIsNested ==
    ASSUME IInv, Top.at \in Loops
    PROVE  Top.once \in BOOLEAN /\ (Top.once <=> Len(stack) > 1)
<1>1. Len(stack) \in Nat \ {0} /\ Top = stack[Len(stack)]
  BY StackFacts DEF IInv
<1>2. Top.once = (Len(stack) # 1)
  <2>1. Len(stack) \in 1..Len(stack)
    BY <1>1
  <2>2. QED
    BY <1>1, <2>1, Zenon DEF IInv, StackShape, Shape, Loops
<1>3. Len(stack) # 1 <=> Len(stack) > 1
  <2> DEFINE l == Len(stack)
  <2>1. l \in Nat \ {0}
    BY <1>1
  <2> HIDE DEF l
  <2>2. l # 1 <=> l > 1
    BY <2>1
  <2>3. QED
    BY <2>2 DEF l
<1> DEFINE many == Len(stack) # 1
<1>4. many \in BOOLEAN /\ Top.once = many /\ (many <=> Len(stack) > 1)
  BY <1>2, <1>3, Zenon
<1> HIDE DEF many
<1>5. QED
  BY <1>4, Zenon

LEMMA FrameTypes ==
    /\ \A once, waited \in BOOLEAN, calls \in Seq(Calls) :
          Loop(once, waited, calls) \in StackFrames
    /\ \A once \in BOOLEAN : Waiting(once) \in StackFrames
    /\ \A once \in BOOLEAN, n \in Nat : Events(once, n) \in StackFrames
    /\ \A t \in Tasks \cup {NoTask}, reg \in Nat, pops \in Nat :
          Callback(t, reg, pops) \in StackFrames
  BY DEF StackFrames, LoopFrames, WaitFrames, EventsFrames, CallbackFrames,
         Loop, Waiting, Events, Callback

\* The first frame, once the program is set up.
LEMMA FirstFrame ==
    ASSUME IInv, Top.at # "setup"
    PROVE  /\ stack[1].at # "setup"
           /\ \A f \in StackFrames : f.at # "setup" => Replace(f)[1].at # "setup"
           /\ Len(stack) > 1 => Below[1] = stack[1]
<1>1. Len(stack) \in Nat \ {0} /\ Top = stack[Len(stack)]
      /\ \A i \in 1..(Len(stack) - 1) : Below[i] = stack[i]
  BY StackFacts DEF IInv
<1>2. stack[1].at # "setup"
  BY <1>1 DEF IInv, StackShape, Shape
<1>3. ASSUME NEW f \in StackFrames, f.at # "setup" PROVE Replace(f)[1].at # "setup"
  <2>1. /\ Replace(f)[Len(stack)] = f
        /\ \A i \in 1..(Len(stack) - 1) : Replace(f)[i] = stack[i]
    BY ReplaceFacts DEF IInv
  <2>2. CASE Len(stack) = 1
    BY <1>3, <2>1, <2>2
  <2>3. CASE Len(stack) # 1
    <3>1. 1 \in 1..(Len(stack) - 1)
      BY <1>1, <2>3, OneOrMore
    <3>2. QED
      BY <1>2, <2>1, <3>1
  <2>4. QED
    BY <2>2, <2>3
<1>4. QED
  BY <1>1, <1>2, <1>3

\* The three ways in which the stack moves, with all they keep.
StackNext ==
    /\ stack' \in Seq(StackFrames) /\ StackShape' /\ SetupInv'

LEMMA MovesOn ==
    ASSUME IInv, mode' = mode, NEW f \in StackFrames, stack' = Replace(f),
           Len(events) <= Len(events'), Len(events') \in Nat,
           \/ /\ Top.at \in Loops /\ f.at \in Loops /\ f.once = Top.once
              /\ f.at = "events" => f.next >= 1 /\ f.last <= Len(events')
           \/ /\ Top.at = "callback" /\ f.at = "callback" /\ f.task = Top.task
              /\ f.pops > 0 => f.task \in Queues
    PROVE  StackNext
<1>1. Shape(stack', Len(events'), mode'.nests)
  BY ShapeReplace DEF IInv
<1>2. stack' \in Seq(StackFrames) /\ stack' # <<>>
  BY ReplaceFacts DEF IInv
<1>3. stack'[1].at # "setup"
  BY FirstFrame DEF Loops
<1>4. QED
  BY <1>1, <1>2, <1>3 DEF StackNext, StackShape, SetupInv

LEMMA CallsBack ==
    ASSUME IInv, mode' = mode, events' = events, NEW f \in StackFrames,
           NEW g \in StackFrames, stack' = Append(Replace(f), g),
           Top.at \in Loops, f.at \in {"deferred", "events"}, f.once = Top.once,
           f.at = "events" => f.next >= 1 /\ f.last <= Len(events),
           g.at = "callback", g.pops > 0 => g.task \in Queues,
           f.at = "deferred" => g.task = NoTask
    PROVE  StackNext
<1> DEFINE q == Replace(f)
<1>1. Len(events) \in Nat
  BY DEF IInv, LoopType
<1>2. Shape(q, Len(events), mode.nests)
  BY <1>1, ShapeReplace DEF IInv, Loops
<1>3. /\ q \in Seq(StackFrames) /\ q # <<>> /\ Len(q) = Len(stack)
      /\ q[Len(stack)] = f
  BY ReplaceFacts DEF IInv
<1>4. q[1].at # "setup"
  BY FirstFrame DEF Loops
<1> HIDE DEF q
<1>5. Shape(Append(q, g), Len(events), mode.nests)
  BY <1>2, <1>3, ShapePush
<1>6. /\ Append(q, g) \in Seq(StackFrames) /\ Append(q, g) # <<>>
      /\ \A i \in 1..Len(q) : Append(q, g)[i] = q[i]
      /\ Len(q) \in Nat
  BY <1>3, AppendFacts
<1>7. Append(q, g)[1].at # "setup"
  BY <1>3, <1>4, <1>6
<1>8. QED
  BY <1>5, <1>6, <1>7 DEF StackNext, StackShape, SetupInv, q

LEMMA Returns ==
    ASSUME IInv, mode' = mode, events' = events, stack' = Below, Len(stack) > 1
    PROVE  StackNext
<1>1. Below # <<>> /\ Shape(Below, Len(events), mode.nests)
  BY ShapeBelow DEF IInv
<1>2. Below \in Seq(StackFrames)
  BY StackFacts DEF IInv
<1>3. Top.at # "setup"
  BY StackFacts DEF IInv, StackShape, Shape
<1>4. Below[1].at # "setup"
  BY <1>3, FirstFrame
<1>5. QED
  BY <1>1, <1>2, <1>4 DEF StackNext, StackShape, SetupInv

LEMMA Stays ==
    ASSUME IInv, mode' = mode, events' = events, stack' = stack, Top.at # "setup"
    PROVE  StackNext
<1>1. stack[1].at # "setup"
  BY FirstFrame
<1>2. QED
  BY <1>1 DEF IInv, LoopType, StackNext, StackShape, SetupInv

LEMMA StackStep ==
    ASSUME IInv, Next
    PROVE  StackNext
<1>1. mode' = mode /\ (~Wait => events' = events)
  <2>1. mode' = mode
    BY DEF Next, Setup, Wait, Leave, ProcessEvent, EventsDone, RunDeferred, DeferredDone,
         Arrives, Cancel, Schedule, SetFd, TriggeredRequest, Push, Defer, Interrupt,
         Nest, Pop, Return
  <2>2. QED
    BY <2>1, EventsSame
<1>2. /\ Len(stack) \in Nat \ {0} /\ Top = stack[Len(stack)]
      /\ deferred \in Seq(Calls) /\ events \in Seq(Reports) /\ Len(events) \in Nat
      /\ mode.perWait \in Nat \ {0}
  BY StackFacts DEF IInv, LoopType
<1>3. CASE Setup
  <2>1. Len(stack) = 1 /\ Top = stack[1] /\ Top \in SetupFrames /\ events = <<>> /\ deferred = <<>>
    BY <1>3, SetupShape DEF Setup
  <2>2. events' = events
    BY <1>3 DEF Setup
  <2>3. CASE Top.left = {}
    <3> DEFINE f == Loop(FALSE, FALSE, deferred)
    <3>1. stack' = Append(<<>>, f)
      BY <1>3, <2>3 DEF Setup, ProcessDeferred
    <3>2. f \in StackFrames /\ f.at = "deferred" /\ f.once = FALSE
      BY <1>2, FrameTypes DEF Loop
    <3> HIDE DEF f
    <3>3. stack' \in Seq(StackFrames) /\ Len(stack') = 1 /\ stack'[1] = f /\ stack' # <<>>
      BY <3>1, <3>2
    <3>4. Shape(stack', Len(events'), mode'.nests)
      BY <3>2, <3>3, ShapeOne
    <3>5. QED
      BY <3>2, <3>3, <3>4 DEF StackNext, StackShape, SetupInv
  <2>4. CASE Top.left # {}
    <3>1. PICK t \in Top.left :
            /\ handle' = [handle EXCEPT ![t] = RegisterFd(Pool, t, FALSE).handle]
            /\ stack' = <<[at |-> "setup", left |-> Top.left \ {t}]>>
            /\ deferred' = deferred
      BY <1>3, <2>4 DEF Setup
    <3> DEFINE f == [at |-> "setup", left |-> Top.left \ {t}]
    <3>2. f \in StackFrames /\ f.at = "setup" /\ f.left = Top.left \ {t}
      BY <2>1 DEF StackFrames, SetupFrames
    <3> HIDE DEF f
    <3>3. stack' \in Seq(StackFrames) /\ Len(stack') = 1 /\ stack'[1] = f /\ stack' # <<>>
      BY <3>1, <3>2 DEF f
    <3>4. ASSUME NEW u \in Top.left \ {t} PROVE handle'[u] = Invalid
      <4>1. handle[u] = Invalid /\ u \in Tasks
        BY <1>3, <2>1 DEF IInv, SetupInv, Setup, SetupFrames, Tasks
      <4>2. QED
        BY <3>1, <3>4, <4>1 DEF IInv, PoolInv
    <3>5. Shape(stack', Len(events'), mode'.nests)
      BY <3>2, <3>3, ShapeOne
    <3>6. QED
      BY <2>1, <2>2, <3>1, <3>2, <3>3, <3>4, <3>5 DEF StackNext, StackShape, SetupInv
  <2>5. QED
    BY <2>3, <2>4
<1>4. CASE Wait
  <2>1. PICK n \in Nat : /\ stack' = Replace(Events(Top.once, ToProcess(n)))
                         /\ events' \in Seq(Reports)
                         /\ Len(events') = IF n >= Len(events) THEN n ELSE Len(events)
    BY <1>4, WaitFacts
  <2>2. Top \in WaitFrames
    BY <1>4, TopType DEF IInv, Wait
  <2>3. ToProcess(n) \in Nat /\ ToProcess(n) <= n
    BY <1>2, <2>1 DEF ToProcess
  <2> DEFINE f == Events(Top.once, ToProcess(n))
  <2>4. f \in StackFrames
    BY <2>2, <2>3, FrameTypes DEF WaitFrames
  <2>5. /\ f.at \in Loops /\ f.at = "events" /\ f.once = Top.once
        /\ f.next = 1 /\ f.last = ToProcess(n)
    BY DEF Events, Loops
  <2>6. Len(events') \in Nat /\ Len(events) <= Len(events') /\ f.last <= Len(events')
    BY <1>2, <2>1, <2>3, <2>5
  <2>7. Top.at \in Loops
    BY <1>4 DEF Wait, Loops
  <2> HIDE DEF f
  <2>8. QED
    BY <1>1, <2>1, <2>4, <2>5, <2>6, <2>7, MovesOn DEF f
<1>5. CASE Leave
  <2>1. CASE Top.once
    <3>1. Len(stack) > 1 /\ stack' = Below /\ events' = events
      BY <1>5, <2>1, OnceIsNested DEF Leave, Loops
    <3>2. QED
      BY <1>1, <3>1, Returns
  <2>2. CASE ~Top.once
    <3>1. stack' = <<[at |-> "returned"]>>
      BY <1>5, <2>2 DEF Leave
    <3>2. Len(stack') = 1 /\ stack'[1].at = "returned" /\ stack'[1] \in ReturnedFrames
      BY <3>1 DEF ReturnedFrames
    <3>3. stack' \in Seq(StackFrames)
      BY <3>1 DEF StackFrames, ReturnedFrames
    <3>4. Shape(stack', Len(events'), mode'.nests)
      BY <3>2, ShapeOne
    <3>5. QED
      BY <3>2, <3>3, <3>4 DEF StackNext, StackShape, SetupInv
  <2>3. QED
    BY <2>1, <2>2
<1>6. CASE ProcessEvent
  <2>1. Top \in EventsFrames /\ Top.at = "events" /\ Top.at \in Loops
    BY <1>6, TopType DEF IInv, ProcessEvent, Loops
  <2> DEFINE e == events[Top.next]
             f == [Top EXCEPT !.next = @ + 1]
  <2>2. /\ f \in StackFrames /\ f.at = "events" /\ f.at \in Loops /\ f.once = Top.once
        /\ f.next = Top.next + 1 /\ f.last = Top.last
    BY <2>1 DEF StackFrames, EventsFrames, Loops
  <2>3. Top.next >= 1 /\ Top.last <= Len(events) /\ Top.next <= Top.last
        /\ Top.next \in Nat /\ Top.last \in Nat
    <3>1. Len(stack) \in 1..Len(stack)
      BY <1>2
    <3>2. Top.next >= 1 /\ Top.last <= Len(events)
      BY <1>2, <2>1, <3>1 DEF IInv, StackShape, Shape
    <3>3. QED
      BY <1>6, <2>1, <3>2 DEF ProcessEvent, EventsFrames
  <2>4. e \in Reports /\ f.next >= 1 /\ f.last <= Len(events)
    <3>1. Top.next \in 1..Len(events)
      BY <1>2, <2>3
    <3> HIDE DEF f
    <3>2. QED
      BY <1>2, <2>2, <2>3, <3>1
  <2>5. CASE Live(pool, e.h)
    <3> DEFINE c == pool[e.h.slot]
    <3>1. c \in SlotStates /\ c.owner \in Tasks
      BY <2>5 DEF Live, IInv, PoolInv, PoolType, Pool
    <3>2. PICK pops \in PollCounts(c.owner) :
            stack' = Append(Replace(f), Callback(c.owner, c.reg, pops))
      BY <1>6, <2>5 DEF ProcessEvent
    <3>3. pops \in Nat /\ (pops > 0 => c.owner \in Queues)
      <4>1. QueueSize \in Nat /\ (c.owner \in Queues => queue[c.owner].signal \in Nat)
        BY EventLoopAssumption DEF IInv, LoopType
      <4> HIDE DEF c
      <4>2. QED
        BY <4>1 DEF PollCounts
    <3> DEFINE g == Callback(c.owner, c.reg, pops)
    <3>4. g \in StackFrames
      BY <3>1, <3>3, FrameTypes DEF SlotStates
    <3>5. g.at = "callback" /\ g.task = c.owner /\ g.pops = pops
      BY DEF Callback
    <3> HIDE DEF f, g, c
    <3>6. QED
      BY <1>1, <1>6, <2>1, <2>2, <2>4, <3>2, <3>3, <3>4, <3>5, CallsBack
      DEF ProcessEvent, g
  <2>6. CASE ~Live(pool, e.h)
    <3>1. stack' = Replace(f) /\ events' = events
      BY <1>6, <2>6 DEF ProcessEvent
    <3> HIDE DEF f
    <3>2. QED
      BY <1>1, <1>2, <2>1, <2>2, <2>4, <3>1, MovesOn
  <2>7. QED
    BY <2>5, <2>6
<1>7. CASE EventsDone
  <2>1. Top \in EventsFrames /\ Top.at = "events" /\ Top.at \in Loops
    BY <1>7, TopType DEF IInv, EventsDone, Loops
  <2> DEFINE f == Loop(Top.once, TRUE, deferred)
  <2>2. f \in StackFrames /\ f.at = "deferred" /\ f.at \in Loops /\ f.once = Top.once
    BY <1>2, <2>1, FrameTypes DEF EventsFrames, Loop, Loops
  <2>3. stack' = Replace(f) /\ events' = events
    BY <1>7 DEF EventsDone, ProcessDeferred, Replace
  <2> HIDE DEF f
  <2>4. QED
    BY <1>1, <1>2, <2>1, <2>2, <2>3, MovesOn
<1>8. CASE RunDeferred
  <2>1. Top \in LoopFrames /\ Top.at = "deferred" /\ Top.at \in Loops /\ Top.calls # <<>>
    BY <1>8, TopType DEF IInv, RunDeferred, Loops
  <2> DEFINE c == Head(Top.calls)
             f == [Top EXCEPT !.calls = Tail(@)]
             g == Callback(NoTask, 0, 0)
  <2>2. Top.calls \in Seq(Calls) /\ Tail(Top.calls) \in Seq(Calls) /\ c \in Calls
    BY <2>1 DEF LoopFrames
  <2>3. f \in StackFrames /\ f.at = "deferred" /\ f.at \in Loops /\ f.once = Top.once
    BY <2>1, <2>2 DEF StackFrames, LoopFrames, Loops
  <2>4. g \in StackFrames /\ g.at = "callback" /\ g.pops = 0 /\ g.task = NoTask
    BY FrameTypes DEF Callback
  <2>5. events' = events /\ stack' \in {Replace(f), Append(Replace(f), g)}
    BY <1>8, <2>2 DEF RunDeferred, Calls, CancelCalls, UserCalls
  <2> HIDE DEF c, f, g
  <2>6. CASE stack' = Replace(f)
    BY <1>1, <1>2, <2>1, <2>3, <2>5, <2>6, MovesOn
  <2>7. CASE stack' = Append(Replace(f), g)
    <3>1. ~(g.pops > 0)
      BY <2>4
    <3>2. QED
      BY <1>1, <2>1, <2>3, <2>4, <2>5, <2>7, <3>1, CallsBack
  <2>8. QED
    BY <2>5, <2>6, <2>7
<1>9. CASE DeferredDone
  <2>1. Top \in LoopFrames /\ Top.at \in Loops /\ events' = events
    BY <1>9, TopType DEF IInv, DeferredDone, Loops
  <2>2. CASE Top.once /\ Top.waited
    <3>1. stack' = Below /\ Len(stack) > 1
      BY <1>9, <2>1, <2>2, OnceIsNested DEF DeferredDone
    <3>2. QED
      BY <1>1, <2>1, <3>1, Returns
  <2>3. CASE ~(Top.once /\ Top.waited)
    <3> DEFINE f == Waiting(Top.once)
    <3>1. f \in StackFrames /\ f.at = "wait" /\ f.at \in Loops /\ f.once = Top.once
      BY <2>1, FrameTypes DEF LoopFrames, Waiting, Loops
    <3>2. stack' = Replace(f)
      BY <1>9, <2>3 DEF DeferredDone
    <3> HIDE DEF f
    <3>3. QED
      BY <1>1, <1>2, <2>1, <3>1, <3>2, MovesOn
  <2>4. QED
    BY <2>2, <2>3
<1>10. CASE Nest
  <2> DEFINE g == Loop(TRUE, FALSE, deferred)
  <2>1. stack' = Append(stack, g) /\ events' = events /\ mode.nests /\ Top.at = "callback"
    BY <1>10 DEF Nest, ProcessDeferred, Step, InCallback
  <2>2. g \in StackFrames /\ g.at = "deferred" /\ g.once = TRUE
    BY <1>2, FrameTypes DEF Loop
  <2>3. stack \in Seq(StackFrames) /\ stack # <<>> /\ Shape(stack, Len(events), mode.nests)
    BY DEF IInv, LoopType, StackShape
  <2> HIDE DEF g
  <2>4. Shape(stack', Len(events), mode.nests)
    BY <1>2, <2>1, <2>2, <2>3, ShapePush
  <2>5. /\ stack' \in Seq(StackFrames) /\ stack' # <<>>
        /\ \A i \in 1..Len(stack) : stack'[i] = stack[i]
    BY <2>1, <2>2, <2>3, AppendFacts
  <2>6. stack'[1].at # "setup"
    BY <1>2, <2>1, <2>5, FirstFrame
  <2>7. QED
    BY <1>1, <2>1, <2>4, <2>5, <2>6 DEF StackNext, StackShape, SetupInv
<1>11. CASE Pop
  <2> DEFINE f == [Top EXCEPT !.pops = @ - 1]
  <2>1. Top \in CallbackFrames /\ Top.at = "callback" /\ Top.pops > 0 /\ Top.pops \in Nat
        /\ Top.task \in Queues
    BY <1>2, <1>11, TopType DEF IInv, Pop, InCallback, StackShape, Shape, CallbackFrames
  <2>2. f \in StackFrames /\ f.at = "callback" /\ f.task = Top.task
    BY <2>1 DEF StackFrames, CallbackFrames
  <2>3. stack' = Replace(f) /\ events' = events
    BY <1>11 DEF Pop
  <2> HIDE DEF f
  <2>4. QED
    BY <1>1, <1>2, <2>1, <2>2, <2>3, MovesOn
<1>12. CASE Return
  <2>1. Top.at = "callback" /\ stack' = Below /\ events' = events
    BY <1>12 DEF Return, InCallback
  <2>2. Len(stack) > 1
    BY <1>2, <2>1 DEF IInv, StackShape, Shape
  <2>3. QED
    BY <1>1, <2>1, <2>2, Returns
<1>13. CASE \/ \E t \in Tasks : Arrives(t) \/ Cancel(t) \/ Schedule(t)
            \/ \E t \in Sources : SetFd(t)
            \/ \E t \in Timers : TriggeredRequest(t)
            \/ \E t \in Queues : Push(t)
            \/ Defer \/ Interrupt
  BY <1>1, <1>13, Stays DEF Arrives, Cancel, Schedule, SetFd, TriggeredRequest, Push,
     Defer, Interrupt, Step, InCallback
<1>14. QED
  BY <1>3, <1>4, <1>5, <1>6, <1>7, <1>8, <1>9, <1>10, <1>11, <1>12, <1>13 DEF Next

----------------------------------------------------------------------------
(***************************************************************************)
(* The types.                                                              *)
(***************************************************************************)
LEMMA DeferredType ==
    ASSUME IInv, Next
    PROVE  deferred' \in Seq(Calls)
<1>1. deferred \in Seq(Calls) /\ <<>> \in Seq(Calls)
  BY DEF IInv, LoopType
<1>2. CASE deferred' \in {deferred, <<>>}
  BY <1>1, <1>2
<1>3. CASE Defer
  <2>1. UserCall(Origin) \in Calls
    BY DEF UserCall, Origin, Origins, Calls, UserCalls
  <2>2. deferred' = Append(deferred, UserCall(Origin))
    BY <1>3 DEF Defer
  <2>3. QED
    BY <1>1, <2>1, <2>2, AppendFacts
<1>4. CASE Return
  <2>1. CASE Top.task \in Timers
    <3>1. object[Top.task].id \in Nat /\ Origin \in Origins
      BY <2>1 DEF IInv, LoopType, Origin, Origins
    <3>2. CancelCall(Top.task, Origin) \in Calls
      BY <2>1, <3>1 DEF CancelCall, Calls, CancelCalls
    <3>3. deferred' = Append(deferred, CancelCall(Top.task, Origin))
      BY <1>4, <2>1 DEF Return
    <3>4. QED
      BY <1>1, <3>2, <3>3, AppendFacts
  <2>2. QED
    BY <1>1, <1>4, <2>1 DEF Return
<1>5. QED
  BY <1>2, <1>3, <1>4 DEF Next, Setup, Wait, Leave, ProcessEvent, EventsDone, RunDeferred,
     DeferredDone, Arrives, Cancel, Schedule, SetFd, TriggeredRequest, Push, Interrupt,
     Nest, Pop, ProcessDeferred

LEMMA ReadsType ==
    ASSUME IInv, NEW t \in Tasks, Reads(t)
    PROVE  /\ ready' \subseteq Timers \cup Sources
           /\ object' \in [Timers -> [id : Nat, awaited : BOOLEAN]]
           /\ queue' \in [Queues -> [size : 0..QueueSize, signal : Nat]]
           /\ \A u \in Timers : object'[u].id = object[u].id
<1>1. /\ ready \subseteq Timers \cup Sources
      /\ object \in [Timers -> [id : Nat, awaited : BOOLEAN]]
      /\ queue \in [Queues -> [size : 0..QueueSize, signal : Nat]]
  BY DEF IInv, LoopType
<1>2. /\ ready' \in {ready, ready \ {t}}
      /\ object' \in {object, [object EXCEPT ![t].awaited = FALSE]}
      /\ queue' \in {queue, [queue EXCEPT ![t].signal = 0]}
      /\ object' # object => t \in Timers
      /\ queue' # queue => t \in Queues
  BY DEF Reads, Tasks
<1>3. object' \in [Timers -> [id : Nat, awaited : BOOLEAN]]
      /\ \A u \in Timers : object'[u].id = object[u].id
  <2>1. CASE object' = object
    BY <1>1, <2>1
  <2>2. CASE object' # object
    <3> DEFINE o == [object[t] EXCEPT !.awaited = FALSE]
    <3>1. o \in [id : Nat, awaited : BOOLEAN] /\ o.id = object[t].id
      <4>1. t \in Timers
        BY <1>2, <2>2
      <4>2. QED
        BY <1>1, <4>1
    <3>2. object' = [object EXCEPT ![t] = o]
      BY <1>2, <2>2
    <3> HIDE DEF o
    <3>3. QED
      BY <1>1, <3>1, <3>2
  <2>3. QED
    BY <2>1, <2>2
<1>4. queue' \in [Queues -> [size : 0..QueueSize, signal : Nat]]
  BY <1>1, <1>2
<1>5. QED
  BY <1>1, <1>2, <1>3, <1>4

LEMMA DataStep ==
    ASSUME IInv, Next
    PROVE  LoopType'
<1>1. LoopType /\ steps \in 0..MaxSteps /\ MaxSteps \in Nat
  BY EventLoopAssumption DEF IInv, LoopType
<1>2. stack' \in Seq(StackFrames) /\ deferred' \in Seq(Calls)
  BY StackStep, DeferredType DEF StackNext
<1>3. mode' \in [perWait : Nat \ {0}, nests : BOOLEAN] /\ interrupted' \in BOOLEAN
  BY <1>1 DEF Next, Setup, Wait, Leave, ProcessEvent, EventsDone, RunDeferred, DeferredDone,
     Arrives, Cancel, Schedule, SetFd, TriggeredRequest, Push, Defer, Interrupt,
     Nest, Pop, Return, LoopType
<1>4. events' \in Seq(Reports) /\ Len(events') <= EventCount
  <2>1. CASE Wait
    <3>1. PICK n \in Nat : /\ n <= EventCount /\ events' \in Seq(Reports)
                           /\ Len(events') = IF n >= Len(events) THEN n ELSE Len(events)
      BY <2>1, WaitFacts
    <3>2. QED
      BY <1>1, <3>1 DEF LoopType
  <2>2. CASE ~Wait
    BY <1>1, <2>2, EventsSame DEF LoopType
  <2>3. QED
    BY <2>1, <2>2
<1>5. steps' \in 0..MaxSteps
  <2>1. steps' = steps \/ (steps' = steps + 1 /\ steps < MaxSteps)
    BY DEF Next, Setup, Wait, Leave, ProcessEvent, EventsDone, RunDeferred, DeferredDone,
       Arrives, Cancel, Schedule, SetFd, TriggeredRequest, Push, Defer, Interrupt,
       Nest, Pop, Return, Step
  <2>2. QED
    BY <1>1, <2>1
<1>6. /\ ready' \subseteq Timers \cup Sources
      /\ object' \in [Timers -> [id : Nat, awaited : BOOLEAN]]
      /\ queue' \in [Queues -> [size : 0..QueueSize, signal : Nat]]
  <2> DEFINE Rest == /\ ready' \subseteq Timers \cup Sources
                     /\ object' \in [Timers -> [id : Nat, awaited : BOOLEAN]]
                     /\ queue' \in [Queues -> [size : 0..QueueSize, signal : Nat]]
  <2>1. CASE UNCHANGED <<object, queue>> /\ ready' \subseteq ready
    BY <1>1, <2>1 DEF LoopType
  <2>2. ASSUME NEW t \in Tasks, Arrives(t) PROVE Rest
    BY <1>1, <2>2 DEF Arrives, LoopType
  <2>3. CASE ProcessEvent
    <3>1. CASE Live(pool, events[Top.next].h)
      <4>1. pool[events[Top.next].h.slot].owner \in Tasks
        BY <3>1 DEF Live, IInv, PoolInv, PoolType, Pool
      <4>2. Reads(pool[events[Top.next].h.slot].owner)
        BY <2>3, <3>1 DEF ProcessEvent
      <4>3. QED
        BY <4>1, <4>2, ReadsType
    <3>2. CASE ~Live(pool, events[Top.next].h)
      BY <1>1, <2>3, <3>2 DEF ProcessEvent, LoopType
    <3>3. QED
      BY <3>1, <3>2
  <2>4. ASSUME NEW t \in Timers, TriggeredRequest(t) PROVE Rest
    <3> DEFINE o == [id |-> object[t].id + 1, awaited |-> TRUE]
    <3>1. o \in [id : Nat, awaited : BOOLEAN]
      BY <1>1 DEF LoopType
    <3>2. object' = [object EXCEPT ![t] = o] /\ queue' = queue /\ ready' = ready \ {t}
      BY <2>4 DEF TriggeredRequest
    <3> HIDE DEF o
    <3>3. QED
      BY <1>1, <3>1, <3>2 DEF LoopType
  <2>5. ASSUME NEW t \in Queues, Push(t) PROVE Rest
    <3>1. queue[t] \in [size : 0..QueueSize, signal : Nat] /\ QueueSize \in Nat
      BY <1>1, EventLoopAssumption DEF LoopType
    <3>2. PushTo(queue[t]) \in [size : 0..QueueSize, signal : Nat]
      BY <3>1 DEF PushTo
    <3>3. QED
      BY <1>1, <2>5, <3>2 DEF Push, LoopType
  <2>6. CASE Pop
    <3> DEFINE t == Top.task
               q == [queue[t] EXCEPT !.size = @ - 1]
    <3>1. t \in Queues
      <4>1. Top \in CallbackFrames /\ Top.at = "callback" /\ Top.pops > 0
        BY <2>6, TopType DEF IInv, Pop, InCallback
      <4>2. Len(stack) \in 1..Len(stack) /\ Top = stack[Len(stack)]
        BY StackFacts DEF IInv
      <4>3. QED
        BY <4>1, <4>2 DEF IInv, StackShape, Shape
    <3>2. queue[t] \in [size : 0..QueueSize, signal : Nat] /\ QueueSize \in Nat
          /\ queue[t].size > 0
      BY <1>1, <2>6, <3>1, EventLoopAssumption DEF LoopType, Pop
    <3>3. q \in [size : 0..QueueSize, signal : Nat]
      BY <3>2
    <3>4. queue' = [queue EXCEPT ![t] = q] /\ UNCHANGED <<object, ready>>
      BY <2>6 DEF Pop
    <3> HIDE DEF q, t
    <3>5. QED
      BY <1>1, <3>1, <3>3, <3>4 DEF LoopType
  <2> HIDE DEF Rest
  <2>7. CASE Setup \/ Wait \/ Leave \/ EventsDone \/ DeferredDone \/ Defer \/ Interrupt
             \/ Nest \/ Return
    BY <2>1, <2>7 DEF Setup, Wait, Leave, EventsDone, DeferredDone, Defer, Interrupt, Nest,
       Return, Rest
  <2>8. CASE RunDeferred
    <3>1. Top \in LoopFrames /\ Top.calls # <<>>
      BY <2>8, TopType DEF IInv, RunDeferred
    <3>2. Head(Top.calls).call \in {"cancel", "user"}
      BY <3>1 DEF LoopFrames, Calls, CancelCalls, UserCalls
    <3>3. UNCHANGED <<object, queue>> /\ ready' \subseteq ready
      BY <2>8, <3>2 DEF RunDeferred, Cancelled
    <3>4. QED
      BY <2>1, <3>3 DEF Rest
  <2>9. ASSUME NEW t \in Tasks, Cancel(t) \/ Schedule(t) \/ (t \in Sources /\ SetFd(t))
        PROVE  Rest
    <3>1. UNCHANGED <<object, queue>> /\ ready' \subseteq ready
      BY <2>9 DEF Cancel, Schedule, SetFd, Cancelled
    <3>2. QED
      BY <2>1, <3>1 DEF Rest
  <2>10. QED
    BY <2>2, <2>3, <2>4, <2>5, <2>6, <2>7, <2>8, <2>9 DEF Next, Rest, Tasks
<1>7. QED
  BY <1>2, <1>3, <1>4, <1>5, <1>6 DEF LoopType

----------------------------------------------------------------------------
(***************************************************************************)
(* The frames after a move of the stack.                                   *)
(***************************************************************************)
LEMMA EntriesReplace ==
    ASSUME IInv, NEW f \in StackFrames, stack' = Replace(f)
    PROVE  /\ Len(stack') = Len(stack) /\ Top' = f
           /\ \A i \in 1..Len(stack') :
                \/ i \in 1..(Len(stack) - 1) /\ stack'[i] = stack[i]
                \/ i = Len(stack) /\ stack'[i] = f
<1>1. Len(stack) \in Nat \ {0}
  BY StackFacts DEF IInv
<1>2. /\ Len(stack') = Len(stack) /\ stack'[Len(stack)] = f
      /\ \A i \in 1..(Len(stack) - 1) : stack'[i] = stack[i]
  BY ReplaceFacts DEF IInv
<1>3. QED
  BY <1>1, <1>2 DEF Top

LEMMA EntriesBelow ==
    ASSUME IInv, Len(stack) > 1, stack' = Below
    PROVE  /\ Len(stack') = Len(stack) - 1 /\ Top' = stack[Len(stack) - 1]
           /\ Len(stack) - 1 \in 1..Len(stack')
           /\ \A i \in 1..Len(stack') : i \in 1..(Len(stack) - 1) /\ stack'[i] = stack[i]
<1>1. Len(stack) \in Nat \ {0}
  BY StackFacts DEF IInv
<1>2. /\ Len(stack') = Len(stack) - 1
      /\ \A i \in 1..(Len(stack) - 1) : stack'[i] = stack[i]
  BY StackFacts DEF IInv
<1>3. Len(stack) - 1 \in 1..(Len(stack) - 1)
  BY <1>1, OneOrMore
<1>4. QED
  BY <1>1, <1>2, <1>3 DEF Top

LEMMA EntriesCall ==
    ASSUME IInv, NEW f \in StackFrames, NEW g \in StackFrames,
           stack' = Append(Replace(f), g)
    PROVE  /\ Len(stack') = Len(stack) + 1 /\ Top' = g
           /\ \A i \in 1..Len(stack') :
                \/ i \in 1..(Len(stack) - 1) /\ stack'[i] = stack[i]
                \/ i = Len(stack) /\ stack'[i] = f
                \/ i = Len(stack) + 1 /\ stack'[i] = g
<1> DEFINE q == Replace(f)
<1>1. Len(stack) \in Nat \ {0}
  BY StackFacts DEF IInv
<1>2. /\ q \in Seq(StackFrames) /\ Len(q) = Len(stack) /\ q[Len(stack)] = f
      /\ \A i \in 1..(Len(stack) - 1) : q[i] = stack[i]
  BY ReplaceFacts DEF IInv
<1> HIDE DEF q
<1>3. /\ Len(Append(q, g)) = Len(q) + 1 /\ Append(q, g)[Len(q) + 1] = g
      /\ \A i \in 1..Len(q) : Append(q, g)[i] = q[i]
  BY <1>2, AppendFacts
<1>4. stack' = Append(q, g)
  BY DEF q
<1>5. QED
  BY <1>1, <1>2, <1>3, <1>4 DEF Top

LEMMA EntriesNest ==
    ASSUME IInv, NEW g \in StackFrames, stack' = Append(stack, g)
    PROVE  /\ Len(stack') = Len(stack) + 1 /\ Top' = g
           /\ \A i \in 1..Len(stack') :
                \/ i \in 1..Len(stack) /\ stack'[i] = stack[i]
                \/ i = Len(stack) + 1 /\ stack'[i] = g
<1>1. Len(stack) \in Nat \ {0} /\ stack \in Seq(StackFrames)
  BY StackFacts DEF IInv, LoopType
<1>2. /\ Len(stack') = Len(stack) + 1 /\ stack'[Len(stack) + 1] = g
      /\ \A i \in 1..Len(stack) : stack'[i] = stack[i]
  BY <1>1, AppendFacts
<1>3. QED
  BY <1>1, <1>2 DEF Top

\* The frames that the actions put on the stack.
LEMMA NewFrames ==
    ASSUME IInv
    PROVE  /\ Top.at = "wait" =>
                \A n \in Nat : Events(Top.once, ToProcess(n)) \in StackFrames
           /\ Top.at = "events" =>
                LET f == [Top EXCEPT !.next = @ + 1]
                IN  /\ f \in StackFrames /\ f.at = "events" /\ f.next = Top.next + 1
                    /\ f.last = Top.last /\ Top.next \in Nat /\ Top.last \in Nat
                    /\ Top.next >= 1 /\ Top.last <= Len(events)
                    /\ Loop(Top.once, TRUE, deferred) \in StackFrames
           /\ Top.at = "deferred" =>
                /\ Waiting(Top.once) \in StackFrames /\ Top.calls \in Seq(Calls)
                /\ Top.calls # <<>> =>
                     LET f == [Top EXCEPT !.calls = Tail(@)]
                     IN  /\ f \in StackFrames /\ f.at = "deferred"
                         /\ f.calls = Tail(Top.calls)
           /\ Top.at = "callback" /\ Top.pops > 0 =>
                LET f == [Top EXCEPT !.pops = @ - 1]
                IN  f \in StackFrames /\ f.at = "callback" /\ f.task = Top.task
           /\ Callback(NoTask, 0, 0) \in StackFrames
           /\ Loop(TRUE, FALSE, deferred) \in StackFrames
<1>1. /\ deferred \in Seq(Calls) /\ mode.perWait \in Nat /\ Len(events) \in Nat
      /\ Len(stack) \in 1..Len(stack) /\ Top = stack[Len(stack)]
  BY StackFacts DEF IInv, LoopType
<1>2. ASSUME Top.at = "wait", NEW n \in Nat
      PROVE  Events(Top.once, ToProcess(n)) \in StackFrames
  <2>1. Top.once \in BOOLEAN /\ ToProcess(n) \in Nat
    BY <1>1, <1>2, TopType DEF IInv, WaitFrames, ToProcess
  <2>2. QED
    BY <2>1, FrameTypes
<1>3. ASSUME Top.at = "events"
      PROVE  LET f == [Top EXCEPT !.next = @ + 1]
             IN  /\ f \in StackFrames /\ f.at = "events" /\ f.next = Top.next + 1
                 /\ f.last = Top.last /\ Top.next \in Nat /\ Top.last \in Nat
                 /\ Top.next >= 1 /\ Top.last <= Len(events)
                 /\ Loop(Top.once, TRUE, deferred) \in StackFrames
  <2>1. Top \in EventsFrames
    BY <1>3, TopType DEF IInv
  <2>2. Top.next >= 1 /\ Top.last <= Len(events)
    BY <1>1, <1>3 DEF IInv, StackShape, Shape
  <2>3. Loop(Top.once, TRUE, deferred) \in StackFrames
    BY <1>1, <2>1, FrameTypes DEF EventsFrames
  <2> DEFINE f == [Top EXCEPT !.next = @ + 1]
  <2>4. /\ f \in EventsFrames /\ f.at = "events" /\ f.next = Top.next + 1
        /\ f.last = Top.last /\ Top.next \in Nat /\ Top.last \in Nat
    BY <2>1 DEF EventsFrames
  <2> HIDE DEF f
  <2>5. f \in StackFrames
    BY <2>4 DEF StackFrames
  <2>6. QED
    BY <2>2, <2>3, <2>4, <2>5 DEF f
<1>4. ASSUME Top.at = "deferred"
      PROVE  /\ Waiting(Top.once) \in StackFrames /\ Top.calls \in Seq(Calls)
             /\ Top.calls # <<>> =>
                  LET f == [Top EXCEPT !.calls = Tail(@)]
                  IN  /\ f \in StackFrames /\ f.at = "deferred"
                      /\ f.calls = Tail(Top.calls)
  <2>1. Top \in LoopFrames
    BY <1>4, TopType DEF IInv
  <2>2. Waiting(Top.once) \in StackFrames /\ Top.calls \in Seq(Calls)
    BY <2>1, FrameTypes DEF LoopFrames
  <2>3. Top.calls # <<>> => Tail(Top.calls) \in Seq(Calls)
    BY <2>2
  <2>4. QED
    BY <2>1, <2>2, <2>3 DEF StackFrames, LoopFrames
<1>5. ASSUME Top.at = "callback", Top.pops > 0
      PROVE  LET f == [Top EXCEPT !.pops = @ - 1]
             IN  f \in StackFrames /\ f.at = "callback" /\ f.task = Top.task
  <2>1. Top \in CallbackFrames
    BY <1>5, TopType DEF IInv
  <2>2. QED
    BY <1>5, <2>1 DEF StackFrames, CallbackFrames
<1>6. Callback(NoTask, 0, 0) \in StackFrames /\ Loop(TRUE, FALSE, deferred) \in StackFrames
  BY <1>1, FrameTypes
<1>7. QED
  BY <1>2, <1>3, <1>4, <1>5, <1>6

LEMMA SetupFrame ==
    ASSUME IInv, Setup
    PROVE  /\ Len(stack') = 1 /\ stack'[1].at \in {"setup", "deferred"}
           /\ deferred' = <<>> /\ Top' = stack'[1]
           /\ stack'[1].at = "deferred" => stack'[1].calls = <<>>
<1>1. deferred = <<>>
  BY SetupShape DEF Setup
<1> DEFINE f == Loop(FALSE, FALSE, deferred)
<1>2. CASE Top.left = {}
  <2>1. stack' = Append(<<>>, f) /\ deferred' = <<>>
    BY <1>2 DEF Setup, ProcessDeferred
  <2>2. f.at = "deferred" /\ f.calls = <<>>
    BY <1>1 DEF Loop
  <2> HIDE DEF f
  <2>3. QED
    BY <2>1, <2>2 DEF Top
<1>3. CASE Top.left # {}
  <2>1. PICK t \in Top.left : stack' = <<[at |-> "setup", left |-> Top.left \ {t}]>>
    BY <1>3 DEF Setup
  <2>2. deferred' = <<>>
    BY <1>1, <1>3 DEF Setup
  <2>3. QED
    BY <2>1, <2>2 DEF Top
<1>4. QED
  BY <1>2, <1>3

\* An event is dropped, or its callback is called.
LEMMA EventFrames ==
    ASSUME IInv, ProcessEvent
    PROVE  LET f == [Top EXCEPT !.next = @ + 1]
               e == events[Top.next]
               s == pool[e.h.slot]
           IN  /\ e \in Reports /\ Top.next \in 1..Len(events)
               /\ \/ ~Live(pool, e.h) /\ stack' = Replace(f) /\ object' = object
                  \/ /\ Live(pool, e.h) /\ s.owner \in Tasks /\ s.reg \in Nat
                     /\ Reads(s.owner)
                     /\ \E pops \in Nat : LET g == Callback(s.owner, s.reg, pops)
                                          IN  /\ g \in StackFrames
                                              /\ stack' = Append(Replace(f), g)
<1> DEFINE f == [Top EXCEPT !.next = @ + 1]
           e == events[Top.next]
           s == pool[e.h.slot]
<1>1. Top.next \in 1..Len(events) /\ e \in Reports
  <2>1. Top.at = "events" /\ Top.next <= Top.last
    BY DEF ProcessEvent
  <2>2. Top.next \in Nat /\ Top.last \in Nat /\ Top.next >= 1 /\ Top.last <= Len(events)
    BY <2>1, NewFrames
  <2>3. events \in Seq(Reports) /\ Len(events) \in Nat
    BY DEF IInv, LoopType
  <2>4. Top.next \in 1..Len(events)
    BY <2>1, <2>2, <2>3
  <2>5. QED
    BY <2>3, <2>4
<1>2. CASE ~Live(pool, e.h)
  BY <1>1, <1>2 DEF ProcessEvent
<1>3. CASE Live(pool, e.h)
  <2>1. s \in SlotStates /\ s.owner \in Tasks
    BY <1>3 DEF Live, IInv, PoolInv, PoolType, Pool
  <2>2. s.reg \in Nat
    BY <2>1 DEF SlotStates
  <2>3. Reads(s.owner)
    BY <1>3 DEF ProcessEvent
  <2>4. PICK pops \in PollCounts(s.owner) :
          stack' = Append(Replace(f), Callback(s.owner, s.reg, pops))
    BY <1>3 DEF ProcessEvent
  <2>5. pops \in Nat
    <3>1. QueueSize \in Nat /\ (s.owner \in Queues => queue[s.owner].signal \in Nat)
      BY EventLoopAssumption DEF IInv, LoopType
    <3> HIDE DEF s
    <3>2. QED
      BY <3>1 DEF PollCounts
  <2>6. Callback(s.owner, s.reg, pops) \in StackFrames
    <3> HIDE DEF s
    <3> QED BY <2>1, <2>2, <2>5, FrameTypes
  <2> HIDE DEF f, s
  <2>7. QED
    BY <1>1, <1>3, <2>1, <2>2, <2>3, <2>4, <2>5, <2>6 DEF f, s
<1>4. QED
  BY <1>2, <1>3

----------------------------------------------------------------------------
(***************************************************************************)
(* The events of a batch.                                                  *)
(***************************************************************************)
LEMMA BatchKept ==
    ASSUME IInv, mode' = mode, events' = events, mode.perWait = 1,
           NEW i \in 1..Len(stack'), stack'[i].at = "events",
           i \in 1..(Len(stack) - 1) /\ stack'[i] = stack[i]
    PROVE  stack'[i].last <= 1 /\ ~(stack'[i].next <= stack'[i].last)
<1>1. Len(stack) \in Nat \ {0}
  BY StackFacts DEF IInv
<1>2. i \in 1..Len(stack) /\ i # Len(stack)
  BY <1>1
<1>3. QED
  BY <1>2 DEF IInv, BatchInv

LEMMA BatchStep ==
    ASSUME IInv, Next
    PROVE  BatchInv'
<1> DEFINE Part == mode.perWait = 1 =>
                     \A i \in 1..Len(stack') : stack'[i].at = "events" =>
                        /\ stack'[i].last <= 1
                        /\ stack'[i].next <= stack'[i].last =>
                             i = Len(stack') /\ events'[1].depth = i
<1>1. mode' = mode /\ Len(stack) \in Nat \ {0} /\ Top = stack[Len(stack)]
      /\ mode.perWait \in Nat \ {0} /\ Len(events) \in Nat
  <2>1. mode' = mode
    BY DEF Next, Setup, Wait, Leave, ProcessEvent, EventsDone, RunDeferred, DeferredDone,
         Arrives, Cancel, Schedule, SetFd, TriggeredRequest, Push, Defer, Interrupt,
         Nest, Pop, Return
  <2>2. QED
    BY <2>1, StackFacts DEF IInv, LoopType
<1>2. CASE Wait
  <2>1. PICK n \in Nat :
             /\ stack' = Replace(Events(Top.once, ToProcess(n)))
             /\ Len(events') = IF n >= Len(events) THEN n ELSE Len(events)
             /\ \A i \in 1..n : \E t \in Tasks : events'[i] = Report(t)
             /\ \A i \in (n + 1)..Len(events) : events'[i] = events[i]
    BY <1>2, WaitFacts
  <2> DEFINE f == Events(Top.once, ToProcess(n))
  <2>2. f.next = 1 /\ f.last = ToProcess(n) /\ f \in StackFrames /\ Top.at = "wait"
    BY <1>2, NewFrames DEF Events, Wait
  <2>3. mode.perWait = 1 => f.last \in Nat /\ f.last <= 1 /\ f.last <= n
    BY <1>1, <2>2 DEF ToProcess
  <2> HIDE DEF f
  <2>4. /\ Len(stack') = Len(stack)
        /\ \A i \in 1..Len(stack') :
                \/ i \in 1..(Len(stack) - 1) /\ stack'[i] = stack[i]
                \/ i = Len(stack) /\ stack'[i] = f
    BY <2>1, <2>2, EntriesReplace DEF f
  <2>5. ASSUME NEW i \in 1..n PROVE events'[i].depth = Len(stack)
    <3>1. PICK t \in Tasks : events'[i] = Report(t)
      BY <2>1
    <3>2. QED
      BY <3>1 DEF Report
  <2>6. Part
    <3> SUFFICES ASSUME mode.perWait = 1, NEW i \in 1..Len(stack'), stack'[i].at = "events"
                 PROVE  /\ stack'[i].last <= 1
                        /\ stack'[i].next <= stack'[i].last =>
                             i = Len(stack') /\ events'[1].depth = i
      OBVIOUS
    <3>1. CASE i \in 1..(Len(stack) - 1) /\ stack'[i] = stack[i]
      <4>1. i \in 1..Len(stack) /\ i # Len(stack)
        BY <1>1, <3>1
      <4>2. stack[i].last <= 1 /\ ~(stack[i].next <= stack[i].last)
        BY <3>1, <4>1 DEF IInv, BatchInv
      <4>3. QED
        BY <3>1, <4>2
    <3>2. CASE i = Len(stack) /\ stack'[i] = f
      <4>1. f.next <= f.last => 1 \in 1..n
        BY <2>2, <2>3
      <4>2. QED
        BY <2>3, <2>4, <2>5, <3>2, <4>1
    <3>3. QED
      BY <2>4, <3>1, <3>2
  <2>7. ASSUME ~mode.nests, NEW j \in 1..Len(events') PROVE events'[j].depth = 1
    <3>1. Len(stack) = 1
      <4>1. Len(stack) \in 1..Len(stack) /\ Top.at = "wait"
        BY <1>1, <2>2
      <4>2. QED
        BY <1>1, <2>7, <4>1 DEF IInv, StackShape, Shape
    <3>2. CASE j \in 1..n
      BY <2>5, <3>1, <3>2
    <3>3. CASE j \notin 1..n
      <4>1. j \in (n + 1)..Len(events) /\ j \in 1..Len(events)
        BY <1>1, <2>1, <3>3
      <4>2. QED
        BY <2>1, <2>7, <4>1 DEF IInv, BatchInv
    <3>4. QED
      BY <3>2, <3>3
  <2>8. QED
    BY <1>1, <2>6, <2>7 DEF BatchInv
<1>3. CASE ~Wait
  <2>1. events' = events
    BY <1>3, EventsSame
  <2>2. SUFFICES ASSUME mode.perWait = 1, NEW i \in 1..Len(stack'), stack'[i].at = "events"
                 PROVE  \/ stack'[i].last <= 1 /\ ~(stack'[i].next <= stack'[i].last)
                        \/ stack' = stack /\ i \in 1..Len(stack)
    <3>1. \A i \in 1..Len(stack') : stack'[i].at = "events" /\ mode.perWait = 1 =>
             \/ stack'[i].last <= 1 /\ ~(stack'[i].next <= stack'[i].last)
             \/ stack' = stack /\ i \in 1..Len(stack)
      BY <2>2
    <3>2. Part
      BY <2>1, <3>1 DEF IInv, BatchInv
    <3>3. QED
      BY <1>1, <2>1, <3>2 DEF IInv, BatchInv
  <2>3. CASE i \in 1..(Len(stack) - 1) /\ stack'[i] = stack[i]
    BY <1>1, <2>1, <2>2, <2>3, BatchKept
  <2>4. CASE stack' = stack
    BY <2>4
  <2>5. CASE Setup
    <3>1. Len(stack') = 1 /\ stack'[1].at # "events"
      BY <2>5, SetupFrame
    <3>2. QED
      BY <2>2, <3>1
  <2>6. CASE Leave
    <3>1. CASE Top.once
      <4>1. Len(stack) > 1 /\ stack' = Below
        BY <2>6, <3>1, OnceIsNested DEF Leave, Loops
      <4>2. QED
        BY <2>3, <4>1, EntriesBelow
    <3>2. CASE ~Top.once
      <4>1. Len(stack') = 1 /\ stack'[1].at # "events"
        BY <2>6, <3>2 DEF Leave
      <4>2. QED
        BY <2>2, <4>1
    <3>3. QED
      BY <3>1, <3>2
  <2>7. CASE ProcessEvent
    <3> DEFINE f == [Top EXCEPT !.next = @ + 1]
    <3>1. Top.at = "events" /\ f \in StackFrames /\ f.next = Top.next + 1 /\ f.last = Top.last
          /\ Top.next \in Nat /\ Top.last \in Nat /\ Top.next >= 1 /\ Top.next <= Top.last
      BY <2>7, NewFrames DEF ProcessEvent
    <3>2. Top.last <= 1
      BY <1>1, <2>2, <3>1 DEF IInv, BatchInv
    <3>3. f.last <= 1 /\ ~(f.next <= f.last)
      <4> HIDE DEF f
      <4> QED BY <3>1, <3>2
    <3>4. \/ stack' = Replace(f)
          \/ \E g \in StackFrames : g.at = "callback" /\ stack' = Append(Replace(f), g)
      BY <2>7, EventFrames DEF Callback
    <3> HIDE DEF f
    <3>5. \/ i \in 1..(Len(stack) - 1) /\ stack'[i] = stack[i]
          \/ stack'[i] = f
          \/ stack'[i].at = "callback"
      BY <3>1, <3>4, EntriesReplace, EntriesCall
    <3>6. QED
      BY <2>2, <2>3, <3>3, <3>5
  <2>8. CASE \/ EventsDone \/ RunDeferred \/ Pop
             \/ (DeferredDone /\ ~(Top.once /\ Top.waited))
    <3>1. \/ \E f \in StackFrames : f.at # "events" /\ stack' = Replace(f)
          \/ \E f, g \in StackFrames : f.at # "events" /\ g.at # "events"
                                        /\ stack' = Append(Replace(f), g)
      <4>1. CASE EventsDone
        <5>1. Loop(Top.once, TRUE, deferred) \in StackFrames
          BY <4>1, NewFrames DEF EventsDone
        <5>2. QED
          BY <4>1, <5>1 DEF EventsDone, ProcessDeferred, Replace, Loop
      <4>2. CASE RunDeferred
        <5> DEFINE f == [Top EXCEPT !.calls = Tail(@)]
                   g == Callback(NoTask, 0, 0)
        <5>1. f \in StackFrames /\ f.at # "events" /\ Top.calls \in Seq(Calls) /\ Top.calls # <<>>
          BY <4>2, NewFrames DEF RunDeferred
        <5>2. g \in StackFrames /\ g.at # "events"
          BY NewFrames DEF Callback
        <5>3. Head(Top.calls).call \in {"cancel", "user"}
          BY <5>1 DEF Calls, CancelCalls, UserCalls
        <5>4. stack' \in {Replace(f), Append(Replace(f), g)}
          BY <4>2, <5>3 DEF RunDeferred
        <5> HIDE DEF f, g
        <5>5. QED
          BY <5>1, <5>2, <5>4
      <4>3. CASE Pop
        <5> DEFINE f == [Top EXCEPT !.pops = @ - 1]
        <5>1. f \in StackFrames /\ f.at # "events" /\ stack' = Replace(f)
          BY <4>3, NewFrames DEF Pop, InCallback
        <5> HIDE DEF f
        <5>2. QED
          BY <5>1
      <4>4. CASE DeferredDone /\ ~(Top.once /\ Top.waited)
        <5>1. Waiting(Top.once) \in StackFrames
          BY <4>4, NewFrames DEF DeferredDone
        <5>2. QED
          BY <4>4, <5>1 DEF DeferredDone, Waiting
      <4>5. QED
        BY <2>8, <4>1, <4>2, <4>3, <4>4
    <3>2. \/ i \in 1..(Len(stack) - 1) /\ stack'[i] = stack[i]
          \/ stack'[i].at # "events"
      <4>1. CASE \E f \in StackFrames : f.at # "events" /\ stack' = Replace(f)
        BY <4>1, EntriesReplace
      <4>2. CASE \E f, g \in StackFrames : f.at # "events" /\ g.at # "events"
                                        /\ stack' = Append(Replace(f), g)
        <5>1. PICK f \in StackFrames, g \in StackFrames :
                 f.at # "events" /\ g.at # "events" /\ stack' = Append(Replace(f), g)
          BY <4>2
        <5>2. QED
          BY <5>1, EntriesCall
      <4>3. QED
        BY <3>1, <4>1, <4>2
    <3>3. QED
      BY <2>2, <2>3, <3>2
  <2>9. CASE DeferredDone /\ Top.once /\ Top.waited
    <3>1. Len(stack) > 1 /\ stack' = Below
      BY <2>9, OnceIsNested DEF DeferredDone, Loops
    <3>2. QED
      BY <2>3, <3>1, EntriesBelow
  <2>10. CASE Return
    <3>1. stack' = Below /\ Top.at = "callback"
      BY <2>10 DEF Return, InCallback
    <3>2. Len(stack) > 1
      BY <1>1, <3>1 DEF IInv, StackShape, Shape
    <3>3. QED
      BY <2>3, <3>1, <3>2, EntriesBelow
  <2>11. CASE Nest
    <3> DEFINE g == Loop(TRUE, FALSE, deferred)
    <3>1. stack' = Append(stack, g) /\ g \in StackFrames /\ g.at = "deferred"
          /\ Top.at = "callback"
      BY <2>11, NewFrames DEF Nest, ProcessDeferred, Step, InCallback, Loop
    <3> HIDE DEF g
    <3>2. i \in 1..Len(stack) /\ stack'[i] = stack[i]
      BY <2>2, <3>1, EntriesNest
    <3>3. i # Len(stack)
      BY <1>1, <2>2, <3>1, <3>2
    <3>4. i \in 1..(Len(stack) - 1)
      BY <1>1, <3>2, <3>3
    <3>5. QED
      BY <2>3, <3>2, <3>4
  <2>12. QED
    BY <1>3, <2>4, <2>5, <2>6, <2>7, <2>8, <2>9, <2>10, <2>11
    DEF Next, Arrives, Cancel, Schedule, SetFd, TriggeredRequest, Push, Defer, Interrupt
<1>4. QED
  BY <1>2, <1>3

----------------------------------------------------------------------------
(***************************************************************************)
(* The deferred calls.                                                     *)
(***************************************************************************)
LEMMA DeferredStep ==
    ASSUME IInv, Next
    PROVE  DeferredInv'
<1> DEFINE Outer(st) == st[1].at \in {"deferred", "wait"}
<1>1. /\ Len(stack) \in Nat \ {0} /\ Top = stack[Len(stack)] /\ deferred \in Seq(Calls)
      /\ Len(stack) = 1 \/ 1 \in 1..(Len(stack) - 1)
  BY StackFacts, OneOrMore DEF IInv, LoopType
<1>2. CASE deferred' = <<>>
  BY <1>2 DEF DeferredInv
<1>3. CASE deferred' = deferred /\ (Outer(stack') => Outer(stack))
  BY <1>3 DEF IInv, DeferredInv
<1>4. ASSUME NEW f \in StackFrames, stack' = Replace(f), deferred' = deferred,
             f.at \in {"deferred", "wait"} => Top.at \in {"deferred", "wait"}
      PROVE  DeferredInv'
  <2>1. stack'[1] = IF Len(stack) = 1 THEN f ELSE stack[1]
    <3>1. /\ Replace(f)[Len(stack)] = f
          /\ \A i \in 1..(Len(stack) - 1) : Replace(f)[i] = stack[i]
      BY ReplaceFacts DEF IInv
    <3>2. QED
      BY <1>1, <1>4, <3>1
  <2>2. QED
    BY <1>1, <1>3, <1>4, <2>1
<1>5. ASSUME NEW f \in StackFrames, NEW g \in StackFrames, stack' = Append(Replace(f), g),
             deferred' = deferred,
             f.at \in {"deferred", "wait"} => Top.at \in {"deferred", "wait"}
      PROVE  DeferredInv'
  <2> DEFINE q == Replace(f)
  <2>1. /\ q \in Seq(StackFrames) /\ Len(q) = Len(stack) /\ q[Len(stack)] = f
        /\ \A i \in 1..(Len(stack) - 1) : q[i] = stack[i]
    BY ReplaceFacts DEF IInv
  <2> HIDE DEF q
  <2>2. \A i \in 1..Len(q) : Append(q, g)[i] = q[i]
    BY <2>1, AppendFacts
  <2>3. stack'[1] = IF Len(stack) = 1 THEN f ELSE stack[1]
    <3>1. stack' = Append(q, g) /\ 1 \in 1..Len(q)
      BY <1>1, <1>5, <2>1 DEF q
    <3>2. QED
      BY <1>1, <2>1, <2>2, <3>1
  <2>4. QED
    BY <1>1, <1>3, <1>5, <2>3
<1>6. ASSUME stack' = Below, Len(stack) > 1
      PROVE  stack'[1] = stack[1]
  BY <1>1, <1>6, EntriesBelow
<1>7. ASSUME Top.at = "callback", NEW c \in Calls, c.from = Origin,
             deferred' = Append(deferred, c), stack'[1] = stack[1]
      PROVE  DeferredInv'
  <2> SUFFICES ASSUME Outer(stack), NEW i \in 1..Len(deferred')
               PROVE  deferred'[i].from = "deferred"
    BY <1>7 DEF DeferredInv
  <2>1. 1 \in 1..Len(stack) /\ Len(stack) # 1
    BY <1>1, <1>7
  <2>2. stack[1].at = "deferred"
    BY <2>1 DEF IInv, StackShape, Shape
  <2>3. Origin = "deferred"
    BY <1>1, <2>1, <2>2 DEF Origin, IInv, LoopType
  <2>4. /\ Len(deferred') = Len(deferred) + 1 /\ Len(deferred) \in Nat
        /\ deferred'[Len(deferred) + 1] = c
        /\ \A j \in 1..Len(deferred) : deferred'[j] = deferred[j]
    BY <1>1, <1>7, AppendFacts
  <2>5. CASE i = Len(deferred) + 1
    BY <1>7, <2>3, <2>4, <2>5
  <2>6. CASE i # Len(deferred) + 1
    <3>1. i \in 1..Len(deferred)
      BY <2>4, <2>6
    <3>2. QED
      BY <2>4, <3>1 DEF IInv, DeferredInv
  <2>7. QED
    BY <2>5, <2>6
<1>8. CASE Setup \/ EventsDone \/ Nest
  BY <1>2, <1>8, SetupFrame DEF EventsDone, Nest, ProcessDeferred
<1>9. CASE Wait
  <2>1. PICK n \in Nat : stack' = Replace(Events(Top.once, ToProcess(n)))
    BY <1>9, WaitFacts
  <2>2. Events(Top.once, ToProcess(n)) \in StackFrames /\ deferred' = deferred
    BY <1>9, NewFrames DEF Wait
  <2>3. QED
    BY <1>4, <2>1, <2>2 DEF Events
<1>10. CASE Leave
  <2>1. CASE Top.once
    <3>1. Len(stack) > 1 /\ stack' = Below
      BY <1>10, <2>1, OnceIsNested DEF Leave, Loops
    <3>2. QED
      BY <1>3, <1>6, <1>10, <3>1 DEF Leave
  <2>2. CASE ~Top.once
    <3>1. stack'[1].at = "returned"
      BY <1>10, <2>2 DEF Leave
    <3>2. QED
      BY <3>1 DEF DeferredInv
  <2>3. QED
    BY <2>1, <2>2
<1>11. CASE ProcessEvent
  <2> DEFINE f == [Top EXCEPT !.next = @ + 1]
  <2>1. f \in StackFrames /\ f.at = "events" /\ deferred' = deferred
    BY <1>11, NewFrames DEF ProcessEvent
  <2>2. stack' = Replace(f) \/ \E g \in StackFrames : stack' = Append(Replace(f), g)
    BY <1>11, EventFrames
  <2> HIDE DEF f
  <2>3. QED
    BY <1>4, <1>5, <2>1, <2>2
<1>12. CASE RunDeferred
  <2> DEFINE f == [Top EXCEPT !.calls = Tail(@)]
             g == Callback(NoTask, 0, 0)
  <2>1. /\ f \in StackFrames /\ Top.calls \in Seq(Calls) /\ Top.calls # <<>>
        /\ Top.at = "deferred" /\ deferred' = deferred
    BY <1>12, NewFrames DEF RunDeferred
  <2>2. g \in StackFrames
    BY NewFrames
  <2>3. Head(Top.calls).call \in {"cancel", "user"}
    BY <2>1 DEF Calls, CancelCalls, UserCalls
  <2>4. stack' \in {Replace(f), Append(Replace(f), g)}
    BY <1>12, <2>3 DEF RunDeferred
  <2> HIDE DEF f, g
  <2>5. QED
    BY <1>4, <1>5, <2>1, <2>2, <2>4
<1>13. CASE DeferredDone
  <2>1. Top.at = "deferred" /\ deferred' = deferred /\ Waiting(Top.once) \in StackFrames
    BY <1>13, NewFrames DEF DeferredDone
  <2>2. CASE Top.once /\ Top.waited
    <3>1. Len(stack) > 1 /\ stack' = Below
      BY <1>13, <2>1, <2>2, OnceIsNested DEF DeferredDone, Loops
    <3>2. QED
      BY <1>3, <1>6, <2>1, <3>1
  <2>3. CASE ~(Top.once /\ Top.waited)
    BY <1>4, <1>13, <2>1, <2>3 DEF DeferredDone
  <2>4. QED
    BY <2>2, <2>3
<1>14. CASE Pop
  <2> DEFINE f == [Top EXCEPT !.pops = @ - 1]
  <2>1. f \in StackFrames /\ f.at = "callback" /\ stack' = Replace(f) /\ deferred' = deferred
    BY <1>14, NewFrames DEF Pop, InCallback
  <2> HIDE DEF f
  <2>2. QED
    BY <1>4, <2>1
<1>15. CASE Defer
  <2>1. UserCall(Origin) \in Calls /\ UserCall(Origin).from = Origin
    BY DEF UserCall, Origin, Origins, Calls, UserCalls
  <2>2. deferred' = Append(deferred, UserCall(Origin)) /\ stack' = stack /\ Top.at = "callback"
    BY <1>15 DEF Defer, Step, InCallback
  <2>3. QED
    BY <1>7, <2>1, <2>2
<1>16. CASE Return
  <2>1. Top.at = "callback" /\ stack' = Below
    BY <1>16 DEF Return, InCallback
  <2>2. Len(stack) > 1
    BY <1>1, <2>1 DEF IInv, StackShape, Shape
  <2>3. CASE Top.task \in Timers
    <3> DEFINE c == CancelCall(Top.task, Origin)
    <3>1. c \in Calls /\ c.from = Origin
      <4>1. object[Top.task].id \in Nat /\ Origin \in Origins
        BY <2>3 DEF IInv, LoopType, Origin, Origins
      <4>2. QED
        BY <2>3, <4>1 DEF CancelCall, Calls, CancelCalls
    <3>2. deferred' = Append(deferred, c)
      BY <1>16, <2>3 DEF Return
    <3> HIDE DEF c
    <3>3. QED
      BY <1>6, <1>7, <2>1, <2>2, <3>1, <3>2
  <2>4. CASE Top.task \notin Timers
    BY <1>3, <1>6, <1>16, <2>1, <2>2, <2>4 DEF Return
  <2>5. QED
    BY <2>3, <2>4
<1>17. QED
  BY <1>3, <1>8, <1>9, <1>10, <1>11, <1>12, <1>13, <1>14, <1>15, <1>16
  DEF Next, Arrives, Cancel, Schedule, SetFd, TriggeredRequest, Push, Interrupt

\* Where cancels may be, with one event per wait.
NoCancel(calls) == \A j \in 1..Len(calls) : calls[j].call # "cancel"

LEMMA NoneDeferred ==
    ASSUME IInv, mode.perWait = 1, Top.at # "events" \/ Top.next <= Top.last
    PROVE  NoCancel(deferred)
<1>1. Top.at = "events" => Top.next \in Nat /\ Top.last \in Nat
  BY NewFrames
<1>2. QED
  BY <1>1 DEF IInv, CancelsInv, NoCancel

LEMMA NoneInFrame ==
    ASSUME IInv, mode.perWait = 1, NEW i \in 1..Len(stack), stack[i].at = "deferred",
           \/ Top.at \notin {"deferred", "callback"}
           \/ Top.at = "callback" /\ (Top.task # NoTask \/ i # Len(stack) - 1)
           \/ Top.at = "deferred" /\ i # Len(stack)
    PROVE  NoCancel(stack[i].calls)
<1>1. Len(stack) \in Nat \ {0} /\ Top = stack[Len(stack)]
  BY StackFacts DEF IInv
<1>2. SUFFICES ASSUME NEW j \in 1..Len(stack[i].calls), stack[i].calls[j].call = "cancel"
               PROVE  FALSE
  BY DEF NoCancel
<1>3. i = Len(stack) \/ (i = Len(stack) - 1 /\ Top.task = NoTask)
  BY <1>2 DEF IInv, CancelsInv
<1>4. i = Len(stack) - 1 => Top.at = "callback"
  <2> SUFFICES ASSUME i = Len(stack) - 1 PROVE Top.at = "callback"
    OBVIOUS
  <2>1. Len(stack) \in 1..Len(stack) /\ Len(stack) # 1
    BY <1>1
  <2>2. QED
    BY <1>1, <2>1 DEF IInv, StackShape, Shape
<1>5. QED
  BY <1>1, <1>3, <1>4

\* The two parts of CancelsInv after a step.
DeferredFound ==
    \A j \in 1..Len(deferred) : deferred[j].call = "cancel" =>
        /\ Top.at = "events" /\ Top.next > Top.last
        /\ deferred[j].object = object[deferred[j].task].id
RunningFound ==
    \A i \in 1..Len(stack) : stack[i].at = "deferred" =>
        \A j \in 1..Len(stack[i].calls) : stack[i].calls[j].call = "cancel" =>
            /\ i = Len(stack) \/ (i = Len(stack) - 1 /\ Top.task = NoTask)
            /\ stack[i].calls[j].object = object[stack[i].calls[j].task].id

LEMMA NothingToFind ==
    /\ NoCancel(deferred)' => DeferredFound'
    /\ (\A i \in 1..Len(stack') : stack'[i].at = "deferred" => NoCancel(stack'[i].calls))
          => RunningFound'
  BY DEF NoCancel, DeferredFound, RunningFound

\* A step of a callback that leaves the stack and the objects alone.
LEMMA CancelsStay ==
    ASSUME IInv, mode.perWait = 1, stack' = stack, Top.at # "events",
           \A t \in Timers : object'[t].id = object[t].id
    PROVE  RunningFound'
<1>1. ASSUME NEW i \in 1..Len(stack), stack[i].at = "deferred",
             NEW j \in 1..Len(stack[i].calls), stack[i].calls[j].call = "cancel"
      PROVE  stack[i].calls[j].task \in Timers
  <2>1. stack[i] \in StackFrames /\ stack[i].at = "deferred"
    BY <1>1 DEF IInv, LoopType
  <2>2. stack[i].calls \in Seq(Calls)
    BY <2>1 DEF StackFrames, SetupFrames, LoopFrames, WaitFrames, EventsFrames,
                CallbackFrames, ReturnedFrames
  <2>3. QED
    BY <1>1, <2>2 DEF Calls, CancelCalls, UserCalls
<1>2. RunningFound
  BY DEF IInv, CancelsInv, RunningFound
<1>3. Top' = Top
  BY DEF Top
<1>4. QED
  BY <1>1, <1>2, <1>3 DEF RunningFound

LEMMA CancelsStep ==
    ASSUME IInv, Next
    PROVE  CancelsInv'
<1>1. mode' = mode /\ Len(stack) \in Nat \ {0} /\ Top = stack[Len(stack)]
      /\ deferred \in Seq(Calls)
  <2>1. mode' = mode
    BY DEF Next, Setup, Wait, Leave, ProcessEvent, EventsDone, RunDeferred, DeferredDone,
         Arrives, Cancel, Schedule, SetFd, TriggeredRequest, Push, Defer, Interrupt,
         Nest, Pop, Return
  <2>2. QED
    BY <2>1, StackFacts DEF IInv, LoopType
<1>2. SUFFICES ASSUME mode.perWait = 1
               PROVE  DeferredFound' /\ RunningFound'
  BY <1>1 DEF CancelsInv, DeferredFound, RunningFound
<1> DEFINE Clean == \A i \in 1..Len(stack') :
                      stack'[i].at = "deferred" => NoCancel(stack'[i].calls)
<1>3. NoCancel(<<>>)
  BY DEF NoCancel
<1>4. \A i \in 1..(Len(stack) - 1) : i \in 1..Len(stack) /\ i # Len(stack)
  BY <1>1
<1>5. CASE Setup
  <2>1. Len(stack') = 1 /\ deferred' = <<>>
        /\ (stack'[1].at = "deferred" => stack'[1].calls = <<>>)
    BY <1>5, SetupFrame
  <2>2. QED
    BY <1>3, <2>1, NothingToFind
<1>6. CASE Wait
  <2>1. PICK n \in Nat : stack' = Replace(Events(Top.once, ToProcess(n)))
    BY <1>6, WaitFacts
  <2> DEFINE f == Events(Top.once, ToProcess(n))
  <2>2. f \in StackFrames /\ f.at = "events" /\ deferred' = deferred /\ Top.at = "wait"
    BY <1>6, NewFrames DEF Wait, Events
  <2> HIDE DEF f
  <2>3. Clean
    BY <1>2, <1>4, <2>1, <2>2, EntriesReplace, NoneInFrame DEF f
  <2>4. NoCancel(deferred')
    BY <1>2, <2>2, NoneDeferred
  <2>5. QED
    BY <2>3, <2>4, NothingToFind
<1>7. CASE Leave
  <2>1. deferred' = deferred /\ Top.at = "wait"
    BY <1>7 DEF Leave
  <2>2. NoCancel(deferred')
    BY <1>2, <2>1, NoneDeferred
  <2>3. CASE Top.once
    <3>1. Len(stack) > 1 /\ stack' = Below
      BY <1>7, <2>3, OnceIsNested DEF Leave, Loops
    <3>2. Clean
      BY <1>2, <1>4, <2>1, <3>1, EntriesBelow, NoneInFrame
    <3>3. QED
      BY <2>2, <3>2, NothingToFind
  <2>4. CASE ~Top.once
    <3>1. Len(stack') = 1 /\ stack'[1].at = "returned"
      BY <1>7, <2>4 DEF Leave
    <3>2. QED
      BY <2>2, <3>1, NothingToFind
  <2>5. QED
    BY <2>3, <2>4
<1>8. CASE ProcessEvent
  <2> DEFINE f == [Top EXCEPT !.next = @ + 1]
  <2>1. f \in StackFrames /\ f.at = "events" /\ deferred' = deferred
        /\ Top.at = "events" /\ Top.next <= Top.last
    BY <1>8, NewFrames DEF ProcessEvent
  <2>2. NoCancel(deferred')
    BY <1>2, <2>1, NoneDeferred
  <2>3. stack' = Replace(f)
        \/ \E g \in StackFrames : g.at = "callback" /\ stack' = Append(Replace(f), g)
    BY <1>8, EventFrames DEF Callback
  <2> HIDE DEF f
  <2>4. Clean
    BY <1>2, <1>4, <2>1, <2>3, EntriesReplace, EntriesCall, NoneInFrame
  <2>5. QED
    BY <2>2, <2>4, NothingToFind
<1>9. CASE EventsDone
  <2> DEFINE f == Loop(Top.once, TRUE, deferred)
  <2>1. /\ f \in StackFrames /\ f.calls = deferred /\ stack' = Replace(f)
        /\ deferred' = <<>> /\ object' = object /\ Top.at = "events"
    BY <1>9, NewFrames DEF EventsDone, ProcessDeferred, Replace, Loop
  <2>2. DeferredFound
    BY <1>2 DEF IInv, CancelsInv, DeferredFound
  <2> HIDE DEF f
  <2>3. /\ Len(stack') = Len(stack)
        /\ \A i \in 1..Len(stack') :
                \/ i \in 1..(Len(stack) - 1) /\ stack'[i] = stack[i]
                \/ i = Len(stack) /\ stack'[i] = f
    BY <2>1, EntriesReplace
  <2>4. \A i \in 1..(Len(stack) - 1) : stack[i].at = "deferred" => NoCancel(stack[i].calls)
    BY <1>2, <1>4, <2>1, NoneInFrame
  <2>5. RunningFound'
    BY <2>1, <2>2, <2>3, <2>4 DEF RunningFound, DeferredFound, NoCancel
  <2>6. QED
    BY <1>3, <2>1, <2>5, NothingToFind
<1>10. CASE RunDeferred
  <2> DEFINE c == Top.calls
             f == [Top EXCEPT !.calls = Tail(@)]
             g == Callback(NoTask, 0, 0)
  <2>1. /\ f \in StackFrames /\ f.calls = Tail(c) /\ c \in Seq(Calls) /\ c # <<>>
        /\ Top.at = "deferred" /\ deferred' = deferred /\ object' = object
    BY <1>10, NewFrames DEF RunDeferred
  <2>2. g \in StackFrames /\ g.task = NoTask /\ g.at = "callback"
    BY NewFrames DEF Callback
  <2>3. stack' \in {Replace(f), Append(Replace(f), g)}
    <3>1. Head(c).call \in {"cancel", "user"}
      BY <2>1 DEF Calls, CancelCalls, UserCalls
    <3>2. QED
      BY <1>10, <3>1 DEF RunDeferred
  <2>4. NoCancel(deferred')
    BY <1>2, <2>1, NoneDeferred
  <2>5. \A j \in 1..Len(f.calls) : \E k \in 1..Len(c) : f.calls[j] = c[k]
    <3> SUFFICES ASSUME NEW j \in 1..Len(f.calls) PROVE \E k \in 1..Len(c) : f.calls[j] = c[k]
      OBVIOUS
    <3>1. f.calls[j] = c[j + 1] /\ j + 1 \in 1..Len(c)
      BY <2>1
    <3>2. QED
      BY <3>1
  <2>6. \A k \in 1..Len(c) : c[k].call = "cancel" => c[k].object = object[c[k].task].id
    <3>1. Len(stack) \in 1..Len(stack)
      BY <1>1
    <3>2. QED
      BY <1>1, <1>2, <2>1, <3>1 DEF IInv, CancelsInv
  <2>7. \A i \in 1..(Len(stack) - 1) : stack[i].at = "deferred" => NoCancel(stack[i].calls)
    BY <1>2, <1>4, <2>1, NoneInFrame
  <2> HIDE DEF f, g, c
  <2>8. /\ Len(stack') = Len(stack) \/ (Len(stack') = Len(stack) + 1 /\ Top' = g)
        /\ \A i \in 1..Len(stack') :
                \/ i \in 1..(Len(stack) - 1) /\ stack'[i] = stack[i]
                \/ i = Len(stack) /\ stack'[i] = f
                \/ stack'[i] = g
    BY <2>1, <2>2, <2>3, EntriesReplace, EntriesCall
  <2>9. ASSUME NEW i \in 1..Len(stack'), stack'[i].at = "deferred",
               NEW j \in 1..Len(stack'[i].calls), stack'[i].calls[j].call = "cancel"
        PROVE  /\ i = Len(stack') \/ (i = Len(stack') - 1 /\ Top'.task = NoTask)
               /\ stack'[i].calls[j].object = object'[stack'[i].calls[j].task].id
    <3>1. i = Len(stack) /\ stack'[i] = f
      BY <2>2, <2>7, <2>8, <2>9 DEF NoCancel
    <3>2. i = Len(stack') \/ (i = Len(stack') - 1 /\ Top'.task = NoTask)
      BY <1>1, <2>2, <2>8, <3>1
    <3>3. stack'[i].calls[j].object = object'[stack'[i].calls[j].task].id
      BY <2>1, <2>5, <2>6, <2>9, <3>1
    <3>4. QED
      BY <3>2, <3>3
  <2>10. QED
    BY <2>4, <2>9, NothingToFind DEF RunningFound
<1>11. CASE DeferredDone
  <2>1. Top.at = "deferred" /\ Top.calls = <<>> /\ deferred' = deferred
        /\ Waiting(Top.once) \in StackFrames /\ Waiting(Top.once).at = "wait"
    BY <1>11, NewFrames DEF DeferredDone, Waiting
  <2>2. NoCancel(deferred')
    BY <1>2, <2>1, NoneDeferred
  <2>3. CASE Top.once /\ Top.waited
    <3>1. Len(stack) > 1 /\ stack' = Below
      BY <1>11, <2>1, <2>3, OnceIsNested DEF DeferredDone, Loops
    <3>2. Clean
      BY <1>2, <1>4, <2>1, <3>1, EntriesBelow, NoneInFrame
    <3>3. QED
      BY <2>2, <3>2, NothingToFind
  <2>4. CASE ~(Top.once /\ Top.waited)
    <3>1. stack' = Replace(Waiting(Top.once))
      BY <1>11, <2>4 DEF DeferredDone
    <3>2. Clean
      BY <1>2, <1>4, <2>1, <3>1, EntriesReplace, NoneInFrame
    <3>3. QED
      BY <2>2, <3>2, NothingToFind
  <2>5. QED
    BY <2>3, <2>4
<1>12. CASE Nest
  <2> DEFINE g == Loop(TRUE, FALSE, deferred)
  <2>1. stack' = Append(stack, g) /\ g \in StackFrames /\ g.calls = deferred
        /\ Top.at = "callback" /\ Top.task \in Sources /\ deferred' = <<>>
    BY <1>12, NewFrames DEF Nest, ProcessDeferred, Step, InCallback, Loop
  <2>2. NoCancel(deferred) /\ Top.task # NoTask
    BY <1>2, <2>1, NoneDeferred, EventLoopAssumption DEF Tasks
  <2> HIDE DEF g
  <2>3. Clean
    BY <1>2, <2>1, <2>2, EntriesNest, NoneInFrame
  <2>4. QED
    BY <1>3, <2>1, <2>3, NothingToFind
<1>13. CASE Pop
  <2> DEFINE f == [Top EXCEPT !.pops = @ - 1]
  <2>1. /\ f \in StackFrames /\ f.at = "callback" /\ f.task = Top.task /\ stack' = Replace(f)
        /\ deferred' = deferred /\ object' = object /\ Top.at = "callback"
    BY <1>13, NewFrames DEF Pop, InCallback
  <2>2. NoCancel(deferred')
    BY <1>2, <2>1, NoneDeferred
  <2> HIDE DEF f
  <2>3. /\ Len(stack') = Len(stack) /\ Top' = f
        /\ \A i \in 1..Len(stack') :
                \/ i \in 1..(Len(stack) - 1) /\ stack'[i] = stack[i]
                \/ i = Len(stack) /\ stack'[i] = f
    BY <2>1, EntriesReplace
  <2>4. RunningFound
    BY <1>2 DEF IInv, CancelsInv, RunningFound
  <2>5. ASSUME NEW i \in 1..Len(stack'), stack'[i].at = "deferred",
               NEW j \in 1..Len(stack'[i].calls), stack'[i].calls[j].call = "cancel"
        PROVE  /\ i = Len(stack') - 1 /\ Top'.task = NoTask
               /\ stack'[i].calls[j].object = object'[stack'[i].calls[j].task].id
    <3>1. i \in 1..(Len(stack) - 1) /\ stack'[i] = stack[i]
      BY <2>1, <2>3, <2>5
    <3>2. /\ i = Len(stack) - 1 /\ Top.task = NoTask
          /\ stack[i].calls[j].object = object[stack[i].calls[j].task].id
      BY <1>4, <2>4, <2>5, <3>1 DEF RunningFound
    <3>3. QED
      BY <2>1, <2>3, <3>1, <3>2
  <2>6. QED
    BY <2>2, <2>5, NothingToFind DEF RunningFound
<1>14. CASE Return
  <2>1. Top.at = "callback" /\ stack' = Below /\ object' = object
    BY <1>14 DEF Return, InCallback
  <2>2. Len(stack) > 1
    BY <1>1, <2>1 DEF IInv, StackShape, Shape
  <2>3. /\ Len(stack') = Len(stack) - 1 /\ Top' = stack[Len(stack) - 1]
        /\ Len(stack) - 1 \in 1..Len(stack')
        /\ \A i \in 1..Len(stack') : i \in 1..(Len(stack) - 1) /\ stack'[i] = stack[i]
    BY <2>1, <2>2, EntriesBelow
  <2>4. RunningFound'
    <3>1. RunningFound
      BY <1>2 DEF IInv, CancelsInv, RunningFound
    <3>2. ASSUME NEW i \in 1..Len(stack'), stack'[i].at = "deferred",
                 NEW j \in 1..Len(stack'[i].calls), stack'[i].calls[j].call = "cancel"
          PROVE  /\ i = Len(stack')
                 /\ stack'[i].calls[j].object = object'[stack'[i].calls[j].task].id
      <4>1. i \in 1..Len(stack) /\ i # Len(stack) /\ stack'[i] = stack[i]
        BY <1>4, <2>3
      <4>2. i = Len(stack) - 1
            /\ stack[i].calls[j].object = object[stack[i].calls[j].task].id
        BY <3>1, <3>2, <4>1 DEF RunningFound
      <4>3. QED
        BY <2>1, <2>3, <4>1, <4>2
    <3>3. QED
      BY <3>2 DEF RunningFound
  <2>5. NoCancel(deferred)
    BY <1>2, <2>1, NoneDeferred
  <2>6. CASE Top.task \in Timers
    <3> DEFINE c == CancelCall(Top.task, Origin)
    <3>1. c.task = Top.task /\ c.object = object[Top.task].id
      BY DEF CancelCall
    <3>2. c \in Calls
      <4>1. object[Top.task].id \in Nat /\ Origin \in Origins
        BY <2>6 DEF IInv, LoopType, Origin, Origins
      <4>2. QED
        BY <2>6, <4>1 DEF CancelCall, Calls, CancelCalls
    <3>3. deferred' = Append(deferred, c)
      BY <1>14, <2>6 DEF Return
    <3> HIDE DEF c
    <3>4. /\ Len(deferred') = Len(deferred) + 1 /\ Len(deferred) \in Nat
          /\ deferred'[Len(deferred) + 1] = c
          /\ \A j \in 1..Len(deferred) : deferred'[j] = deferred[j]
      BY <1>1, <3>2, <3>3, AppendFacts
    <3>5. Top'.at = "events" /\ Top'.next > Top'.last
      <4> DEFINE i == Len(stack) - 1
      <4>1. i \in 1..Len(stack) /\ i # Len(stack) /\ Top' = stack[i]
        BY <1>4, <2>3
      <4>2. stack[i].at \in {"deferred", "events"}
            /\ (stack[i].at = "deferred" => Top.task = NoTask)
        <5>1. Len(stack) \in 1..Len(stack)
          BY <1>1
        <5>2. QED
          BY <1>1, <2>1, <5>1 DEF IInv, StackShape, Shape
      <4>3. Top.task # NoTask
        BY <2>6, EventLoopAssumption DEF Tasks
      <4>4. stack[i] \in StackFrames /\ stack[i].at = "events"
        BY <4>1, <4>2, <4>3 DEF IInv, LoopType
      <4>5. stack[i].next \in Nat /\ stack[i].last \in Nat
        BY <4>4 DEF StackFrames, SetupFrames, LoopFrames, WaitFrames, EventsFrames,
                    CallbackFrames, ReturnedFrames
      <4>6. ~(stack[i].next <= stack[i].last)
        BY <1>2, <4>1, <4>4 DEF IInv, BatchInv
      <4> HIDE DEF i
      <4>7. QED
        BY <4>1, <4>4, <4>5, <4>6
    <3>6. ASSUME NEW j \in 1..Len(deferred'), deferred'[j].call = "cancel"
          PROVE  deferred'[j].object = object'[deferred'[j].task].id
      <4>1. j \notin 1..Len(deferred)
        BY <2>5, <3>4, <3>6 DEF NoCancel
      <4>2. j = Len(deferred) + 1
        BY <3>4, <4>1
      <4>3. QED
        BY <2>1, <3>1, <3>4, <4>2
    <3>7. DeferredFound'
      BY <3>5, <3>6 DEF DeferredFound
    <3>8. QED
      BY <2>4, <3>7
  <2>7. CASE Top.task \notin Timers
    BY <1>14, <2>4, <2>5, <2>7, NothingToFind DEF Return
  <2>8. QED
    BY <2>6, <2>7
<1>15. ASSUME NEW t \in Timers, TriggeredRequest(t)
       PROVE  DeferredFound' /\ RunningFound'
  <2>1. /\ Top.at = "callback" /\ Top.task \in Queues /\ stack' = stack
        /\ deferred' = deferred
    BY <1>15 DEF TriggeredRequest, Step, InCallback
  <2>2. NoCancel(deferred') /\ Top.task # NoTask
    BY <1>2, <2>1, NoneDeferred, EventLoopAssumption DEF Tasks
  <2>3. Clean
    BY <1>2, <2>1, <2>2, NoneInFrame
  <2>4. QED
    BY <2>2, <2>3, NothingToFind
<1>16. CASE Defer
  <2> DEFINE c == UserCall(Origin)
  <2>1. /\ Top.at = "callback" /\ stack' = stack /\ object' = object
        /\ deferred' = Append(deferred, c)
    BY <1>16 DEF Defer, Step, InCallback
  <2>2. c \in Calls /\ c.call = "user"
    BY DEF UserCall, Origin, Origins, Calls, UserCalls
  <2>3. NoCancel(deferred)
    BY <1>2, <2>1, NoneDeferred
  <2> HIDE DEF c
  <2>4. /\ Len(deferred') = Len(deferred) + 1 /\ Len(deferred) \in Nat
        /\ deferred'[Len(deferred) + 1] = c
        /\ \A j \in 1..Len(deferred) : deferred'[j] = deferred[j]
    BY <1>1, <2>1, <2>2, AppendFacts
  <2>5. NoCancel(deferred')
    <3> SUFFICES ASSUME NEW j \in 1..Len(deferred') PROVE deferred'[j].call # "cancel"
      BY DEF NoCancel
    <3>1. j \in 1..Len(deferred) \/ j = Len(deferred) + 1
      BY <2>4
    <3>2. QED
      BY <2>2, <2>3, <2>4, <3>1 DEF NoCancel
  <2>6. QED
    BY <1>2, <2>1, <2>5, NothingToFind, CancelsStay
<1>17. CASE \/ \E t \in Tasks : Arrives(t) \/ Cancel(t) \/ Schedule(t)
            \/ \E t \in Sources : SetFd(t)
            \/ \E t \in Queues : Push(t)
            \/ Interrupt
  <2>1. stack' = stack /\ deferred' = deferred /\ object' = object /\ Top.at \in {"wait", "callback"}
    BY <1>17 DEF Arrives, Cancel, Schedule, SetFd, Push, Interrupt, Step, InCallback
  <2>2. NoCancel(deferred')
    BY <1>2, <2>1, NoneDeferred
  <2>3. QED
    BY <1>2, <2>1, <2>2, NothingToFind, CancelsStay
<1>18. QED
  BY <1>5, <1>6, <1>7, <1>8, <1>9, <1>10, <1>11, <1>12, <1>13, <1>14, <1>15, <1>16, <1>17
  DEF Next

----------------------------------------------------------------------------
(***************************************************************************)
(* The invariant.                                                          *)
(***************************************************************************)
LEMMA InitIInv ==
    ASSUME Init
    PROVE  IInv
<1> DEFINE f == [at |-> "setup", left |-> Queues \cup Sources]
<1>1. Len(stack) = 1 /\ stack = <<f>> /\ stack[1] = f /\ stack # <<>> /\ Top = f
  BY DEF Init, Top
<1>2. f \in StackFrames /\ f.at = "setup" /\ f.left = Queues \cup Sources
  BY DEF StackFrames, SetupFrames
<1>3. Invalid \in Handles /\ \A g \in FirstGens : FreeSlot(g) \in SlotStates
      /\ FreeSlot(g).inUse = FALSE
  BY EventLoopAssumption DEF Invalid, Handles, Gens, FreeSlot, SlotStates
<1>4. deferred = <<>> /\ events = <<>> /\ Len(deferred) = 0 /\ Len(events) = 0
  BY DEF Init
<1>5. PICK g \in FirstGens : pool = [s \in Slots |-> FreeSlot(g)]
  BY DEF Init
<1>6. LoopType
  <2>1. stack \in Seq(StackFrames)
    <3> HIDE DEF f
    <3> QED BY <1>1, <1>2
  <2>2. deferred \in Seq(Calls) /\ events \in Seq(Reports) /\ Len(events) <= EventCount
    BY <1>4, EventLoopAssumption
  <2>3. mode \in [perWait : Nat \ {0}, nests : BOOLEAN]
    BY EventLoopAssumption DEF Init
  <2>4. queue \in [Queues -> [size : 0..QueueSize, signal : Nat]]
    BY EventLoopAssumption DEF Init
  <2>5. /\ object \in [Timers -> [id : Nat, awaited : BOOLEAN]] /\ interrupted \in BOOLEAN
        /\ steps \in 0..MaxSteps /\ ready \subseteq Timers \cup Sources
    <3>1. object = [t \in Timers |-> [id |-> 0, awaited |-> FALSE]]
          /\ interrupted = FALSE /\ steps = 0 /\ ready = {}
      BY DEF Init
    <3>2. [id |-> 0, awaited |-> FALSE] \in [id : Nat, awaited : BOOLEAN]
      OBVIOUS
    <3>3. object \in [Timers -> [id : Nat, awaited : BOOLEAN]]
      BY <3>1, <3>2
    <3>4. interrupted \in BOOLEAN
      BY <3>1, Zenon
    <3>5. steps \in 0..MaxSteps /\ ready \subseteq Timers \cup Sources
      BY <3>1, EventLoopAssumption
    <3>6. QED
      BY <3>3, <3>4, <3>5
  <2>6. QED
    BY <2>1, <2>2, <2>3, <2>4, <2>5 DEF LoopType
<1>7. PoolInv(Pool, handle)
  <2>1. /\ kernel = [t \in Tasks |-> Invalid] /\ handle = kernel /\ count = 0
        /\ Pool = [slots |-> pool, kernel |-> kernel, count |-> count]
    BY DEF Init, Pool
  <2>2. pool \in [Slots -> SlotStates] /\ \A s \in Slots : ~pool[s].inUse
    BY <1>3, <1>5
  <2>3. InUse(Pool) = {} /\ Cardinality({}) = 0
    BY <2>1, <2>2, FS_EmptySet DEF InUse
  <2>4. PoolType(Pool)
    BY <1>3, <2>1, <2>2 DEF PoolType
  <2>5. handle \in [Tasks -> Handles] /\ \A t \in Tasks : handle[t] = Invalid
    BY <1>3, <2>1
  <2>6. QED
    BY <2>1, <2>3, <2>4, <2>5 DEF PoolInv
<1>8. StackShape /\ SetupInv
  <2>1. Shape(stack, Len(events), mode.nests)
    BY <1>1, <1>2, ShapeOne
  <2>2. \A t \in f.left : handle[t] = Invalid
    BY <1>2 DEF Init, Tasks
  <2> HIDE DEF f
  <2>3. QED
    BY <1>1, <1>4, <2>1, <2>2 DEF StackShape, SetupInv
<1>9. EventsInv /\ BatchInv /\ DeferredInv /\ CancelsInv
  <2> HIDE DEF f
  <2>1. \A i \in 1..Len(stack) : stack[i].at = "setup"
    BY <1>1, <1>2
  <2>2. stack[1].at = "setup"
    BY <1>1, <1>2
  <2>3. QED
    BY <1>4, <2>1, <2>2 DEF EventsInv, BatchInv, DeferredInv, CancelsInv
<1>10. QED
  BY <1>6, <1>7, <1>8, <1>9 DEF IInv

LEMMA NextIInv ==
    ASSUME IInv, [Next]_vars
    PROVE  IInv'
<1>1. CASE Next
  <2>1. LoopType' /\ StackShape' /\ SetupInv'
    BY <1>1, DataStep, StackStep DEF StackNext
  <2>2. PoolInv(Pool, handle)'
    BY <1>1, PoolStep
  <2>3. Few => EventsInv'
    BY <1>1, EventsStep
  <2>4. BatchInv' /\ DeferredInv' /\ CancelsInv'
    BY <1>1, BatchStep, DeferredStep, CancelsStep
  <2>5. Few' <=> Few
    BY DEF Few
  <2>6. QED
    BY <2>1, <2>2, <2>3, <2>4, <2>5 DEF IInv
<1>2. CASE UNCHANGED vars
  BY <1>2 DEF vars, IInv, LoopType, Pool, StackShape, SetupInv, EventsInv,
     BatchInv, DeferredInv, CancelsInv, Top
<1>3. QED
  BY <1>1, <1>2

\* The invariant holds in every state of every run.
THEOREM SpecIInv == Spec => []IInv
<1>1. QED
  BY InitIInv, NextIInv, PTL DEF Spec

----------------------------------------------------------------------------
(***************************************************************************)
(* The theorems.                                                           *)
(***************************************************************************)

\* Scheduler and its tasks keep within the limits of the code: generations
\* below their modulus, mEpollCount between zero and MAX_EVENT_SLOTS, mEvents
\* at most EVENT_COUNT long, the queues within their limit.
THEOREM TypeCorrect == Spec => []TypeOK
<1>1. ASSUME IInv PROVE TypeOK
  <2>1. /\ pool \in [Slots -> SlotStates] /\ count = Cardinality(InUse(Pool))
    BY <1>1 DEF IInv, PoolInv, PoolType, Pool
  <2>2. count \in 0..NumSlots
    BY <2>1, InUseFinite
  <2>3. \A i \in DOMAIN stack : stack[i].at \in Frames
    <3>1. \A i \in DOMAIN stack : stack[i] \in StackFrames
      BY <1>1 DEF IInv, LoopType
    <3>2. QED
      BY <3>1 DEF StackFrames, SetupFrames, LoopFrames, WaitFrames, EventsFrames,
                  CallbackFrames, ReturnedFrames, Frames
  <2>4. \A s \in Slots : pool[s].gen \in 0..(GenModulus - 1)
                         /\ pool[s].owner \in Tasks \cup {NoTask}
    BY <2>1 DEF SlotStates, Gens
  <2>5. \A q \in Queues : queue[q].size \in 0..QueueSize
    BY <1>1 DEF IInv, LoopType
  <2>6. QED
    BY <1>1, <2>2, <2>3, <2>4, <2>5 DEF IInv, LoopType, TypeOK
<1>2. QED
  BY <1>1, SpecIInv, PTL

\* After whatever callbacks register, replace and give up, in loops nested
\* however deep, mEventPool, the interest list of epoll, mEpollCount and the
\* handles that the tasks keep tell the same story.
THEOREM ThePoolAgrees == Spec => []PoolAgrees
<1>1. ASSUME IInv PROVE PoolAgrees
  <2>1. PoolInv(Pool, handle) /\ Pool.slots = pool /\ Pool.kernel = kernel /\ Pool.count = count
    BY <1>1 DEF IInv, Pool
  <2>2. InUse(Pool) = {s \in Slots : pool[s].inUse}
    BY <2>1 DEF InUse
  <2>3. QED
    BY <2>1, <2>2 DEF PoolInv, PoolType, PoolAgrees
<1>2. QED
  BY <1>1, SpecIInv, PTL

\* At a wait of execute() only calls are left that deferred calls have made:
\* what the callbacks of events have deferred has run.
THEOREM DeferredRunsBeforeTheWait == Spec => []DeferredBeforeWait
<1>1. ASSUME IInv PROVE DeferredBeforeWait
  <2>1. deferred \in Seq(Calls) /\ Len(stack) \in Nat /\ Top = stack[Len(stack)]
    BY <1>1, StackFacts DEF IInv, LoopType
  <2>2. QED
    BY <1>1, <2>1 DEF IInv, DeferredInv, DeferredBeforeWait
<1>2. QED
  BY <1>1, SpecIInv, PTL

\* The cancel that TimeoutTask::on_event defers runs before its object can be
\* replaced, while execute() processes one event per wait, however deep the
\* loops nested in callbacks.
THEOREM CancelsFindTheirTask == Spec => []DeferredCancelsFindTheirTask
<1>1. ASSUME IInv PROVE DeferredCancelsFindTheirTask
  <2>1. deferred \in Seq(Calls) /\ stack \in Seq(StackFrames)
    BY <1>1 DEF IInv, LoopType
  <2>2. \A i \in DOMAIN stack : stack[i].at = "deferred" => stack[i].calls \in Seq(Calls)
    BY <2>1 DEF StackFrames, SetupFrames, LoopFrames, WaitFrames, EventsFrames,
                CallbackFrames, ReturnedFrames
  <2>3. DOMAIN deferred = 1..Len(deferred) /\ DOMAIN stack = 1..Len(stack)
        /\ \A i \in DOMAIN stack : stack[i].at = "deferred" =>
              DOMAIN stack[i].calls = 1..Len(stack[i].calls)
    BY <2>1, <2>2
  <2> SUFFICES ASSUME mode.perWait = 1,
                      NEW calls, calls = deferred \/ \E i \in DOMAIN stack :
                                     stack[i].at = "deferred" /\ calls = stack[i].calls,
                      NEW j \in DOMAIN calls, calls[j].call = "cancel"
               PROVE  calls[j].object = object[calls[j].task].id
    BY DEF DeferredCancelsFindTheirTask
  <2>4. CASE calls = deferred
    BY <1>1, <2>3, <2>4 DEF IInv, CancelsInv
  <2>5. CASE \E i \in DOMAIN stack : stack[i].at = "deferred" /\ calls = stack[i].calls
    <3>1. PICK i \in DOMAIN stack : stack[i].at = "deferred" /\ calls = stack[i].calls
      BY <2>5
    <3>2. i \in 1..Len(stack) /\ j \in 1..Len(stack[i].calls)
      BY <2>3, <3>1
    <3>3. QED
      BY <1>1, <3>1, <3>2 DEF IInv, CancelsInv
  <2>6. QED
    BY <2>4, <2>5
<1>2. QED
  BY <1>1, SpecIInv, PTL

\* process_event calls back only for the registration that epoll_pwait
\* reported, by the handle its task still has, as long as fewer registrations
\* are made than a slot has generations; and within one batch at a time for
\* an event of the loop's own wait.
THEOREM EventsFindTheirRegistration == Few => (Spec => EventsReachTheirRegistration)
<1> DEFINE Reaches == (Top.at = "events" /\ Len(stack') > Len(stack)) =>
                        LET called == stack'[Len(stack')]
                        IN  /\ called.reg = events[Top.next].reg
                            /\ handle[called.task] = events[Top.next].h
                            /\ OneBatch => events[Top.next].depth = Len(stack)
<1> SUFFICES ASSUME Few PROVE Spec => EventsReachTheirRegistration
  OBVIOUS
<1>1. ASSUME IInv, [Next]_vars PROVE [Reaches]_vars
  <2> DEFINE e == events[Top.next]
             s == pool[e.h.slot]
             f == [Top EXCEPT !.next = @ + 1]
  <2> SUFFICES ASSUME Next, Top.at = "events", Len(stack') > Len(stack)
               PROVE  Reaches
    BY <1>1
  <2>1. Len(stack) \in Nat /\ Top = stack[Len(stack)] /\ Len(stack) \in 1..Len(stack)
    BY <1>1, StackFacts DEF IInv
  <2>2. CASE EventsDone
    <3>1. Loop(Top.once, TRUE, deferred) \in StackFrames
          /\ stack' = Replace(Loop(Top.once, TRUE, deferred))
      BY <1>1, <2>2, NewFrames DEF EventsDone, ProcessDeferred, Replace
    <3>2. Len(stack') = Len(stack)
      BY <1>1, <3>1, EntriesReplace
    <3>3. QED
      BY <2>1, <3>2
  <2>3. CASE ProcessEvent
    <3>1. f \in StackFrames /\ Top.next \in Nat /\ Top.last \in Nat /\ Top.next >= 1
          /\ Top.next <= Top.last
      BY <1>1, <2>3, NewFrames DEF ProcessEvent
    <3>2. e \in Reports /\ Top.next \in 1..Len(events)
      BY <1>1, <2>3, EventFrames
    <3>3. stack' # Replace(f)
      BY <1>1, <2>1, <3>1, EntriesReplace
    <3>4. /\ Live(pool, e.h) /\ s.owner \in Tasks
          /\ \E pops \in Nat : /\ Callback(s.owner, s.reg, pops) \in StackFrames
                               /\ stack' = Append(Replace(f), Callback(s.owner, s.reg, pops))
      BY <1>1, <2>3, <3>3, EventFrames
    <3>5. stack'[Len(stack')].reg = s.reg /\ stack'[Len(stack')].task = s.owner
      <4>1. PICK pops \in Nat : /\ Callback(s.owner, s.reg, pops) \in StackFrames
                               /\ stack' = Append(Replace(f), Callback(s.owner, s.reg, pops))
        BY <3>4
      <4> DEFINE g == Callback(s.owner, s.reg, pops)
      <4>2. g.reg = s.reg /\ g.task = s.owner
        BY DEF Callback
      <4> HIDE DEF f, g
      <4>3. Top' = g
        BY <1>1, <3>1, <4>1, EntriesCall DEF g
      <4>4. QED
        BY <4>2, <4>3 DEF Top
    <3>6. s.reg = e.reg
      <4>1. PICK k \in 0..steps : Since(pool, e, k)
        BY <1>1, <3>2 DEF IInv, EventsInv
      <4>2. /\ steps \in Nat /\ steps <= MaxSteps /\ MaxSteps \in Nat
            /\ GenModulus \in Nat /\ e.h.gen \in Nat /\ s.gen = e.h.gen
        <5>1. steps \in Nat /\ steps <= MaxSteps /\ MaxSteps \in Nat /\ GenModulus \in Nat
          BY <1>1, EventLoopAssumption DEF IInv, LoopType
        <5>2. s.gen = e.h.gen
          BY <3>4 DEF Live
        <5>3. e.h.gen \in Nat
          <6> HIDE DEF e
          <6> QED BY <3>2, EventLoopAssumption DEF Reports, Handles, Gens
        <5>4. QED
          BY <5>1, <5>2, <5>3
      <4>3. k = 0
        BY <4>1, <4>2 DEF Since, Few
      <4>4. QED
        BY <4>1, <4>3 DEF Since
    <3>7. handle[s.owner] = e.h
      <4> DEFINE h == handle[s.owner]
      <4>1. h.slot = e.h.slot /\ e.h.slot \in Slots
        BY <1>1, <3>4 DEF IInv, PoolInv, Live, InUse, Pool
      <4>2. h # Invalid
        BY <4>1 DEF Invalid, Slots
      <4>3. Live(pool, h)
        BY <1>1, <3>4, <4>2 DEF IInv, PoolInv, Pool
      <4>4. h.gen = e.h.gen /\ h \in Handles /\ e.h \in Handles
        BY <1>1, <3>2, <3>4, <4>1, <4>3 DEF IInv, PoolInv, Live, Reports
      <4>5. QED
        BY <4>1, <4>4 DEF Handles
    <3>8. OneBatch => e.depth = Len(stack)
      <4>1. CASE mode.perWait = 1
        <5>1. Top.last <= 1
          BY <1>1, <2>1, <4>1 DEF IInv, BatchInv
        <5>2. Top.next = 1
          BY <3>1, <5>1
        <5>3. events[1].depth = Len(stack)
          BY <1>1, <2>1, <3>1, <4>1 DEF IInv, BatchInv
        <5>4. QED
          BY <5>2, <5>3
      <4>2. CASE ~mode.nests
        <5>1. Len(stack) = 1
          BY <1>1, <2>1, <4>2 DEF IInv, StackShape, Shape
        <5>2. QED
          BY <1>1, <3>2, <4>2, <5>1 DEF IInv, BatchInv
      <4>3. QED
        BY <4>1, <4>2 DEF OneBatch
    <3>9. QED
      BY <3>5, <3>6, <3>7, <3>8
  <2>4. QED
    BY <2>2, <2>3 DEF Next, Setup, Wait, Leave, RunDeferred, DeferredDone, Arrives, Cancel,
       Schedule, SetFd, TriggeredRequest, Push, Defer, Interrupt, Nest, Pop, Return,
       Step, InCallback
<1>2. QED
  BY <1>1, SpecIInv, PTL DEF Spec, EventsReachTheirRegistration

----------------------------------------------------------------------------
(***************************************************************************)
(* The queues.  Where no loop is nested in a batch, what an event says of  *)
(* a queue is still so when its turn comes: the events ahead in a batch    *)
(* are of different registrations, and for each that is still one of a     *)
(* queue the eventfd is not zero.  So the value that is read is the number *)
(* of elements of the queue.                                               *)
(***************************************************************************)

\* The callback of a queue nests no loop.
QueueCallsOnTop ==
    \A i \in 1..Len(stack) :
        stack[i].at = "callback" /\ stack[i].task \in Queues => i = Len(stack)

PopsLeft(q) == IF Top.at = "callback" /\ Top.task = q THEN Top.pops ELSE 0

SizesAgree == \A q \in Queues : queue[q].size = queue[q].signal + PopsLeft(q)

Backed(e) ==
    \A q \in Queues : Live(pool, e.h) /\ pool[e.h.slot].owner = q => queue[q].signal > 0

Ahead(f) ==
    \A j \in f.next..f.last :
        /\ Backed(events[j])
        /\ \A k \in f.next..f.last : events[j].h = events[k].h => j = k

BatchesAhead == \A i \in 1..Len(stack) : stack[i].at = "events" => Ahead(stack[i])

CountsInv ==
    /\ QueueCallsOnTop
    /\ OneBatch => SizesAgree /\ BatchesAhead

\* A registration that an event still names was the same before the step.
LEMMA LiveBefore ==
    ASSUME IInv, Next, Few, NEW j \in 1..Len(events), Top.at # "setup",
           Live(pool', events[j].h)
    PROVE  /\ Live(pool, events[j].h)
           /\ pool'[events[j].h.slot].owner = pool[events[j].h.slot].owner
<1> DEFINE e == events[j]
           s == e.h.slot
           g == e.h.gen
           m == GenModulus - 1
<1>1. e \in Reports /\ s \in Slots /\ g # 0
  BY DEF IInv, LoopType, EventsInv
<1>2. PICK k \in 0..steps : Since(pool, e, k)
  BY DEF IInv, EventsInv
<1>3. \/ Kept(Pool, Pool')
      \/ Aged(Pool, Pool') /\ steps' = steps + 1
  BY PoolStep
<1>4. Same(Pool, Pool', s) \/ (pool'[s].gen = NextGen(pool[s].gen) /\ steps' = steps + 1)
  BY <1>1, <1>3 DEF Kept, Aged, Pool
<1>5. pool'[s].inUse /\ pool'[s].gen = g
  BY DEF Live
<1>6. CASE Same(Pool, Pool', s)
  BY <1>1, <1>5, <1>6 DEF Same, Live, Pool
<1>7. CASE pool'[s].gen = NextGen(pool[s].gen) /\ steps' = steps + 1
  <2>1. /\ steps \in Nat /\ steps + 1 <= MaxSteps /\ MaxSteps \in Nat
        /\ GenModulus \in Nat \ {0, 1} /\ pool[s].gen \in Gens /\ g \in Gens
    <3>1. steps' \in 0..MaxSteps
      BY DataStep DEF LoopType
    <3>2. QED
      BY <1>1, <1>7, <3>1, EventLoopAssumption
      DEF IInv, LoopType, PoolInv, PoolType, Pool, SlotStates, Reports, Handles
  <2>2. pool'[s].gen = IF pool[s].gen = m THEN 1 ELSE pool[s].gen + 1
    BY <1>7, <2>1, NextGenValue
  <2>3. pool[s].gen \in {g + k, g + k - m} /\ k + 1 < m
    <3>1. pool[s].gen \in {g + k, g + k - m}
      BY <1>2 DEF Since
    <3>2. k + 1 < m
      BY <1>2, <2>1 DEF Few
    <3>3. QED
      BY <3>1, <3>2
  <2>4. k \in Nat /\ m \in Nat /\ g \in Nat /\ g <= m /\ pool[s].gen \in Nat
        /\ pool[s].gen <= m
    BY <1>2, <2>1 DEF Gens
  <2> HIDE DEF e, s, g, m
  <2>5. k + 1 # 0 /\ k + 1 < m
    BY <2>3, <2>4
  <2>6. pool'[s].gen # g
    <3>1. CASE pool[s].gen = m
      <4>1. pool'[s].gen = 1
        BY <2>2, <3>1
      <4>2. m = g + k \/ m = g + k - m
        BY <2>3, <3>1
      <4>3. g # 1
        BY <2>4, <2>5, <4>2
      <4>4. QED
        BY <4>1, <4>3
    <3>2. CASE pool[s].gen # m
      <4>1. pool'[s].gen = pool[s].gen + 1
        BY <2>2, <3>2
      <4>2. pool'[s].gen = g + k + 1 \/ pool'[s].gen = g + k - m + 1
        BY <2>3, <4>1
      <4>3. g + k + 1 # g /\ g + k - m + 1 # g
        BY <2>4, <2>5
      <4>4. QED
        BY <4>2, <4>3
    <3>3. QED
      BY <3>1, <3>2
  <2>7. QED
    BY <1>5, <2>6
<1>8. QED
  BY <1>4, <1>6, <1>7

\* Only events that are processed take from an eventfd.
LEMMA BackedStep ==
    ASSUME IInv, Next, Few, NEW j \in 1..Len(events), Top.at # "setup", ~Wait,
           Backed(events[j]), queue \in [Queues -> [size : Nat, signal : Nat]],
           \A q \in Queues : \/ queue'[q].signal >= queue[q].signal
                             \/ ~Live(pool, events[j].h)
                             \/ pool[events[j].h.slot].owner # q
    PROVE  Backed(events[j])'
<1>1. events' = events
  BY EventsSame
<1>2. SUFFICES ASSUME NEW q \in Queues, Live(pool', events[j].h),
                      pool'[events[j].h.slot].owner = q
               PROVE  queue'[q].signal > 0
  BY <1>1 DEF Backed
<1>3. Live(pool, events[j].h) /\ pool[events[j].h.slot].owner = q
  BY <1>2, LiveBefore
<1>4. queue[q].signal > 0 /\ queue'[q].signal >= queue[q].signal
  BY <1>3 DEF Backed
<1>5. queue[q].signal \in Nat
  OBVIOUS
<1>6. queue'[q].signal \in Nat
  BY DataStep DEF LoopType
<1>7. QED
  BY <1>4, <1>5, <1>6

\* The frames of events that wait on the stack, and the callbacks on it, after
\* a callback or a nested loop returns, after the frame on top is replaced, and
\* after a callback is called.
EventsFrom(S) ==
    \A i \in 1..Len(stack') : stack'[i].at = "events" =>
        \/ i \in 1..(Len(stack) - 1) /\ stack'[i] = stack[i]
        \/ stack'[i] \in S

LEMMA AfterBelow ==
    ASSUME IInv, QueueCallsOnTop, Len(stack) > 1, stack' = Below
    PROVE  /\ QueueCallsOnTop' /\ EventsFrom({})
           /\ \A q \in Queues : PopsLeft(q)' = 0
<1>1. Len(stack) \in Nat
  BY StackFacts DEF IInv
<1>2. /\ Len(stack') = Len(stack) - 1 /\ Top' = stack[Len(stack) - 1]
      /\ \A i \in 1..Len(stack') : i \in 1..(Len(stack) - 1) /\ stack'[i] = stack[i]
  BY EntriesBelow
<1>3. \A i \in 1..(Len(stack) - 1) :
        ~(stack[i].at = "callback" /\ stack[i].task \in Queues)
  BY <1>1 DEF QueueCallsOnTop
<1>4. \A q \in Queues : PopsLeft(q)' = 0
  <2>1. Len(stack) - 1 \in 1..(Len(stack) - 1)
    BY <1>1
  <2>2. ~(Top'.at = "callback" /\ Top'.task \in Queues)
    BY <1>2, <1>3, <2>1
  <2>3. QED
    BY <2>2 DEF PopsLeft
<1>5. QED
  BY <1>2, <1>3, <1>4 DEF QueueCallsOnTop, EventsFrom

LEMMA AfterReplace ==
    ASSUME IInv, QueueCallsOnTop, NEW f \in StackFrames, stack' = Replace(f)
    PROVE  QueueCallsOnTop' /\ EventsFrom({f}) /\ Top' = f
<1>1. Len(stack) \in Nat
  BY StackFacts DEF IInv
<1>2. \A i \in 1..(Len(stack) - 1) :
        ~(stack[i].at = "callback" /\ stack[i].task \in Queues)
  BY <1>1 DEF QueueCallsOnTop
<1>3. QED
  BY <1>1, <1>2, EntriesReplace DEF QueueCallsOnTop, EventsFrom

LEMMA AfterCall ==
    ASSUME IInv, QueueCallsOnTop, NEW f \in StackFrames, NEW g \in StackFrames,
           stack' = Append(Replace(f), g), f.at # "callback"
    PROVE  QueueCallsOnTop' /\ EventsFrom({f, g}) /\ Top' = g
<1>1. Len(stack) \in Nat
  BY StackFacts DEF IInv
<1>2. \A i \in 1..(Len(stack) - 1) :
        ~(stack[i].at = "callback" /\ stack[i].task \in Queues)
  BY <1>1 DEF QueueCallsOnTop
<1>3. QED
  BY <1>1, <1>2, EntriesCall DEF QueueCallsOnTop, EventsFrom

\* What steps other than Wait and ProcessEvent do to the stack.
LEMMA QuietStep ==
    ASSUME IInv, QueueCallsOnTop, Next, ~Wait, ~ProcessEvent
    PROVE  /\ QueueCallsOnTop'
           /\ \A i \in 1..Len(stack') : stack'[i].at = "events" =>
                 i \in 1..Len(stack) /\ stack'[i] = stack[i]
           /\ ~Pop => \A q \in Queues : PopsLeft(q)' = PopsLeft(q)
<1> DEFINE Old == \A i \in 1..Len(stack') : stack'[i].at = "events" =>
                     i \in 1..Len(stack) /\ stack'[i] = stack[i]
           Pops == \A q \in Queues : PopsLeft(q)' = PopsLeft(q)
<1>1. Len(stack) \in Nat \ {0} /\ Top = stack[Len(stack)] /\ NoTask \notin Queues
      /\ Queues \cap Sources = {}
  BY StackFacts, EventLoopAssumption DEF IInv, Tasks
<1>2. ASSUME NEW S, EventsFrom(S), \A f \in S : f.at # "events" PROVE Old
  BY <1>1, <1>2 DEF EventsFrom
<1>3. ASSUME Top.at # "callback", Top'.at = "callback" => Top'.task = NoTask PROVE Pops
  BY <1>1, <1>3 DEF PopsLeft
<1>4. CASE stack' = stack
  BY <1>4 DEF QueueCallsOnTop, PopsLeft, Top
<1>5. CASE Setup
  <2>1. Len(stack') = 1 /\ stack'[1].at \in {"setup", "deferred"} /\ Top' = stack'[1]
        /\ Top.at = "setup"
    BY <1>5, SetupFrame DEF Setup
  <2>2. \A i \in 1..Len(stack') : stack'[i].at \in {"setup", "deferred"}
    BY <2>1
  <2>3. QED
    BY <1>3, <2>1, <2>2 DEF QueueCallsOnTop
<1>6. CASE Leave
  <2>1. CASE Top.once
    <3>1. Len(stack) > 1 /\ stack' = Below /\ Top.at = "wait"
      BY <1>6, <2>1, OnceIsNested DEF Leave, Loops
    <3>2. QED
      BY <1>2, <3>1, AfterBelow DEF PopsLeft
  <2>2. CASE ~Top.once
    <3>1. Len(stack') = 1 /\ stack'[1].at = "returned" /\ Top.at = "wait"
      BY <1>6, <2>2 DEF Leave
    <3>2. Top'.at = "returned" /\ \A i \in 1..Len(stack') : stack'[i].at = "returned"
      BY <3>1 DEF Top
    <3>3. QED
      BY <1>3, <3>1, <3>2 DEF QueueCallsOnTop
  <2>3. QED
    BY <2>1, <2>2
<1>7. CASE EventsDone
  <2> DEFINE f == Loop(Top.once, TRUE, deferred)
  <2>1. f \in StackFrames /\ stack' = Replace(f) /\ f.at = "deferred" /\ Top.at = "events"
    BY <1>7, NewFrames DEF EventsDone, ProcessDeferred, Replace, Loop
  <2> HIDE DEF f
  <2>2. QED
    BY <1>2, <1>3, <2>1, AfterReplace
<1>8. CASE RunDeferred
  <2> DEFINE f == [Top EXCEPT !.calls = Tail(@)]
             g == Callback(NoTask, 0, 0)
  <2>1. f \in StackFrames /\ f.at = "deferred" /\ Top.calls \in Seq(Calls) /\ Top.calls # <<>>
        /\ Top.at = "deferred"
    BY <1>8, NewFrames DEF RunDeferred
  <2>2. g \in StackFrames /\ g.at = "callback" /\ g.task = NoTask
    BY NewFrames DEF Callback
  <2>3. Head(Top.calls).call \in {"cancel", "user"}
    BY <2>1 DEF Calls, CancelCalls, UserCalls
  <2>4. stack' = Replace(f) \/ stack' = Append(Replace(f), g)
    BY <1>8, <2>3 DEF RunDeferred
  <2> HIDE DEF f, g
  <2>5. CASE stack' = Replace(f)
    BY <1>2, <1>3, <2>1, <2>5, AfterReplace
  <2>6. CASE stack' = Append(Replace(f), g)
    <3>1. QueueCallsOnTop' /\ EventsFrom({f, g}) /\ Top' = g
      BY <2>1, <2>2, <2>6, AfterCall
    <3>2. \A x \in {f, g} : x.at # "events"
      BY <2>1, <2>2
    <3>3. QED
      BY <1>2, <1>3, <2>1, <2>2, <3>1, <3>2
  <2>7. QED
    BY <2>4, <2>5, <2>6
<1>9. CASE DeferredDone
  <2>1. CASE Top.once /\ Top.waited
    <3>1. Len(stack) > 1 /\ stack' = Below /\ Top.at = "deferred"
      BY <1>9, <2>1, OnceIsNested DEF DeferredDone, Loops
    <3>2. QED
      BY <1>2, <3>1, AfterBelow DEF PopsLeft
  <2>2. CASE ~(Top.once /\ Top.waited)
    <3> DEFINE f == Waiting(Top.once)
    <3>1. f \in StackFrames /\ stack' = Replace(f) /\ f.at = "wait" /\ Top.at = "deferred"
      BY <1>9, <2>2, NewFrames DEF DeferredDone, Waiting
    <3> HIDE DEF f
    <3>2. QED
      BY <1>2, <1>3, <3>1, AfterReplace
  <2>3. QED
    BY <2>1, <2>2
<1>10. CASE Nest
  <2> DEFINE g == Loop(TRUE, FALSE, deferred)
  <2>1. stack' = Append(stack, g) /\ g \in StackFrames /\ g.at = "deferred"
        /\ Top.task \in Sources
    BY <1>10, NewFrames DEF Nest, ProcessDeferred, Loop
  <2> HIDE DEF g
  <2>2. /\ Top' = g /\ Len(stack') = Len(stack) + 1
        /\ \A i \in 1..Len(stack') : \/ i \in 1..Len(stack) /\ stack'[i] = stack[i]
                                     \/ i = Len(stack) + 1 /\ stack'[i] = g
    BY <2>1, EntriesNest
  <2>3. \A i \in 1..Len(stack) : ~(stack[i].at = "callback" /\ stack[i].task \in Queues)
    BY <1>1, <2>1 DEF QueueCallsOnTop
  <2>4. QueueCallsOnTop' /\ Old
    BY <2>1, <2>2, <2>3 DEF QueueCallsOnTop
  <2>5. Pops
    BY <1>1, <2>1, <2>2 DEF PopsLeft
  <2>6. QED
    BY <2>4, <2>5
<1>11. CASE Pop
  <2> DEFINE f == [Top EXCEPT !.pops = @ - 1]
  <2>1. f \in StackFrames /\ f.at # "events" /\ stack' = Replace(f)
    BY <1>11, NewFrames DEF Pop, InCallback
  <2> HIDE DEF f
  <2>2. QED
    BY <1>2, <1>11, <2>1, AfterReplace
<1>12. CASE Return
  <2>1. stack' = Below /\ Top.at = "callback" /\ Top.pops = 0
    BY <1>12 DEF Return, InCallback
  <2>2. Len(stack) > 1
    BY <1>1, <2>1 DEF IInv, StackShape, Shape
  <2>3. QED
    BY <1>2, <2>1, <2>2, AfterBelow DEF PopsLeft
<1>13. QED
  BY <1>4, <1>5, <1>6, <1>7, <1>8, <1>9, <1>10, <1>11, <1>12
  DEF Next, Arrives, Cancel, Schedule, SetFd, TriggeredRequest, Push, Defer, Interrupt

\* At a wait, and while its events are processed, no events are left to
\* process in the loops below.
LEMMA NoneBelow ==
    ASSUME IInv, OneBatch, Top.at \in {"wait", "events"},
           NEW i \in 1..(Len(stack) - 1), stack[i].at = "events"
    PROVE  stack[i].next..stack[i].last = {}
<1>1. /\ Len(stack) \in Nat \ {0} /\ Top = stack[Len(stack)]
      /\ i \in 1..Len(stack) /\ i # Len(stack) /\ Len(stack) # 1
  BY StackFacts DEF IInv
<1>2. mode.nests
  BY <1>1 DEF IInv, StackShape, Shape
<1>3. ~(stack[i].next <= stack[i].last)
  BY <1>1, <1>2 DEF OneBatch, IInv, BatchInv
<1>4. stack[i] \in EventsFrames
  BY <1>1 DEF IInv, LoopType, StackFrames, SetupFrames, LoopFrames, WaitFrames,
     EventsFrames, CallbackFrames, ReturnedFrames
<1>5. QED
  BY <1>3, <1>4 DEF EventsFrames

\* After a wait the events reported are of different tasks, each with something
\* to read.
LEMMA AheadAfterWait ==
    ASSUME IInv, OneBatch, QueueCallsOnTop, Wait
    PROVE  /\ QueueCallsOnTop' /\ BatchesAhead'
           /\ \A q \in Queues : PopsLeft(q)' = PopsLeft(q)
<1>1. PICK n \in Nat :
        /\ stack' = Replace(Events(Top.once, ToProcess(n)))
        /\ \A i \in 1..n : \E t \in Tasks : /\ handle[t] # Invalid
                                            /\ t \in Reported
                                            /\ events'[i] = Report(t)
        /\ \A i, k \in 1..n : events'[i].h = events'[k].h => i = k
  BY WaitFacts
<1> DEFINE f == Events(Top.once, ToProcess(n))
<1>2. f \in StackFrames /\ f.at = "events" /\ f.next = 1 /\ f.last = ToProcess(n)
      /\ Top.at = "wait"
  BY NewFrames DEF Events, Wait
<1>3. 1..f.last \subseteq 1..n
  BY <1>2 DEF ToProcess, IInv, LoopType
<1> HIDE DEF f
<1>4. QueueCallsOnTop' /\ EventsFrom({f}) /\ Top' = f
  BY <1>1, <1>2, AfterReplace DEF f
<1>5. UNCHANGED <<mode, pool, queue>>
  BY DEF Wait
<1>6. ASSUME NEW j \in 1..n PROVE Backed(events[j])'
  <2>1. PICK t \in Tasks : handle[t] # Invalid /\ t \in Reported /\ events'[j] = Report(t)
    BY <1>1
  <2>2. events'[j].h = handle[t] /\ pool[handle[t].slot].owner = t
    BY <2>1 DEF Report, IInv, PoolInv, Pool
  <2>3. t \in Queues => queue[t].signal > 0
    BY <2>1, EventLoopAssumption DEF Reported, IInv, LoopType
  <2>4. QED
    BY <1>5, <2>2, <2>3 DEF Backed
<1>7. \A j \in f.next..f.last :
        /\ Backed(events[j])'
        /\ \A k \in f.next..f.last : events'[j].h = events'[k].h => j = k
  BY <1>1, <1>2, <1>3, <1>6
<1>8. ASSUME NEW i \in 1..Len(stack'), stack'[i].at = "events" PROVE Ahead(stack[i])'
  <2>1. CASE i \in 1..(Len(stack) - 1) /\ stack'[i] = stack[i]
    BY <1>2, <1>8, <2>1, NoneBelow DEF Ahead
  <2>2. CASE stack'[i] = f
    BY <1>7, <2>2 DEF Ahead
  <2>3. QED
    BY <1>4, <1>8, <2>1, <2>2 DEF EventsFrom
<1>9. QED
  BY <1>2, <1>4, <1>8 DEF BatchesAhead, PopsLeft

\* The callback of an event of a queue is told how many elements there are.
LEMMA AheadAfterEvent ==
    ASSUME IInv, Next, Few, CountsInv, OneBatch, ProcessEvent
    PROVE  QueueCallsOnTop' /\ SizesAgree' /\ BatchesAhead'
<1> DEFINE f == [Top EXCEPT !.next = @ + 1]
           e == events[Top.next]
           s == pool[e.h.slot]
<1>1. /\ f \in StackFrames /\ f.at = "events" /\ f.next = Top.next + 1 /\ f.last = Top.last
      /\ Top.at = "events" /\ Top.next \in Nat /\ Top.last \in Nat /\ Top.next <= Top.last
      /\ Top.next >= 1 /\ Top.last <= Len(events) /\ e \in Reports
      /\ Len(events) \in Nat
  <2>1. Top.at = "events" /\ Top.next <= Top.last
    BY DEF ProcessEvent
  <2>2. e \in Reports
    BY EventFrames
  <2>3. Len(events) \in Nat
    BY DEF IInv, LoopType
  <2> HIDE DEF e
  <2>4. QED
    BY <2>1, <2>2, <2>3, NewFrames
<1>2. Len(stack) \in 1..Len(stack) /\ Top = stack[Len(stack)] /\ Len(stack) \in Nat
  BY StackFacts DEF IInv
<1>3. Ahead(Top)
  BY <1>1, <1>2 DEF CountsInv, BatchesAhead
<1>4. \A q \in Queues : queue[q].size = queue[q].signal /\ PopsLeft(q) = 0
  BY <1>1 DEF CountsInv, SizesAgree, PopsLeft, IInv, LoopType
<1>5. queue \in [Queues -> [size : Nat, signal : Nat]] /\ events' = events /\ pool' = pool
      /\ mode' = mode
  BY EventLoopAssumption, EventsSame DEF IInv, LoopType, ProcessEvent, Wait
<1>6. NoTask \notin Queues /\ Timers \cap Queues = {} /\ Queues \cap Sources = {}
      /\ Timers \cap Sources = {}
  BY EventLoopAssumption DEF Tasks
<1>7. \/ ~Live(pool, e.h) /\ stack' = Replace(f) /\ queue' = queue
      \/ /\ Live(pool, e.h) /\ s.owner \in Tasks /\ Reads(s.owner)
         /\ \E pops \in PollCounts(s.owner) :
              LET g == Callback(s.owner, s.reg, pops)
              IN  g \in StackFrames /\ stack' = Append(Replace(f), g)
  <2>1. CASE ~Live(pool, e.h)
    BY <2>1 DEF ProcessEvent
  <2>2. CASE Live(pool, e.h)
    <3>1. s \in SlotStates /\ s.owner \in Tasks
      BY <2>2 DEF Live, IInv, PoolInv, PoolType, Pool
    <3>2. PICK pops \in PollCounts(s.owner) :
            stack' = Append(Replace(f), Callback(s.owner, s.reg, pops))
      BY <2>2 DEF ProcessEvent
    <3>3. pops \in Nat /\ s.reg \in Nat
      <4>1. QueueSize \in Nat /\ (s.owner \in Queues => queue[s.owner].signal \in Nat)
        BY <1>5, EventLoopAssumption
      <4>2. s.reg \in Nat
        BY <3>1 DEF SlotStates
      <4> HIDE DEF s
      <4>3. QED
        BY <4>1, <4>2 DEF PollCounts
    <3>4. Callback(s.owner, s.reg, pops) \in StackFrames
      <4> HIDE DEF s
      <4> QED BY <3>1, <3>3, FrameTypes
    <3>5. Reads(s.owner)
      BY <2>2 DEF ProcessEvent
    <3> HIDE DEF f, s
    <3>6. QED
      BY <2>2, <3>1, <3>2, <3>4, <3>5
  <2>3. QED
    BY <2>1, <2>2
<1> HIDE DEF f
\* The events that are still ahead are not of the queue whose eventfd was read.
<1>8. ASSUME NEW j \in f.next..f.last,
             \A q \in Queues : \/ queue'[q].signal >= queue[q].signal
                               \/ Live(pool, e.h) /\ s.owner = q
      PROVE  Backed(events[j])'
  <2>1. j \in 1..Len(events) /\ j \in Top.next..Top.last /\ Top.next \in Top.next..Top.last
        /\ j # Top.next
    BY <1>1
  <2>2. Backed(events[j]) /\ events[j].h # e.h
    BY <1>3, <2>1 DEF Ahead
  <2>3. events[j] \in Reports
    BY <2>1 DEF IInv, LoopType
  <2>4. ASSUME NEW q \in Queues, Live(pool, e.h), s.owner = q, Live(pool, events[j].h),
               pool[events[j].h.slot].owner = q
        PROVE  FALSE
    <3>1. e.h.slot \in InUse(Pool) /\ events[j].h.slot \in InUse(Pool)
      BY <2>4 DEF Live, InUse, Pool
    <3>2. handle[q].slot = e.h.slot /\ handle[q].slot = events[j].h.slot
      BY <2>4, <3>1 DEF IInv, PoolInv, Pool
    <3>3. e.h.gen = events[j].h.gen
      BY <2>4, <3>2 DEF Live
    <3>4. e.h \in Handles /\ events[j].h \in Handles
      BY <1>1, <2>3 DEF Reports
    <3>5. e.h = events[j].h
      <4> DEFINE a == e.h
                 b == events[j].h
      <4>1. a \in Handles /\ b \in Handles /\ a.slot = b.slot /\ a.gen = b.gen
        BY <3>2, <3>3, <3>4
      <4> HIDE DEF a, b
      <4>2. a = b
        BY <4>1 DEF Handles
      <4>3. QED
        BY <4>2 DEF a, b
    <3>6. QED
      BY <2>2, <3>5
  <2>5. \A q \in Queues : \/ queue'[q].signal >= queue[q].signal
                          \/ ~Live(pool, events[j].h)
                          \/ pool[events[j].h.slot].owner # q
    BY <1>8, <2>4
  <2>6. ~Wait /\ Top.at # "setup"
    BY <1>1 DEF Wait
  <2>7. QED
    BY <1>5, <2>1, <2>2, <2>5, <2>6, BackedStep
<1>9. ASSUME NEW S, EventsFrom(S), \A g \in S : g = f \/ g.at # "events",
             \A q \in Queues : \/ queue'[q].signal >= queue[q].signal
                               \/ Live(pool, e.h) /\ s.owner = q
      PROVE  BatchesAhead'
  <2> SUFFICES ASSUME NEW i \in 1..Len(stack'), stack'[i].at = "events"
               PROVE  Ahead(stack[i])'
    BY DEF BatchesAhead
  <2>1. CASE i \in 1..(Len(stack) - 1) /\ stack'[i] = stack[i]
    BY <1>1, <2>1, NoneBelow DEF Ahead
  <2>2. CASE stack'[i] = f
    <3>1. \A j \in f.next..f.last : Backed(events[j])'
      BY <1>8, <1>9
    <3>2. f.next..f.last \subseteq Top.next..Top.last
      BY <1>1
    <3>3. \A j, k \in f.next..f.last : events[j].h = events[k].h => j = k
      BY <1>3, <3>2 DEF Ahead
    <3>4. QED
      BY <1>5, <2>2, <3>1, <3>3 DEF Ahead
  <2>3. QED
    BY <1>9, <2>1, <2>2 DEF EventsFrom
<1>10. CASE ~Live(pool, e.h) /\ stack' = Replace(f) /\ queue' = queue
  <2>1. QueueCallsOnTop' /\ EventsFrom({f}) /\ Top' = f
    BY <1>1, <1>10, AfterReplace DEF CountsInv
  <2>2. SizesAgree'
    BY <1>1, <1>4, <1>5, <1>10, <2>1 DEF SizesAgree, PopsLeft
  <2>3. \A q \in Queues : queue'[q].signal >= queue[q].signal
    BY <1>5, <1>10
  <2>4. QED
    BY <1>9, <2>1, <2>2, <2>3
<1>11. CASE /\ Live(pool, e.h) /\ s.owner \in Tasks /\ Reads(s.owner)
            /\ \E pops \in PollCounts(s.owner) :
                 LET g == Callback(s.owner, s.reg, pops)
                 IN  g \in StackFrames /\ stack' = Append(Replace(f), g)
  <2>1. PICK pops \in PollCounts(s.owner) :
          LET g == Callback(s.owner, s.reg, pops)
          IN  g \in StackFrames /\ stack' = Append(Replace(f), g)
    BY <1>11
  <2> DEFINE t == s.owner
             g == Callback(t, s.reg, pops)
  <2>2. g.at = "callback" /\ g.task = t /\ g.pops = pops
    BY DEF Callback
  <2> HIDE DEF g
  <2>3. QueueCallsOnTop' /\ EventsFrom({f, g}) /\ Top' = g
    BY <1>1, <2>1, AfterCall DEF CountsInv, g
  <2>4. t \in Queues => pops = queue[t].signal
    <3>1. Backed(e)
      <4>1. Top.next \in Top.next..Top.last
        BY <1>1
      <4>2. QED
        BY <1>3, <4>1 DEF Ahead
    <3>2. t \in Queues => queue[t].signal > 0
      BY <1>11, <3>1 DEF Backed
    <3>3. QED
      BY <2>1, <3>2 DEF PollCounts
  <2>5. t \in Tasks /\ Reads(t)
    BY <1>11
  <2> HIDE DEF t
  <2>6. IF t \in Queues THEN queue' = [queue EXCEPT ![t].signal = 0] ELSE queue' = queue
    BY <1>6, <2>5 DEF Reads, Tasks
  <2>7. SizesAgree'
    <3> SUFFICES ASSUME NEW q \in Queues
                 PROVE  queue'[q].size = queue'[q].signal + PopsLeft(q)'
      BY DEF SizesAgree
    <3>1. CASE q = t
      BY <1>4, <1>5, <2>2, <2>3, <2>4, <2>6, <3>1 DEF PopsLeft
    <3>2. CASE q # t
      BY <1>4, <1>5, <2>2, <2>3, <2>6, <3>2 DEF PopsLeft
    <3>3. QED
      BY <3>1, <3>2
  <2>8. \A q \in Queues : \/ queue'[q].signal >= queue[q].signal
                          \/ Live(pool, e.h) /\ s.owner = q
    <3>1. \A q \in Queues : q = t \/ queue'[q] = queue[q]
      BY <1>5, <2>6
    <3>2. \A q \in Queues : q = t \/ queue'[q].signal >= queue[q].signal
      BY <1>5, <3>1
    <3>3. QED
      BY <1>11, <3>2 DEF t
  <2>9. \A x \in {f, g} : x = f \/ x.at # "events"
    BY <2>2
  <2>10. QED
    BY <1>9, <2>3, <2>7, <2>8, <2>9
<1>12. QED
  BY <1>7, <1>10, <1>11

LEMMA NextCountsInv ==
    ASSUME IInv, Few, CountsInv, [Next]_vars
    PROVE  CountsInv'
<1>1. CASE UNCHANGED vars
  BY <1>1 DEF vars, CountsInv, QueueCallsOnTop, OneBatch, SizesAgree, BatchesAhead,
     PopsLeft, Top, Ahead, Backed
<1> SUFFICES ASSUME Next PROVE CountsInv'
  BY <1>1
<1>2. mode' = mode /\ OneBatch' = OneBatch
  <2>1. mode' = mode
    BY DEF Next, Setup, Wait, Leave, ProcessEvent, EventsDone, RunDeferred, DeferredDone,
         Arrives, Cancel, Schedule, SetFd, TriggeredRequest, Push, Defer, Interrupt,
         Nest, Pop, Return
  <2>2. QED
    BY <2>1 DEF OneBatch
<1>3. queue \in [Queues -> [size : 0..QueueSize, signal : Nat]] /\ QueueSize \in Nat
  BY EventLoopAssumption DEF IInv, LoopType
<1>4. QueueCallsOnTop'
  <2>1. CASE Wait
    <3>1. PICK n \in Nat : stack' = Replace(Events(Top.once, ToProcess(n)))
      BY <2>1, WaitFacts
    <3>2. Events(Top.once, ToProcess(n)) \in StackFrames
      BY <2>1, NewFrames DEF Wait
    <3>3. QED
      BY <3>1, <3>2, AfterReplace DEF CountsInv
  <2>2. CASE ProcessEvent
    <3> DEFINE f == [Top EXCEPT !.next = @ + 1]
    <3>1. f \in StackFrames /\ f.at # "callback"
      BY <2>2, NewFrames DEF ProcessEvent
    <3>2. \/ stack' = Replace(f)
          \/ \E g \in StackFrames : stack' = Append(Replace(f), g)
      BY <2>2, EventFrames
    <3> HIDE DEF f
    <3>3. QED
      BY <3>1, <3>2, AfterReplace, AfterCall DEF CountsInv
  <2>3. QED
    BY <2>1, <2>2, QuietStep DEF CountsInv
<1>5. ASSUME OneBatch PROVE SizesAgree' /\ BatchesAhead'
  <2> USE <1>5
  <2>1. CASE Wait
    <3>1. queue' = queue
      BY <2>1 DEF Wait
    <3>2. QED
      BY <2>1, <3>1, AheadAfterWait DEF CountsInv, SizesAgree
  <2>2. CASE ProcessEvent
    BY <2>2, AheadAfterEvent
  <2>3. CASE ~Wait /\ ~ProcessEvent
    <3>1. /\ \A i \in 1..Len(stack') : stack'[i].at = "events" =>
                 i \in 1..Len(stack) /\ stack'[i] = stack[i]
          /\ ~Pop => \A q \in Queues : PopsLeft(q)' = PopsLeft(q)
      BY <2>3, QuietStep DEF CountsInv
    <3>2. /\ \A q \in Queues : queue'[q].signal >= queue[q].signal
          /\ \A q \in Queues : queue'[q].size = queue'[q].signal + PopsLeft(q)'
      <4>1. CASE queue' = queue /\ ~Pop
        BY <1>3, <3>1, <4>1 DEF CountsInv, SizesAgree
      <4>2. ASSUME NEW t \in Queues, Push(t)
            PROVE  /\ \A q \in Queues : queue'[q].signal >= queue[q].signal
                   /\ \A q \in Queues : queue'[q].size = queue'[q].signal + PopsLeft(q)'
        <5>1. \A q \in Queues : PopsLeft(q)' = PopsLeft(q) /\ PopsLeft(q) \in Nat
          <6>1. stack' = stack
            BY <4>2 DEF Push
          <6>2. Top.at = "callback" => Top.pops \in Nat
            BY TopType DEF IInv, CallbackFrames
          <6>3. QED
            BY <6>1, <6>2 DEF PopsLeft, Top
        <5>2. queue' = [queue EXCEPT ![t] = PushTo(queue[t])]
          BY <4>2 DEF Push
        <5>3. PushTo(queue[t]) = queue[t] \/
              PushTo(queue[t]) = [size |-> queue[t].size + 1, signal |-> queue[t].signal + 1]
          BY DEF PushTo
        <5>4. \A q \in Queues : queue[q].size = queue[q].signal + PopsLeft(q)
          BY DEF CountsInv, SizesAgree
        <5>5. queue'[t] = PushTo(queue[t]) /\ \A q \in Queues \ {t} : queue'[q] = queue[q]
          BY <1>3, <5>2
        <5>6. queue[t].size \in Nat /\ queue[t].signal \in Nat
          BY <1>3
        <5>7. queue'[t].signal >= queue[t].signal
              /\ queue'[t].size = queue'[t].signal + PopsLeft(t)
          BY <5>1, <5>3, <5>4, <5>5, <5>6
        <5>8. QED
          BY <1>3, <5>1, <5>4, <5>5, <5>7
      <4>3. CASE Pop
        <5> DEFINE t == Top.task
                   f == [Top EXCEPT !.pops = @ - 1]
        <5>1. Top.at = "callback" /\ Top.pops > 0 /\ Top \in CallbackFrames
          BY <4>3, TopType DEF IInv, Pop, InCallback
        <5>2. t \in Queues
          <6>1. Len(stack) \in 1..Len(stack) /\ Top = stack[Len(stack)]
            BY StackFacts DEF IInv
          <6>2. QED
            BY <5>1, <6>1 DEF IInv, StackShape, Shape
        <5>3. /\ f \in StackFrames /\ f.at = "callback" /\ f.task = t /\ f.pops = Top.pops - 1
              /\ stack' = Replace(f) /\ Top.pops \in Nat
          BY <4>3, <5>1, NewFrames DEF Pop, CallbackFrames
        <5> HIDE DEF f
        <5>4. Top' = f
          BY <5>3, AfterReplace DEF CountsInv
        <5>5. queue' = [queue EXCEPT ![t].size = queue[t].size - 1]
          BY <4>3 DEF Pop
        <5>6. \A q \in Queues : queue[q].size = queue[q].signal + PopsLeft(q)
          BY DEF CountsInv, SizesAgree
        <5>7. PopsLeft(t) = Top.pops /\ PopsLeft(t)' = Top.pops - 1
              /\ \A q \in Queues \ {t} : PopsLeft(q) = 0 /\ PopsLeft(q)' = 0
          BY <5>1, <5>3, <5>4 DEF PopsLeft
        <5>8. \A q \in Queues : PopsLeft(q)' = IF q = t THEN Top.pops - 1 ELSE 0
          BY <5>3, <5>4 DEF PopsLeft
        <5> HIDE DEF t
        <5>9. /\ queue'[t].size = queue[t].size - 1 /\ queue'[t].signal = queue[t].signal
              /\ \A q \in Queues \ {t} : queue'[q] = queue[q]
          BY <1>3, <5>2, <5>5
        <5>10. queue[t].size \in Nat /\ queue[t].signal \in Nat
          BY <1>3, <5>2
        <5>11. queue'[t].signal >= queue[t].signal
               /\ queue'[t].size = queue'[t].signal + (Top.pops - 1)
          BY <5>2, <5>3, <5>6, <5>7, <5>9, <5>10
        <5>12. ASSUME NEW q \in Queues \ {t}
               PROVE  /\ queue'[q].signal >= queue[q].signal
                      /\ queue'[q].size = queue'[q].signal + PopsLeft(q)'
          <6>1. queue'[q] = queue[q] /\ queue[q].signal \in Nat
            BY <1>3, <5>9, <5>12
          <6>2. PopsLeft(q)' = PopsLeft(q)
            BY <5>7, <5>12
          <6>3. queue[q].size = queue[q].signal + PopsLeft(q)
            BY <5>6, <5>12
          <6>4. QED
            BY <6>1, <6>2, <6>3
        <5>13. ASSUME NEW q \in Queues
               PROVE  /\ queue'[q].signal >= queue[q].signal
                      /\ queue'[q].size = queue'[q].signal + PopsLeft(q)'
          <6>1. CASE q = t
            BY <5>8, <5>11, <6>1
          <6>2. CASE q # t
            BY <5>12, <6>2
          <6>3. QED
            BY <6>1, <6>2
        <5>14. QED
          BY <5>13
      <4>4. CASE RunDeferred
        <5>1. queue' = queue
          BY <4>4 DEF RunDeferred
        <5>2. ~Pop
          BY <4>4 DEF RunDeferred, Pop, InCallback
        <5>3. QED
          BY <4>1, <5>1, <5>2
      <4>5. QED
        BY <2>3, <4>1, <4>2, <4>3, <4>4 DEF Next, Setup, Leave, EventsDone, DeferredDone,
           Arrives, Cancel, Schedule, SetFd, TriggeredRequest, Defer, Interrupt, Nest, Return
    <3>3. SizesAgree'
      BY <3>2 DEF SizesAgree
    <3>4. BatchesAhead'
      <4> SUFFICES ASSUME NEW i \in 1..Len(stack'), stack'[i].at = "events"
                   PROVE  Ahead(stack[i])'
        BY DEF BatchesAhead
      <4>1. i \in 1..Len(stack) /\ stack'[i] = stack[i] /\ stack[i].at = "events"
        BY <3>1
      <4>2. Ahead(stack[i]) /\ events' = events
        BY <2>3, <4>1, EventsSame DEF CountsInv, BatchesAhead
      <4>3. Top.at # "setup"
        BY <4>1, StackFacts DEF IInv, StackShape, Shape
      <4>4. stack[i].next..stack[i].last \subseteq 1..Len(events)
        <5>1. stack[i] \in EventsFrames
          BY <4>1 DEF IInv, LoopType, StackFrames, SetupFrames, LoopFrames, WaitFrames,
             EventsFrames, CallbackFrames, ReturnedFrames
        <5>2. stack[i].next >= 1 /\ stack[i].last <= Len(events) /\ Len(events) \in Nat
          BY <4>1 DEF IInv, StackShape, Shape, LoopType
        <5>3. QED
          BY <5>1, <5>2 DEF EventsFrames
      <4>5. ASSUME NEW j \in stack[i].next..stack[i].last PROVE Backed(events[j])'
        <5>1. j \in 1..Len(events) /\ Backed(events[j])
          BY <4>2, <4>4 DEF Ahead
        <5>2. queue \in [Queues -> [size : Nat, signal : Nat]]
          BY <1>3
        <5>3. QED
          BY <2>3, <3>2, <4>3, <5>1, <5>2, BackedStep
      <4>6. QED
        BY <4>1, <4>2, <4>5 DEF Ahead
    <3>5. QED
      BY <3>3, <3>4
  <2>4. QED
    BY <2>1, <2>2, <2>3
<1>6. QED
  BY <1>2, <1>4, <1>5 DEF CountsInv

LEMMA InitCountsInv ==
    ASSUME Init
    PROVE  CountsInv
<1>1. Len(stack) = 1 /\ stack[1].at = "setup" /\ Top.at = "setup"
  BY DEF Init, Top
<1>2. \A q \in Queues : queue[q].size = 0 /\ queue[q].signal = 0
  BY DEF Init
<1>3. QED
  BY <1>1, <1>2 DEF CountsInv, QueueCallsOnTop, SizesAgree, BatchesAhead, PopsLeft

\* The handlers that take elements are at most the one on top.
LEMMA PopsAreOnTop ==
    ASSUME IInv, QueueCallsOnTop, NEW q \in Queues
    PROVE  PopsInProgress(q) = PopsLeft(q)
<1> DEFINE mine == {i \in DOMAIN stack : stack[i].at = "callback" /\ stack[i].task = q}
           Sum(f, S) == IF S = {} THEN 0
                        ELSE LET i == CHOOSE x \in S : TRUE
                             IN  stack[i].pops + f[S \ {i}]
           sum == CHOOSE f : f = [S \in SUBSET mine |-> Sum(f, S)]
           n == Len(stack)
<1>1. n \in Nat \ {0} /\ Top = stack[n] /\ DOMAIN stack = 1..n
  BY StackFacts DEF IInv, LoopType
<1>2. mine \subseteq {n}
  BY <1>1 DEF QueueCallsOnTop
<1>3. PopsInProgress(q) = sum[mine]
  BY DEF PopsInProgress
<1> DEFINE g == [S \in SUBSET mine |-> IF S = {} THEN 0 ELSE stack[n].pops]
<1>4. Top.at = "callback" => Top.pops \in Nat
  BY TopType DEF IInv, CallbackFrames
<1>5. ASSUME NEW S \in SUBSET mine PROVE g[S] = Sum(g, S)
  <2>1. CASE S = {}
    BY <2>1
  <2>2. CASE S # {}
    <3>1. S = {n} /\ n \in mine
      BY <1>2, <2>2
    <3>2. (CHOOSE x \in S : TRUE) = n /\ S \ {n} = {}
      BY <3>1
    <3>3. g[S] = stack[n].pops /\ g[S \ {n}] = 0
      BY <2>2, <3>2
    <3>4. stack[n].pops \in Nat
      BY <1>1, <1>4, <3>1
    <3> DEFINE i == CHOOSE x \in S : TRUE
    <3>5. Sum(g, S) = stack[i].pops + g[S \ {i}]
      BY <2>2
    <3>6. i = n
      BY <3>2
    <3> HIDE DEF g, mine, n, i, Sum
    <3>7. QED
      BY <3>3, <3>4, <3>5, <3>6
  <2>3. QED
    BY <2>1, <2>2
<1>6. g = [S \in SUBSET mine |-> Sum(g, S)]
  <2>1. g = [S \in SUBSET mine |-> g[S]]
    OBVIOUS
  <2> HIDE DEF g, Sum, mine
  <2>2. QED
    BY <1>5, <2>1
<1>7. sum = [S \in SUBSET mine |-> Sum(sum, S)]
  <2> HIDE DEF g, Sum, mine
  <2>1. QED
    BY <1>6
<1>8. \A S \in SUBSET mine : sum[S] = Sum(sum, S)
  <2> DEFINE h == [S \in SUBSET mine |-> Sum(sum, S)]
  <2>1. \A S \in SUBSET mine : h[S] = Sum(sum, S)
    OBVIOUS
  <2>2. sum = h
    BY <1>7
  <2> HIDE DEF h, sum, Sum, mine
  <2>3. QED
    BY <2>1, <2>2
<1> HIDE DEF sum
<1>9. sum[{}] = 0
  BY <1>8
<1>10. CASE mine = {}
  <2>1. PopsLeft(q) = 0
    BY <1>1, <1>10 DEF PopsLeft
  <2>2. QED
    BY <1>3, <1>9, <1>10, <2>1
<1>11. CASE mine # {}
  <2>1. mine = {n} /\ n \in mine
    BY <1>2, <1>11
  <2>2. PopsLeft(q) = stack[n].pops /\ stack[n].pops \in Nat
    BY <1>1, <1>4, <2>1 DEF PopsLeft
  <2>3. (CHOOSE x \in mine : TRUE) = n /\ mine \ {n} = {}
    <3> HIDE DEF mine
    <3> QED BY <2>1
  <2>4. sum[mine] = stack[n].pops + sum[mine \ {n}]
    <3> DEFINE i == CHOOSE x \in mine : TRUE
    <3>1. mine \in SUBSET mine /\ i = n
      BY <2>3
    <3>2. sum[mine] = stack[i].pops + sum[mine \ {i}]
      <4> HIDE DEF mine
      <4> QED BY <1>8, <1>11, <3>1
    <3> HIDE DEF mine, n, i
    <3>3. QED
      BY <3>1, <3>2
  <2>5. mine \ {n} = {}
    BY <2>3
  <2> HIDE DEF mine, n
  <2>6. QED
    BY <1>3, <1>9, <2>2, <2>4, <2>5
<1>12. QED
  BY <1>10, <1>11

\* The eventfd of a queue and the handler that is taking elements from it
\* account for exactly the elements it has: whatever is pushed meanwhile, and
\* whoever gives up and takes new registrations between epoll_pwait and the
\* event, QueueTask's handler neither leaves an element without an event nor
\* pops an empty queue, as long as no loop is nested in a batch of events and
\* fewer registrations are made than a slot has generations.
THEOREM QueuesAndEventsAgree == Few => (Spec => []QueueCountsAgree)
<1> SUFFICES ASSUME Few PROVE Spec => []QueueCountsAgree
  OBVIOUS
<1>1. Init => CountsInv
  BY InitCountsInv
<1>2. IInv /\ CountsInv /\ [Next]_vars => CountsInv'
  BY NextCountsInv
<1>3. IInv /\ CountsInv => QueueCountsAgree
  BY PopsAreOnTop DEF CountsInv, SizesAgree, QueueCountsAgree
<1>4. QED
  BY <1>1, <1>2, <1>3, SpecIInv, PTL DEF Spec
============================================================================

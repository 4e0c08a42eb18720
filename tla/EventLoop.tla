------------------------------ MODULE EventLoop ------------------------------
(***************************************************************************)
(* scheduler::Scheduler: the pool of event slots with its generations, the *)
(* epoll loop with its batches of events, the deferred calls and the loops *)
(* nested in callbacks; with three kinds of tasks that live on it:         *)
(*   - the one-shot TimeoutTask, used as AGnssProcessor uses it;           *)
(*   - streamline::QueueTask, a queue behind an eventfd;                   *)
(*   - FileDescriptorTask.                                                 *)
(* There is one thread.  What it is doing is a stack of frames: a loop     *)
(* (deferred calls, wait, events), the callback of an event, and possibly  *)
(* a loop nested in that callback.                                         *)
(***************************************************************************)
EXTENDS Integers, Sequences, FiniteSets

CONSTANTS
    Timers, Queues, Sources, \* the tasks, one descriptor each
    NumSlots,       \* MAX_EVENT_SLOTS
    GenModulus,     \* generations are counted modulo this (2^16)
    FirstGens,      \* generations a slot may have reached at the start
    EventCount,     \* EVENT_COUNT, the size of mEvents
    QueueSize,      \* EVENT_QUEUE_SIZE
    PerWaits,       \* what max_events_per_wait may be set to
    MaxSteps        \* bound: what callbacks do, in all

Tasks == Timers \cup Queues \cup Sources

NoTask == "none"

ASSUME EventLoopAssumption ==
    /\ NoTask \notin Tasks
    /\ Timers \cap Queues = {} /\ Timers \cap Sources = {} /\ Queues \cap Sources = {}
    /\ NumSlots \in Nat \ {0} /\ EventCount \in Nat \ {0}
    /\ QueueSize \in Nat \ {0} /\ MaxSteps \in Nat
    /\ GenModulus \in Nat \ {0, 1} /\ FirstGens \subseteq 0..(GenModulus - 1)
    /\ PerWaits \subseteq Nat \ {0}

VARIABLES
    mode,     \* max_events_per_wait, and whether callbacks nest loops
    pool,     \* mEventPool, with the registration of each slot, a ghost
    kernel,   \* the interest list of epoll: the handle given for each task
    count,    \* mEpollCount
    deferred, \* mDeferredCallbacks
    events,   \* mEvents, overwritten from its start by every wait
    stack,    \* what the thread is doing, innermost last
    handle,   \* the ScheduledEvent each task keeps
    ready,    \* the tasks whose descriptor is readable
    object,   \* which TimeoutTask of a timer exists, 0 for none; and whether
              \* AGnssProcessor waits for it (mTriggeredRequestPending)
    queue,    \* elements in mQueue and value of its eventfd
    interrupted, \* mInterrupted
    steps     \* bounded by MaxSteps

vars == <<mode, pool, kernel, count, deferred, events, stack, handle, ready,
          object, queue, interrupted, steps>>

Slots == 1..NumSlots

Invalid == [slot |-> 0, gen |-> 0]
FreeSlot(gen) == [inUse |-> FALSE, pending |-> FALSE, gen |-> gen,
                  owner |-> NoTask, reg |-> 0]

Top == stack[Len(stack)]
Below == SubSeq(stack, 1, Len(stack) - 1)
Replace(frame) == Append(Below, frame)

\* A loop that is running deferred calls, about to wait if it has not yet.
Loop(once, waited, calls) ==
    [at |-> "deferred", once |-> once, waited |-> waited, calls |-> calls]
Waiting(once) == [at |-> "wait", once |-> once]
Events(once, n) == [at |-> "events", once |-> once, next |-> 1, last |-> n]
\* The callback of task t, called for registration reg; a queue's has pops
\* elements left to take.  NoTask stands for a deferred call.
Callback(t, reg, pops) ==
    [at |-> "callback", task |-> t, reg |-> reg, pops |-> pops]

\* The deferred calls: of on_event of a TimeoutTask, with the object that
\* made it; and any other.  from tells, as a ghost, where it was made.
CancelCall(t, from) ==
    [call |-> "cancel", task |-> t, object |-> object[t].id, from |-> from]
UserCall(from) == [call |-> "user", task |-> NoTask, object |-> 0, from |-> from]

----------------------------------------------------------------------------
(***************************************************************************)
(* The pool.  A pool together with the interest list and the count is a    *)
(* record p, since one handler may change them more than once.             *)
(***************************************************************************)
Pool == [slots |-> pool, kernel |-> kernel, count |-> count]

SetPool(p) ==
    /\ pool' = p.slots
    /\ kernel' = p.kernel
    /\ count' = p.count

\* Mutant of the next operator: only the generation is compared.
LiveByGeneration(slots, h) == h.slot \in Slots /\ slots[h.slot].gen = h.gen

\* get_slot: the handle names a slot in use by the same registration.
Live(slots, h) ==
    /\ h.slot \in Slots
    /\ slots[h.slot].inUse
    /\ slots[h.slot].gen = h.gen

\* Mutant of the next operator: the generation does not wrap.
NextGenUnwrapped(g) == g + 1

\* The generation of the next registration: 16 bits, and never 0.
NextGen(g) == IF (g + 1) % GenModulus = 0 THEN 1 ELSE (g + 1) % GenModulus

FreeSlots(p) == {s \in Slots : ~p.slots[s].inUse /\ ~p.slots[s].pending}

Registrations(p) == {p.slots[s].reg : s \in Slots}
NewReg(p) == 1 + CHOOSE r \in Registrations(p) :
                    \A q \in Registrations(p) : q <= r

\* register_fd: the first slot that is free and not waiting to be; epoll_ctl
\* refuses a descriptor that is already there, and may fail.
RegisterFd(p, t, fails) ==
    IF FreeSlots(p) = {} THEN [pool |-> p, handle |-> Invalid]
    ELSE LET s == CHOOSE x \in FreeSlots(p) : \A y \in FreeSlots(p) : x <= y
             g == NextGen(p.slots[s].gen)
             h == [slot |-> s, gen |-> g]
         IN  IF fails \/ p.kernel[t] # Invalid
             THEN [pool   |-> [p EXCEPT !.slots[s] =
                                  [FreeSlot(g) EXCEPT !.reg = p.slots[s].reg]],
                   handle |-> Invalid]
             ELSE [pool   |-> [slots  |-> [p.slots EXCEPT ![s] =
                                 [inUse |-> TRUE, pending |-> FALSE, gen |-> g,
                                  owner |-> t, reg |-> NewReg(p)]],
                               kernel |-> [p.kernel EXCEPT ![t] = h],
                               count  |-> p.count + 1],
                   handle |-> h]

\* Mutant of the next operator: mCount is left alone.
UnregisterUncounted(p, h) ==
    IF ~Live(p.slots, h) THEN p
    ELSE [p EXCEPT !.slots[h.slot].inUse = FALSE,
                   !.slots[h.slot].pending = TRUE,
                   !.kernel[p.slots[h.slot].owner] = Invalid]

\* Scheduler::unregister: the callback stays until the slot is given back.
Unregister(p, h) ==
    IF ~Live(p.slots, h) THEN p
    ELSE [slots  |-> [p.slots EXCEPT ![h.slot].inUse = FALSE,
                                     ![h.slot].pending = TRUE],
          kernel |-> [p.kernel EXCEPT ![p.slots[h.slot].owner] = Invalid],
          count  |-> p.count - 1]

\* The first half of process_deferred: slots that wait are free again.
Reclaimed(slots) ==
    [s \in Slots |-> IF slots[s].pending
                     THEN [slots[s] EXCEPT !.pending = FALSE, !.owner = NoTask]
                     ELSE slots[s]]

\* process_deferred begins: it takes the calls there are now, and those made
\* while they run wait for the next time.
ProcessDeferred(once, waited, below) ==
    /\ pool' = Reclaimed(pool)
    /\ stack' = Append(below, Loop(once, waited, deferred))
    /\ deferred' = <<>>
    /\ UNCHANGED <<kernel, count>>

----------------------------------------------------------------------------
Init ==
    /\ mode \in [perWait : PerWaits, nests : BOOLEAN]
    /\ \E g \in FirstGens : pool = [s \in Slots |-> FreeSlot(g)]
    /\ kernel = [t \in Tasks |-> Invalid]
    /\ count = 0
    /\ deferred = <<>>
    /\ events = <<>>
    /\ stack = <<[at |-> "setup", left |-> Queues \cup Sources]>>
    /\ handle = [t \in Tasks |-> Invalid]
    /\ ready = {}
    /\ object = [t \in Timers |-> [id |-> 0, awaited |-> FALSE]]
    /\ queue = [t \in Queues |-> [size |-> 0, signal |-> 0]]
    /\ interrupted = FALSE
    /\ steps = 0

\* The program schedules its queues and inputs, then calls execute().
Setup ==
    /\ Top.at = "setup"
    /\ IF Top.left = {}
       THEN /\ ProcessDeferred(FALSE, FALSE, <<>>)
            /\ UNCHANGED handle
       ELSE \E t \in Top.left :
              LET r == RegisterFd(Pool, t, FALSE)
              IN  /\ SetPool(r.pool)
                  /\ handle' = [handle EXCEPT ![t] = r.handle]
                  /\ stack' = <<[at |-> "setup", left |-> Top.left \ {t}]>>
                  /\ UNCHANGED deferred
    /\ UNCHANGED <<mode, events, ready, object, queue, interrupted, steps>>

----------------------------------------------------------------------------
(***************************************************************************)
(* The loop.                                                               *)
(***************************************************************************)

\* A descriptor becomes readable; it matters from the next wait on.  That of
\* a queue is readable as long as its eventfd is not zero.
Arrives(t) ==
    /\ Top.at = "wait"
    /\ t \in Sources \/ (t \in Timers /\ handle[t] # Invalid)
    /\ t \notin ready
    /\ ready' = ready \cup {t}
    /\ UNCHANGED <<mode, pool, kernel, count, deferred, events, stack, handle,
                   object, queue, interrupted, steps>>

Reported == {t \in ready \cup {q \in Queues : queue[q].signal > 0} :
                kernel[t] # Invalid}

\* The orders in which epoll may report the members of S.
Orders(S) == {f \in [1..Cardinality(S) -> S] :
                 \A i, j \in DOMAIN f : f[i] = f[j] => i = j}

\* Mutant of the next operator: every event that was reported is processed.
ToProcessAll(n) == n

ToProcess(n) == IF n < mode.perWait THEN n ELSE mode.perWait

\* epoll_pwait, with the checks before it: without descriptors execute()
\* returns; execute_once() does not block, and goes on with no event.
Wait ==
    /\ Top.at = "wait"
    /\ ~interrupted
    /\ Top.once \/ (count # 0 /\ Reported # {})
    /\ \E order \in Orders(Reported) :
         LET n == IF Cardinality(Reported) < EventCount
                  THEN Cardinality(Reported) ELSE EventCount
             got == [i \in 1..n |->
                       [h |-> kernel[order[i]],
                        reg |-> pool[kernel[order[i]].slot].reg,
                        depth |-> Len(stack)]]
         IN  /\ events' = got \o SubSeq(events, n + 1, Len(events))
             /\ stack' = Replace(Events(Top.once, ToProcess(n)))
    /\ UNCHANGED <<mode, pool, kernel, count, deferred, handle, ready, object,
                   queue, interrupted, steps>>

\* execute() has no descriptor to wait for, or a loop has been interrupted.
Leave ==
    /\ Top.at = "wait"
    /\ interrupted \/ (~Top.once /\ count = 0)
    /\ stack' = IF Top.once THEN Below ELSE <<[at |-> "returned"]>>
    /\ UNCHANGED <<mode, pool, kernel, count, deferred, events, handle, ready,
                   object, queue, interrupted, steps>>

\* What the callbacks of the three kinds do first: a timer and a queue read
\* their descriptor, a source may leave some of its data unread.  A read of
\* an eventfd that is zero leaves value in poll_count as it was: anything.
Reads(t) ==
    CASE t \in Timers ->
           /\ ready' = ready \ {t}
           /\ object' = [object EXCEPT ![t].awaited = FALSE]
           /\ UNCHANGED queue
      [] t \in Queues ->
           /\ queue' = [queue EXCEPT ![t].signal = 0]
           /\ UNCHANGED <<ready, object>>
      [] t \in Sources ->
           /\ ready' \in {ready, ready \ {t}}
           /\ UNCHANGED <<object, queue>>

PollCounts(t) ==
    IF t \notin Queues THEN {0}
    ELSE IF queue[t].signal > 0 THEN {queue[t].signal}
    ELSE 0..(QueueSize + 1)

\* process_event: an event whose slot is no longer what it was is dropped.
ProcessEvent ==
    /\ Top.at = "events" /\ Top.next <= Top.last
    /\ LET e == events[Top.next]
           done == Replace([Top EXCEPT !.next = @ + 1])
       IN  IF Live(pool, e.h)
           THEN LET slot == pool[e.h.slot]
                IN  /\ Reads(slot.owner)
                    /\ \E pops \in PollCounts(slot.owner) :
                         stack' = Append(done,
                                         Callback(slot.owner, slot.reg, pops))
           ELSE /\ stack' = done
                /\ UNCHANGED <<ready, object, queue>>
    /\ UNCHANGED <<mode, pool, kernel, count, deferred, events, handle,
                   interrupted, steps>>

\* Mutant of the next action: the loop goes straight on to the next wait.
EventsDoneWaiting ==
    /\ Top.at = "events" /\ Top.next > Top.last
    /\ stack' = IF Top.once THEN Below ELSE Replace(Waiting(FALSE))
    /\ UNCHANGED <<mode, pool, kernel, count, deferred, events, handle, ready,
                   object, queue, interrupted, steps>>

\* The batch is done, or as much of it as max_events_per_wait allows.
EventsDone ==
    /\ Top.at = "events" /\ Top.next > Top.last
    /\ ProcessDeferred(Top.once, TRUE, Below)
    /\ UNCHANGED <<mode, events, handle, ready, object, queue, interrupted,
                   steps>>

\* TimeoutTask::cancel: the event is unregistered, the timer disarmed.
Cancelled(t) ==
    /\ SetPool(Unregister(Pool, handle[t]))
    /\ handle' = [handle EXCEPT ![t] = Invalid]
    /\ ready' = IF t \in Timers THEN ready \ {t} ELSE ready

\* The next deferred call: the cancel of a TimeoutTask runs at once, any
\* other does what callbacks do.
RunDeferred ==
    /\ Top.at = "deferred" /\ Top.calls # <<>>
    /\ LET c == Head(Top.calls)
           rest == Replace([Top EXCEPT !.calls = Tail(@)])
       IN  CASE c.call = "cancel" ->
                  /\ Cancelled(c.task)
                  /\ stack' = rest
             [] c.call = "user" ->
                  /\ stack' = Append(rest, Callback(NoTask, 0, 0))
                  /\ UNCHANGED <<pool, kernel, count, handle, ready>>
    /\ UNCHANGED <<mode, deferred, events, object, queue, interrupted, steps>>

\* All have run: execute_once() returns if it has waited.
DeferredDone ==
    /\ Top.at = "deferred" /\ Top.calls = <<>>
    /\ stack' = IF Top.once /\ Top.waited THEN Below ELSE Replace(Waiting(Top.once))
    /\ UNCHANGED <<mode, pool, kernel, count, deferred, events, handle, ready,
                   object, queue, interrupted, steps>>

----------------------------------------------------------------------------
(***************************************************************************)
(* What callbacks and deferred calls may do, in any order and number.      *)
(***************************************************************************)
InCallback == Top.at = "callback"

\* The callback belongs to an event, or to a deferred call.
Origin == IF \E i \in DOMAIN stack : stack[i].at = "deferred"
          THEN "deferred" ELSE "event"

Step ==
    /\ InCallback
    /\ steps < MaxSteps
    /\ steps' = steps + 1

\* FileDescriptorTask::cancel and schedule, and those of QueueTask.
Cancel(t) ==
    /\ Step
    /\ handle[t] # Invalid
    /\ Cancelled(t)
    /\ UNCHANGED <<mode, deferred, events, stack, object, queue, interrupted>>

Schedule(t) ==
    /\ Step
    /\ t \notin Timers /\ handle[t] = Invalid
    /\ \E fails \in BOOLEAN :
         LET r == RegisterFd(Pool, t, fails)
         IN  /\ SetPool(r.pool)
             /\ handle' = [handle EXCEPT ![t] = r.handle]
    /\ UNCHANGED <<mode, deferred, events, stack, ready, object, queue,
                   interrupted>>

\* set_fd of a scheduled task: unregistered, registered with the new
\* descriptor, which has nothing to read yet.
SetFd(t) ==
    /\ Step
    /\ t \in Sources /\ handle[t] # Invalid
    /\ LET r == RegisterFd(Unregister(Pool, handle[t]), t, FALSE)
       IN  /\ SetPool(r.pool)
           /\ handle' = [handle EXCEPT ![t] = r.handle]
    /\ ready' = ready \ {t}
    /\ UNCHANGED <<mode, deferred, events, stack, object, queue, interrupted>>

\* AGnssProcessor::schedule_triggered_request, from the inspector of a queue:
\* unless a request waits, a new TimeoutTask takes the place of the old one.
\* It registers a descriptor of its own, and then the destructor of the old
\* one cancels that.
TriggeredRequest(t) ==
    /\ Step
    /\ Top.task \in Queues
    /\ ~object[t].awaited
    /\ LET r == RegisterFd([Pool EXCEPT !.kernel[t] = Invalid], t, FALSE)
       IN  /\ SetPool([Unregister(r.pool, handle[t])
                          EXCEPT !.kernel[t] = r.handle])
           /\ handle' = [handle EXCEPT ![t] = r.handle]
    /\ object' = [object EXCEPT ![t] = [id |-> @.id + 1, awaited |-> TRUE]]
    /\ ready' = ready \ {t}
    /\ UNCHANGED <<mode, deferred, events, stack, queue, interrupted>>

\* Mutant of the next operator: the eventfd is written whatever happens.
PushToSignalling(q) ==
    [size |-> IF q.size = QueueSize THEN q.size ELSE q.size + 1,
     signal |-> q.signal + 1]

\* Inspectors, consumers and inputs push to the queues.  Over the limit the
\* oldest element makes room, and the eventfd is not written.
PushTo(q) == IF q.size = QueueSize THEN q
             ELSE [size |-> q.size + 1, signal |-> q.signal + 1]

Push(t) ==
    /\ Step
    /\ queue' = [queue EXCEPT ![t] = PushTo(@)]
    /\ UNCHANGED <<mode, pool, kernel, count, deferred, events, stack, handle,
                   ready, object, interrupted>>

Defer ==
    /\ Step
    /\ deferred' = Append(deferred, UserCall(Origin))
    /\ UNCHANGED <<mode, pool, kernel, count, events, stack, handle, ready,
                   object, queue, interrupted>>

Interrupt ==
    /\ Step
    /\ ~interrupted
    /\ interrupted' = TRUE
    /\ UNCHANGED <<mode, pool, kernel, count, deferred, events, stack, handle,
                   ready, object, queue>>

\* An input drains the queues by execute_once() before it goes on.
Nest ==
    /\ Step
    /\ mode.nests
    /\ Top.task \in Sources
    /\ ProcessDeferred(TRUE, FALSE, stack)
    /\ UNCHANGED <<mode, events, handle, ready, object, queue, interrupted>>

\* The handler of a queue takes the next of its elements, for as many as
\* poll_count told it.  (pop of an empty std::queue is undefined.)
Pop ==
    /\ InCallback /\ Top.pops > 0
    /\ queue[Top.task].size > 0
    /\ queue' = [queue EXCEPT ![Top.task].size = @ - 1]
    /\ stack' = Replace([Top EXCEPT !.pops = @ - 1])
    /\ UNCHANGED <<mode, pool, kernel, count, deferred, events, handle, ready,
                   object, interrupted, steps>>

\* The callback returns; that of a TimeoutTask defers its cancel.
Return ==
    /\ InCallback /\ Top.pops = 0
    /\ stack' = Below
    /\ deferred' = IF Top.task \in Timers
                   THEN Append(deferred, CancelCall(Top.task, Origin))
                   ELSE deferred
    /\ UNCHANGED <<mode, pool, kernel, count, events, handle, ready, object,
                   queue, interrupted, steps>>

Next ==
    \/ Setup \/ Wait \/ Leave \/ ProcessEvent \/ EventsDone
    \/ RunDeferred \/ DeferredDone
    \/ \E t \in Tasks : Arrives(t)
    \/ \E t \in Tasks : Cancel(t) \/ Schedule(t)
    \/ \E t \in Sources : SetFd(t)
    \/ \E t \in Timers : TriggeredRequest(t)
    \/ \E t \in Queues : Push(t)
    \/ Defer \/ Interrupt \/ Nest \/ Pop \/ Return

Spec == Init /\ [][Next]_vars

----------------------------------------------------------------------------
(***************************************************************************)
(* Properties                                                              *)
(***************************************************************************)
Frames == {"setup", "deferred", "wait", "events", "callback", "returned"}

\* What Scheduler and its tasks keep, bounded by the limits of the code.
TypeOK ==
    /\ \A s \in Slots : /\ pool[s].gen \in 0..(GenModulus - 1)
                         /\ pool[s].owner \in Tasks \cup {NoTask}
    /\ count \in 0..NumSlots
    /\ Len(events) <= EventCount
    /\ \A i \in DOMAIN stack : stack[i].at \in Frames
    /\ \A q \in Queues : queue[q].size \in 0..QueueSize
    /\ ready \subseteq Timers \cup Sources
    /\ steps \in 0..MaxSteps

\* mEventPool, the interest list of epoll, mEpollCount and the handles that
\* the tasks keep tell the same story: a valid handle names a slot in use by
\* that very task, with its generation, which epoll reports under that handle;
\* no slot is in use by a task that has let go of it, and none is both in use
\* and waiting to be freed.
PoolAgrees ==
    /\ \A t \in Tasks :
         /\ kernel[t] = handle[t]
         /\ handle[t] # Invalid =>
              /\ Live(pool, handle[t])
              /\ pool[handle[t].slot].owner = t
    /\ \A s \in Slots :
         pool[s].inUse => /\ ~pool[s].pending
                          /\ handle[pool[s].owner].slot = s
    /\ count = Cardinality({s \in Slots : pool[s].inUse})

\* No loop is nested in a batch of several events.  (Where one is, it leaves
\* its own events in the rest of the outer batch, mEvents being shared: they
\* are processed a second time, and a queue that is called with nothing to
\* read pops an undefined number of elements.)
OneBatch == mode.perWait = 1 \/ ~mode.nests

\* process_event calls back only for the registration that epoll_pwait
\* reported: not one that has been given up in the meantime, and not the next
\* to use its slot.  In one batch at a time it is one of the loop's own wait,
\* too.
EventsReachTheirRegistration ==
    [][(Top.at = "events" /\ Len(stack') > Len(stack)) =>
         LET called == stack'[Len(stack')]
         IN  /\ called.reg = events[Top.next].reg
             /\ handle[called.task] = events[Top.next].h
             /\ OneBatch => events[Top.next].depth = Len(stack)]_vars

\* What the callback of an event defers runs before the loop waits again: at
\* a wait of execute() only calls are left that deferred calls have made.
DeferredBeforeWait ==
    (Top.at = "wait" /\ Len(stack) = 1) =>
        \A i \in DOMAIN deferred : deferred[i].from = "deferred"

\* The cancel that TimeoutTask::on_event defers finds its object alive, while
\* one event is processed per wait.  (With more, the inspector of the next
\* event may replace the task before that.)
DeferredCancelsFindTheirTask ==
    mode.perWait = 1 =>
        \A calls \in {deferred} \cup
                     {stack[i].calls : i \in {j \in DOMAIN stack :
                                              stack[j].at = "deferred"}} :
            \A i \in DOMAIN calls :
                calls[i].call = "cancel" =>
                    calls[i].object = object[calls[i].task].id

\* The eventfd of a queue and the handlers that are taking elements from it
\* account for exactly the elements it has, whatever is pushed meanwhile, by
\* consumers or in loops nested one event deep: none is left without an event,
\* and pop is never called on an empty queue.
PopsInProgress(q) ==
    LET mine == {i \in DOMAIN stack :
                    stack[i].at = "callback" /\ stack[i].task = q}
        f[S \in SUBSET mine] ==
            IF S = {} THEN 0
            ELSE LET i == CHOOSE x \in S : TRUE
                 IN  stack[i].pops + f[S \ {i}]
    IN  f[mine]

QueueCountsAgree ==
    OneBatch =>
        \A q \in Queues : queue[q].size = queue[q].signal + PopsInProgress(q)
==============================================================================

---------------------------- MODULE WorkerTimers ----------------------------
(***************************************************************************)
(* The timer heap of a worker (ruvia-core/src/worker_timers.cpp).          *)
(*                                                                         *)
(* Only the worker touches the heap, the slots and the one Asio wait.  A   *)
(* registration may be cancelled on any thread: the slot's atomic          *)
(* active_generation_ is all that such a thread reads or writes before it  *)
(* posts the removal to the worker.  The worker's look at that word and    *)
(* its release of the slot are therefore two steps; the rest of a call on  *)
(* the worker is one.                                                      *)
(*                                                                         *)
(* The heap is the set of its entries (deadline and sequence order them    *)
(* totally).  Handlers of cancelled waits fail the generation test and do  *)
(* nothing, so only the wait of the current generation is kept.            *)
(***************************************************************************)
EXTENDS Naturals, Sequences, FiniteSets, FiniteSetsExt

CONSTANTS
    Regs,          \* worker_timer_registration objects
    MaxSchedules,  \* bound: schedule_timer() calls that reach the heap
    MaxTime,       \* bound: the clock
    MaxCancels,    \* bound: cancellations requested
    MaxFailures,   \* bound: throwing allocations (push_back, async_wait)
    CompactAt,     \* the compaction threshold, 64 in the code
    None

Ids == 0..(MaxSchedules - 1)              \* a timer is named by its sequence_
Open == {"pending", "asked", "claimed"}   \* no, a notified, a silent cancellation
Settled == {"expired", "cancelled", "withdrawn"}

Times == 0..MaxTime
Generations == 0..MaxSchedules
Entries == [deadline : Times, sequence : Ids, slot : Nat, generation : Generations]
Slots == [generation : Generations, active : Generations, occupied : BOOLEAN,
          cancelRequested : BOOLEAN, completion : Ids \cup {None}]
Removals == [slot : Nat, generation : Generations, notify : BOOLEAN]
Rounds == [now : Times, limit : Generations]
Queues == [heap : SUBSET Entries, stale : Nat, armed : BOOLEAN, deadline : Times,
           wait : Times \cup {None}]
Holds == [slot : Nat, active : BOOLEAN, outcome : {"expired", "cancelled"}]

ASSUME TimersAssumption ==
    /\ MaxSchedules \in Nat /\ MaxTime \in Nat /\ MaxCancels \in Nat
    /\ MaxFailures \in Nat /\ CompactAt \in Nat \ {0}
    /\ None \notin Nat /\ None \notin Removals /\ None \notin Rounds /\ None \notin Holds

VARIABLES
    clock,          \* steady_clock
    q,              \* timers_, stale_timer_count_, timer_armed_, armed_deadline_, the Asio wait
    slots, free,    \* timer_slots_, the list from free_timer_slot_
    sequence,       \* next_timer_sequence_
    round,          \* dispatching_timers_: timer_round_deadline_ and sequence_limit, or None
    inCallback,     \* a completion of the round is running
    held,           \* the slot being released and what was read of it
    stopping,       \* timers_stopping_
    sweep,          \* next slot of the loop in stop_timers(), 0 outside it
    bound,          \* a registration's slot and generation
    off,            \* a cancellation on another thread that has still to post
    posted,         \* removal handlers queued on the worker
    cancels,        \* cancellations requested
    failures,       \* allocations that threw
    status          \* history: whether each timer was asked to end, and how it did

slab == <<slots, free, sequence>>
firing == <<round, inCallback>>
halt == <<stopping, sweep>>
worker == <<firing, held, halt>>
threads == <<bound, off, posted, cancels>>
vars == <<clock, q, slab, worker, threads, failures, status>>

Unbound == [slot |-> 0, generation |-> 0]

TypeOK ==
    /\ clock \in Times /\ sequence \in 0..MaxSchedules
    /\ q \in Queues /\ IsFiniteSet(q.heap)
    /\ slots \in Seq(Slots) /\ free \in Seq(1..Len(slots))
    /\ round \in Rounds \cup {None} /\ held \in Holds \cup {None}
    /\ inCallback \in BOOLEAN /\ stopping \in BOOLEAN /\ sweep \in 0..(Len(slots) + 1)
    /\ bound \in [Regs -> [slot : Nat, generation : Generations]]
    /\ off \in [Regs -> Removals \cup {None}] /\ posted \subseteq Removals
    /\ cancels \in 0..MaxCancels /\ failures \in 0..MaxFailures
    /\ status \in [Ids -> {"none"} \cup Open \cup Settled]

Init ==
    /\ clock = 0 /\ slots = << >> /\ free = << >> /\ sequence = 0
    /\ q = [heap |-> {}, stale |-> 0, armed |-> FALSE, deadline |-> 0, wait |-> None]
    /\ round = None /\ inCallback = FALSE /\ held = None /\ stopping = FALSE /\ sweep = 0
    /\ bound = [r \in Regs |-> Unbound] /\ off = [r \in Regs |-> None] /\ posted = {}
    /\ cancels = 0 /\ failures = 0 /\ status = [i \in Ids |-> "none"]

-----------------------------------------------------------------------------
(* The heap and the slots                                                   *)

\* timer_entry_later, read the other way round.
Before(e, f) == e.deadline < f.deadline \/ (e.deadline = f.deadline /\ e.sequence < f.sequence)

Front(heap) == CHOOSE e \in heap : \A f \in heap \ {e} : Before(e, f)

HasOccupied(sl, s, g) == g # 0 /\ s \in 1..Len(sl) /\ sl[s].occupied /\ sl[s].generation = g

HasTimer(s, g) == g # 0 /\ s \in 1..Len(slots) /\ slots[s].active = g

HasLiveEntry(sl, e) == HasOccupied(sl, e.slot, e.generation) /\ ~sl[e.slot].cancelRequested

\* What is left once stale entries are popped off the front.
FromFirstLive(sl, heap) ==
    {e \in heap : \E f \in heap : HasLiveEntry(sl, f) /\ (f = e \/ Before(f, e))}

Released(sl, s) ==
    [sl EXCEPT ![s] = [@ EXCEPT !.occupied = FALSE, !.cancelRequested = FALSE, !.completion = None,
                                !.active = 0]]

Disarmed(Q) == [Q EXCEPT !.armed = FALSE, !.wait = None, !.deadline = 0]

Drained_StaysArmed(Q) == [Q EXCEPT !.heap = {}, !.stale = 0, !.wait = None]

Drained(Q) == [Disarmed(Q) EXCEPT !.heap = {}, !.stale = 0]

\* note_stale_timer(): one more entry of the heap is dead.
NoteStale(sl, Q) ==
    LET n == Q.stale + 1
        heap == FromFirstLive(sl, Q.heap)
        stale == n - (Cardinality(Q.heap) - Cardinality(heap))
    IN  IF n = Cardinality(Q.heap) THEN Drained(Q)
        ELSE IF stale >= CompactAt /\ stale * 2 >= Cardinality(heap)
          THEN [Q EXCEPT !.heap = {e \in heap : HasLiveEntry(sl, e)}, !.stale = 0]
          ELSE [Q EXCEPT !.heap = heap, !.stale = stale]

\* arm_timer() up to async_wait(): the old wait is gone, the front is live.
PopStale(sl, Q) ==
    LET heap == FromFirstLive(sl, Q.heap)
        popped == Cardinality(Q.heap) - Cardinality(heap)
    IN  [Disarmed(Q) EXCEPT !.heap = heap, !.stale = IF popped > @ THEN 0 ELSE @ - popped]

\* arm_timer(): the results it may have.  armed_deadline_ is kept only while
\* it is read, that is while timer_armed_.
Arm(sl, Q) ==
    LET P == PopStale(sl, Q)
        d == Front(P.heap).deadline
    IN  IF stopping THEN {[queue |-> Disarmed(Q), throws |-> FALSE]}
        ELSE IF P.heap = {} THEN {[queue |-> P, throws |-> FALSE]}
        ELSE {[queue |-> [P EXCEPT !.armed = TRUE, !.deadline = d, !.wait = d], throws |-> FALSE],
              [queue |-> P, throws |-> TRUE]}

-----------------------------------------------------------------------------
(* What the worker is doing                                                 *)

\* User code runs on the worker: a turn of its own, or inside a completion.
UserCode == held = None /\ (round # None => inCallback)

\* The io_context may start the next handler.
Turn == UserCode /\ round = None /\ sweep = 0

\* stop_timers() up to its loop.
BeginSweep(Q) == stopping' = TRUE /\ sweep' = 1 /\ q' = Drained(Q)

StopTimers ==
    /\ UserCode /\ sweep = 0 /\ ~stopping
    /\ BeginSweep(q)
    /\ UNCHANGED <<clock, slab, firing, held, threads, failures, status>>

-----------------------------------------------------------------------------
(* schedule_timer()                                                         *)

Pending(r) == HasTimer(bound[r].slot, bound[r].generation)

Deadline_Unclamped(d) == d

\* Inside a round an entry is placed behind what the round found due.
Deadline(d) == IF round # None THEN Max({d, round.now}) ELSE d

FreeSlot == IF free = << >> THEN Len(slots) + 1 ELSE Head(free)

\* The slots with FreeSlot reserved: taken from the free list, or a new one.
Reserved ==
    LET blank == [generation |-> 0, active |-> 0, occupied |-> FALSE, cancelRequested |-> FALSE,
                  completion |-> None]
        grown == IF free = << >> THEN Append(slots, blank) ELSE slots
    IN  [grown EXCEPT ![FreeSlot] = [@ EXCEPT !.generation = grown[FreeSlot].generation + 1]]

FreeRest == IF free = << >> THEN << >> ELSE Tail(free)

MaySchedule(r) ==
    UserCode /\ off[r] = None /\ ~Pending(r) /\ ~stopping /\ sequence < MaxSchedules

\* The armed wait covers every deadline at or after it.
NeedsArm(d) == round = None /\ (~q.armed \/ d < q.deadline)

\* The slots and the queue with the new timer in them.
Filled == [Reserved EXCEPT ![FreeSlot] = [@ EXCEPT !.occupied = TRUE, !.completion = sequence,
                                                   !.active = Reserved[FreeSlot].generation]]

Pushed(d) == [q EXCEPT !.heap = @ \cup {[deadline |-> d, sequence |-> sequence, slot |-> FreeSlot,
                                         generation |-> Reserved[FreeSlot].generation]}]

Schedule(r, at) ==
    /\ MaySchedule(r)
    /\ LET d == Deadline(at)
       IN  IF NeedsArm(d) THEN \E a \in Arm(Filled, Pushed(d)) : ~a.throws /\ q' = a.queue
                          ELSE q' = Pushed(d)
    /\ slots' = Filled /\ free' = FreeRest /\ sequence' = sequence + 1
    /\ bound' = [bound EXCEPT ![r] = [slot |-> FreeSlot, generation |-> Filled[FreeSlot].generation]]
    /\ status' = [status EXCEPT ![sequence] = "pending"]
    /\ UNCHANGED <<clock, worker, off, posted, cancels, failures>>

\* A call that fails: the slot goes back to the free list, never delivered.
Withdraw(r) ==
    /\ free' = <<FreeSlot>> \o FreeRest /\ sequence' = sequence + 1
    /\ bound' = [bound EXCEPT ![r] = Unbound]
    /\ status' = [status EXCEPT ![sequence] = "withdrawn"]
    /\ UNCHANGED <<clock, firing, held, off, posted, cancels>>

\* async_wait() threw: withdraw the entry and arm for the older ones, or give
\* up on the queue (fail_timers()).
ScheduleArmThrows(r, at) ==
    /\ MaySchedule(r) /\ NeedsArm(Deadline(at)) /\ Withdraw(r)
    /\ slots' = Released(Filled, FreeSlot)
    /\ \E a \in Arm(Filled, Pushed(Deadline(at))) :
          /\ a.throws
          /\ \E b \in Arm(slots', NoteStale(slots', a.queue)) :
                /\ failures' = failures + (IF b.throws THEN 2 ELSE 1) /\ failures' <= MaxFailures
                /\ IF b.throws THEN BeginSweep(b.queue) ELSE q' = b.queue /\ UNCHANGED halt

\* push_back() threw.
SchedulePushThrows(r) ==
    /\ MaySchedule(r) /\ Withdraw(r)
    /\ failures < MaxFailures /\ failures' = failures + 1
    /\ slots' = Reserved
    /\ UNCHANGED <<q, halt>>

\* Moving the completion into the slot stopped the timers.
ScheduleStopsTimers(r) ==
    /\ MaySchedule(r) /\ sweep = 0 /\ Withdraw(r)
    /\ slots' = Reserved
    /\ BeginSweep(q)
    /\ UNCHANGED failures

-----------------------------------------------------------------------------
(* Cancellation                                                             *)

\* History: the timer in slot s is asked to end; a silent request stays silent.
Asked(s, how) ==
    [status EXCEPT ![slots[s].completion] = IF @ = "claimed" THEN @ ELSE how]

\* Bounds the requests.
Request == cancels < MaxCancels /\ cancels' = cancels + 1

\* ~worker_timer_registration() and cancel() on the worker: take_timer(), the
\* completion dropped.
Cancel(r) ==
    /\ UserCode /\ off[r] = None /\ bound[r] # Unbound /\ Request
    /\ bound' = [bound EXCEPT ![r] = Unbound]
    /\ LET s == bound[r].slot
       IN  IF Pending(r)
             THEN /\ slots' = Released(slots, s) /\ free' = <<s>> \o free
                  /\ q' = IF slots[s].cancelRequested THEN q ELSE NoteStale(slots', q)
                  /\ status' = [status EXCEPT ![slots[s].completion] = "withdrawn"]
             ELSE UNCHANGED <<slots, free, q, status>>
    /\ UNCHANGED <<clock, sequence, worker, off, posted, failures>>

\* cancel_and_notify(), or a token's cancel(), on the worker: the completion
\* stays in the slot until the deferred turn.
CancelAndNotify(s, g) ==
    /\ UserCode /\ HasOccupied(slots, s, g) /\ ~slots[s].cancelRequested /\ Request
    /\ slots' = [slots EXCEPT ![s].cancelRequested = TRUE]
    /\ q' = NoteStale(slots', q)
    /\ posted' = posted \cup {[slot |-> s, generation |-> g, notify |-> TRUE]}
    /\ status' = Asked(s, "asked")
    /\ \/ UNCHANGED bound
       \/ \E r \in Regs : off[r] = None /\ bound[r] = [slot |-> s, generation |-> g] /\ Pending(r)
                          /\ bound' = [bound EXCEPT ![r] = Unbound]
    /\ UNCHANGED <<clock, free, sequence, worker, off, failures>>

\* unregister() on another thread, to its compare-exchange.
CancelElsewhere(r, notify) ==
    /\ off[r] = None /\ bound[r] # Unbound /\ Request
    /\ bound' = [bound EXCEPT ![r] = Unbound]
    /\ LET s == bound[r].slot
       IN  IF Pending(r)
             THEN /\ off' = [off EXCEPT ![r] = [slot |-> s, generation |-> bound[r].generation,
                                                notify |-> notify]]
                  /\ slots' = IF notify THEN slots ELSE [slots EXCEPT ![s].active = 0]
                  /\ status' = Asked(s, IF notify THEN "asked" ELSE "claimed")
             ELSE UNCHANGED <<off, slots, status>>
    /\ UNCHANGED <<clock, q, free, sequence, worker, posted, failures>>

\* request_timer_cancellation() on another thread.
PostCancellation(r) ==
    /\ off[r] # None /\ off' = [off EXCEPT ![r] = None]
    /\ posted' = IF stopping THEN posted ELSE posted \cup {off[r]}
    /\ UNCHANGED <<clock, q, slab, worker, bound, cancels, failures, status>>

\* A token, perhaps of a timer long gone, is cancelled on another thread.
TokenCancelElsewhere(s, g) ==
    /\ ~stopping /\ Request
    /\ posted' = posted \cup {[slot |-> s, generation |-> g, notify |-> TRUE]}
    /\ status' = IF HasOccupied(slots, s, g) THEN Asked(s, "asked") ELSE status
    /\ UNCHANGED <<clock, q, slab, worker, bound, off, failures>>

-----------------------------------------------------------------------------
(* Releasing a slot whose completion may run                                *)

\* The worker has read active_generation_.
Hold(s, active, outcome) == held' = [slot |-> s, active |-> active, outcome |-> outcome]

Counts_CancelledTwice == held.outcome # "expired" /\ sweep = 0

\* take_timer() counts the entry it leaves in the heap; an expiry has popped
\* it, the sweep has cleared it, a notified cancellation has counted it.
Counts == held.outcome # "expired" /\ sweep = 0 /\ ~slots[held.slot].cancelRequested

\* release_timer_slot(), then the completion if the slot was read as active.
ReleaseHeld ==
    /\ held # None /\ held' = None
    /\ slots' = Released(slots, held.slot) /\ free' = <<held.slot>> \o free
    /\ q' = IF Counts THEN NoteStale(slots', q) ELSE q
    /\ status' = [status EXCEPT ![slots[held.slot].completion] =
                     IF held.active THEN held.outcome ELSE "withdrawn"]
    /\ inCallback' = (inCallback \/ (held.outcome = "expired" /\ held.active))
    /\ UNCHANGED <<clock, sequence, round, halt, threads, failures>>

Removes_AnyGeneration(p) == slots[p.slot].occupied

Removes(p) == HasOccupied(slots, p.slot, p.generation)

\* The posted or deferred removal: take_timer(), and the completion if asked.
RunPosted(p) ==
    /\ Turn /\ p \in posted /\ posted' = posted \ {p}
    /\ IF Removes(p) THEN Hold(p.slot, p.notify /\ slots[p.slot].active # 0, "cancelled")
                     ELSE UNCHANGED held
    /\ UNCHANGED <<clock, q, slab, firing, halt, bound, off, cancels, failures, status>>

\* One slot of the loop in stop_timers().
Sweep ==
    /\ sweep > 0 /\ held = None
    /\ LET occupied == {s \in sweep..Len(slots) : slots[s].occupied}
           s == Min(occupied)
       IN  IF occupied = {} THEN sweep' = 0 /\ UNCHANGED held
           ELSE sweep' = s + 1 /\ Hold(s, slots[s].active # 0, "cancelled")
    /\ UNCHANGED <<clock, q, slab, firing, stopping, threads, failures, status>>

\* detach_context(): nothing else runs on the worker, completions are dropped.
Detach ==
    /\ Turn /\ stopping' = TRUE /\ q' = Drained(q)
    /\ LET gone == {s \in 1..Len(slots) : slots[s].occupied}
       IN  /\ gone # {}
           /\ slots' = [s \in 1..Len(slots) |-> IF s \in gone THEN Released(slots, s)[s] ELSE slots[s]]
           /\ status' = [i \in Ids |-> IF \E s \in gone : slots[s].completion = i THEN "withdrawn"
                                       ELSE status[i]]
    /\ UNCHANGED <<clock, free, sequence, firing, held, sweep, threads, failures>>

-----------------------------------------------------------------------------
(* fire_timers()                                                            *)

Tick == clock < MaxTime /\ clock' = clock + 1 /\ UNCHANGED <<q, slab, worker, threads, failures, status>>

\* The current wait expired.
BeginRound ==
    /\ Turn /\ q.wait # None /\ q.wait <= clock
    /\ q' = Disarmed(q) /\ round' = [now |-> clock, limit |-> sequence]
    /\ UNCHANGED <<clock, slab, inCallback, held, halt, threads, failures, status>>

Due == q.heap # {} /\ Front(q.heap).deadline <= round.now /\ Front(q.heap).sequence < round.limit

\* One iteration of the round's loop: pop the front, skip it if it is stale.
Fire ==
    /\ round # None /\ ~inCallback /\ held = None /\ Due
    /\ LET e == Front(q.heap)
           Q == [q EXCEPT !.heap = @ \ {e}]
       IN  IF HasLiveEntry(slots, e)
             THEN q' = Q /\ Hold(e.slot, HasTimer(e.slot, e.generation), "expired")
             ELSE q' = [Q EXCEPT !.stale = IF @ = 0 THEN 0 ELSE @ - 1] /\ UNCHANGED held
    /\ UNCHANGED <<clock, slab, firing, halt, threads, failures, status>>

CallbackReturns ==
    /\ inCallback /\ held = None /\ sweep = 0 /\ inCallback' = FALSE
    /\ UNCHANGED <<clock, q, slab, round, held, halt, threads, failures, status>>

\* The loop is over, or a completion threw: arm for what is left.
EndRound ==
    /\ round # None /\ held = None /\ sweep = 0 /\ (inCallback \/ ~Due)
    /\ round' = None /\ inCallback' = FALSE
    /\ \E a \in Arm(slots, q) :
          \/ ~a.throws /\ q' = a.queue /\ UNCHANGED <<halt, failures>>
          \/ /\ a.throws /\ failures < MaxFailures /\ failures' = failures + 1
             /\ BeginSweep(a.queue)
    /\ UNCHANGED <<clock, slab, held, threads, status>>

WorkerStep ==
    \/ BeginRound \/ Fire \/ CallbackReturns \/ EndRound \/ ReleaseHeld \/ Sweep
    \/ \E p \in posted : RunPosted(p)

Next ==
    \/ Tick
    \/ \E r \in Regs :
          \/ \E at \in 0..MaxTime : Schedule(r, at) \/ ScheduleArmThrows(r, at)
          \/ SchedulePushThrows(r) \/ ScheduleStopsTimers(r)
          \/ Cancel(r) \/ PostCancellation(r)
          \/ \E notify \in BOOLEAN : CancelElsewhere(r, notify)
    \/ \E s \in 1..Len(slots) : \E g \in 1..slots[s].generation :
          CancelAndNotify(s, g) \/ TokenCancelElsewhere(s, g)
    \/ WorkerStep
    \/ StopTimers \/ Detach

Spec == Init /\ [][Next]_vars

(* Time passes, the worker runs its handlers and completions return, and a  *)
(* thread inside a cancellation finishes it.                                *)
Fairness ==
    /\ WF_vars(Tick) /\ WF_vars(WorkerStep)
    /\ \A r \in Regs : WF_vars(PostCancellation(r))

LiveSpec == Spec /\ Fairness

-----------------------------------------------------------------------------
(* Properties                                                               *)

Dead(sl, heap) == {e \in heap : ~HasLiveEntry(sl, e)}

\* note_stale_timer() clears the whole heap when its count reaches the heap's
\* size: the count is exactly the number of dead entries, or live timers go too.
StaleCountExact == ~stopping => q.stale = Cardinality(Dead(slots, q.heap))

\* The worker has popped the entry of slot s and is releasing the slot.
Expiring(s) == held # None /\ held.slot = s /\ held.outcome = "expired"

\* A pending timer that nobody cancelled has an entry in the heap, until the
\* entry expires, and the free list holds every free slot once.
LiveTimerInHeap ==
    ~stopping =>
        /\ \A s \in 1..Len(slots) :
              slots[s].occupied /\ ~slots[s].cancelRequested /\ ~Expiring(s) =>
                 \E e \in q.heap : e.slot = s /\ e.generation = slots[s].generation
        /\ \A s \in 1..Len(slots) : slots[s].occupied <=> \A i \in 1..Len(free) : free[i] # s
        /\ \A i, j \in 1..Len(free) : free[i] = free[j] => i = j

\* An entry is of one timer, which has no other and had its slot once; the
\* entry that expires is gone.
EntriesExact ==
    /\ stopping => q.heap = {}
    /\ \A e \in q.heap :
          /\ e.sequence < sequence /\ e.slot \in 1..Len(slots)
          /\ e.generation \in 1..slots[e.slot].generation
          /\ Expiring(e.slot) => e.generation # slots[e.slot].generation
    /\ \A e, f \in q.heap :
          e.sequence = f.sequence \/ (e.slot = f.slot /\ e.generation = f.generation) => e = f

\* A slot is active only for the timer that occupies it, no timer occupies two,
\* and the worker releases only an occupied one.
SlotsExact ==
    /\ \A s \in 1..Len(slots) :
          /\ slots[s].generation <= sequence
          /\ slots[s].active # 0 => slots[s].occupied /\ slots[s].active = slots[s].generation
          /\ slots[s].cancelRequested => slots[s].occupied
          /\ slots[s].occupied => slots[s].generation # 0 /\ slots[s].completion \in 0..(sequence - 1)
    /\ \A s, z \in 1..Len(slots) :
          slots[s].occupied /\ slots[z].occupied /\ slots[s].completion = slots[z].completion => s = z
    /\ held # None => held.slot \in 1..Len(slots) /\ slots[held.slot].occupied
    /\ sweep > 0 => stopping

\* armed_deadline_'s comment: outside a round the armed wait covers every live
\* entry, so nothing in the heap is left without a wakeup.
ArmedCoversHeap ==
    /\ q.armed <=> q.wait # None
    /\ q.armed => round = None /\ q.wait = q.deadline
    /\ round = None /\ ~stopping => \A e \in q.heap :
          HasLiveEntry(slots, e) => q.armed /\ q.wait <= e.deadline

\* What the completions of a round schedule is behind what the round found due.
BehindRound ==
    round # None => /\ round.limit <= sequence
                    /\ \A e \in q.heap : e.sequence >= round.limit => e.deadline >= round.now

\* A removal that may deliver a completion is for a timer long gone, or for one
\* that was asked to end.
Asking(p) ==
    /\ p.slot \in 1..Len(slots) /\ p.generation <= slots[p.slot].generation
    /\ p.notify /\ HasOccupied(slots, p.slot, p.generation) =>
          status[slots[p.slot].completion] # "pending"

\* So are all removals: queued, still to be posted, and the one that is running.
RemovalsAsked ==
    /\ \A p \in posted : Asking(p)
    /\ \A r \in Regs : off[r] # None => Asking(off[r])
    /\ held # None /\ held.outcome = "cancelled" /\ held.active /\ ~stopping =>
          status[slots[held.slot].completion] # "pending"

\* The heap, its count of dead entries, the slots, the free list, the armed wait
\* and the removals agree after every step, whoever cancelled and whatever threw.
HeapExact ==
    /\ TypeOK /\ StaleCountExact /\ LiveTimerInHeap /\ EntriesExact /\ SlotsExact
    /\ ArmedCoversHeap /\ BehindRound /\ RemovalsAsked

\* fire_timers(): a round that ends by itself has fired all that was due when
\* it began; what its completions scheduled could not hide any of it.
RoundFiresAllDue ==
    [][round # None /\ round' = None /\ ~inCallback /\ ~stopping =>
          \A e \in q.heap : HasLiveEntry(slots, e) /\ e.sequence < round.limit =>
                e.deadline > round.now]_vars

\* A stale token or handler ends only the timer it was made for: a timer that
\* is delivered as cancelled was asked to, or the queue is stopping.
CancelledWhenAsked ==
    [][\A i \in Ids : status[i] = "pending" /\ status'[i] = "cancelled" => stopping]_vars

\* Every scheduled timer ends: it fires, or it is cancelled or withdrawn.  (As
\* schedules are bounded and a settled timer stays settled, this is one
\* leads-to for each timer.)
TimerEnds == []<>(\A i \in Ids : status[i] \notin Open)

\* worker_timer.h:190: cancel() "Removes the registration without delivering
\* its completion": a timer whose generation cancel() took is not delivered.
CancelIsSilent ==
    [][\A i \in Ids : status[i] = "claimed" => status'[i] \in {"claimed", "withdrawn"}]_vars
=============================================================================

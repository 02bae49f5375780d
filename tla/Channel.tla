------------------------------- MODULE Channel -------------------------------
(***************************************************************************)
(* The bounded channel into a worker (include/ruvia/core/channel.h) and    *)
(* the single wait slot it shares with the other worker-bound primitives   *)
(* (detail/worker/worker_wait_awaiter.h, detail/suspend_race_state.h).     *)
(*                                                                         *)
(* Any thread sends: it reserves a slot under the mutex, moves the value   *)
(* in unlocked and publishes it under the mutex again, to the attached     *)
(* waiter or to the buffer.  Coroutines of one worker receive.  A wait can *)
(* be ended by a value, by close, by the worker's stop, by its deadline    *)
(* and by its stop token, on different threads; only the critical section  *)
(* that detaches the waiter may complete it.                               *)
(*                                                                         *)
(* One action is one critical section of mutex_ or one call into user code.*)
(* The coroutines share the worker's thread: busy is the one it is inside. *)
(* Timers, stop tokens and the worker's queue are modelled by what a wait  *)
(* sees of them.                                                           *)
(***************************************************************************)
EXTENDS Naturals, Sequences, FiniteSets, Chains

CONSTANTS
    Senders,    \* threads inside send()
    Receivers,  \* coroutines of the worker that receive
    Values,     \* payloads, each sent at most once
    Slots,      \* slots_
    Capacity,   \* capacity_
    MaxWaits,   \* bound on receives that publish a waiter
    None

Statuses == {"closed", "worker_stopping", "cancelled", "timed_out"}

ASSUME ChannelAssumption ==
    /\ Capacity \in Nat \ {0}
    /\ IsFiniteSet(Slots) /\ Cardinality(Slots) = Capacity + 1
    /\ IsFiniteSet(Senders)
    /\ MaxWaits \in Nat
    /\ None \notin Values \cup Slots \cup Receivers \cup Statuses
    /\ Slots \cap Statuses = {}

VARIABLES
    lifecycle, receiver_closed,   \* lifecycle_, receiver_closed_
    accepting, timers_stopping,   \* of the worker
    free, buffer, reserved,       \* free_, as a set; head_..tail_; reserved_
    value,                        \* slots_[n].value_
    waiter, generation,           \* wait_slot_: waiter_, generation_
    next_generation,              \* wait_slot_: next_generation_
    spc, snode,                   \* a send(): where it is, the slot it owns
    busy,                         \* the coroutine the worker's thread is inside
    rpc,                          \* a receive: where it is
    mygen,                        \* generation_ of its awaiter, 0 when not stoppable
    timed,                        \* it has a deadline
    phase,                        \* completion_: suspend_race_state
    result,                       \* the slot or the status it completed with
    timer,                        \* its timer registration is active
    posted,                       \* coroutines whose resume is queued on the worker
    stop, linked, calling,        \* stop tokens: requested; callback linked; being invoked
    retiring, doomed,             \* close(true): in its drain, and the slot it empties
    published, delivered          \* history: values in publication and in delivery order

state == <<lifecycle, receiver_closed, accepting, timers_stopping>>
store == <<free, buffer, reserved, value>>
wait == <<waiter, generation, next_generation>>
sends == <<spc, snode>>
awaiter == <<mygen, timed, phase, result, timer>>
stops == <<stop, linked, calling>>
vars == <<state, store, wait, sends, busy, rpc, awaiter, posted, stops, retiring, doomed,
          published, delivered>>

TypeOK ==
    /\ lifecycle \in {"open", "closed", "stopping"} /\ receiver_closed \in BOOLEAN
    /\ accepting \in BOOLEAN /\ timers_stopping \in BOOLEAN
    /\ free \subseteq Slots /\ buffer \in Seq(Slots) /\ reserved \in 0..Capacity
    /\ Len(buffer) + reserved <= Capacity
    /\ value \in [Slots -> Values \cup {None}]
    /\ waiter \in Receivers \cup {None}
    /\ generation \in 0..MaxWaits /\ next_generation \in 0..MaxWaits
    /\ spc \in [Senders -> {"out", "fill", "reject"}] /\ snode \in [Senders -> Slots \cup {None}]
    /\ busy \in Receivers \cup {None}
    /\ rpc \in [Receivers -> {"out", "suspend", "register", "waiting", "expired", "stopped",
                              "resume", "unwind"}]
    /\ mygen \in [Receivers -> 0..MaxWaits] /\ timed \in [Receivers -> BOOLEAN]
    /\ phase \in [Receivers -> {"pending", "suspended", "early", "ready"}]
    /\ result \in [Receivers -> Slots \cup Statuses \cup {None}]
    /\ timer \in [Receivers -> BOOLEAN]
    /\ posted \subseteq Receivers
    /\ stop \subseteq Receivers /\ linked \subseteq Receivers /\ calling \subseteq Receivers
    /\ retiring \in BOOLEAN /\ doomed \in Slots \cup {None}
    /\ published \in Seq(Values) /\ delivered \in Seq(Values)

Init ==
    /\ lifecycle = "open" /\ receiver_closed = FALSE
    /\ accepting = TRUE /\ timers_stopping = FALSE
    /\ free = Slots /\ buffer = << >> /\ reserved = 0 /\ value = [n \in Slots |-> None]
    /\ waiter = None /\ generation = 0 /\ next_generation = 0
    /\ spc = [s \in Senders |-> "out"] /\ snode = [s \in Senders |-> None]
    /\ busy = None /\ rpc = [r \in Receivers |-> "out"]
    /\ mygen = [r \in Receivers |-> 0] /\ timed = [r \in Receivers |-> FALSE]
    /\ phase = [r \in Receivers |-> "pending"] /\ result = [r \in Receivers |-> None]
    /\ timer = [r \in Receivers |-> FALSE]
    /\ posted = {}
    /\ stop = {} /\ linked = {} /\ calling = {}
    /\ retiring = FALSE /\ doomed = None
    /\ published = << >> /\ delivered = << >>

RGoto(r, place) == rpc' = [rpc EXCEPT ![r] = place]
SGoto(s, place) == spc' = [spc EXCEPT ![s] = place]

Sent == Elems(published) \cup {value[n] : n \in Slots}

-----------------------------------------------------------------------------
(* The wait slot                                                            *)

\* detach_all()
Detach == waiter' = None /\ generation' = 0

\* complete(): detach the waiter, hand it its outcome and, when the coroutine
\* is already suspended, cancel its deadline and queue its resume.
Complete(r, outcome) ==
    /\ Detach
    /\ result' = [result EXCEPT ![r] = outcome]
    /\ IF phase[r] = "suspended"
         THEN /\ phase' = [phase EXCEPT ![r] = "ready"]
              /\ timer' = [timer EXCEPT ![r] = FALSE]
              /\ posted' = posted \cup {r}
         ELSE /\ phase' = [phase EXCEPT ![r] = "early"]
              /\ UNCHANGED <<timer, posted>>
    /\ UNCHANGED next_generation

\* complete(status) for whoever is attached.
CompleteAttached(status) ==
    IF waiter = None
      THEN /\ Detach /\ UNCHANGED <<result, phase, timer, posted, next_generation>>
      ELSE Complete(waiter, status)

Cancel_AnyGeneration(gen) == CompleteAttached("cancelled")

\* cancel(): a stale generation belongs to a wait that already completed.
Cancel(gen) ==
    IF waiter # None /\ generation = gen
      THEN CompleteAttached("cancelled")
      ELSE UNCHANGED <<wait, result, phase, timer, posted>>

-----------------------------------------------------------------------------
(* send()                                                                   *)

Refuses == lifecycle # "open" \/ ~accepting

\* reserve_node() finds a slot.
Reservable == Len(buffer) + reserved # Capacity /\ free # {}

\* An open channel with a slot to spare; otherwise send() returns the value.
Reserve(s) ==
    /\ spc[s] = "out" /\ ~Refuses /\ Reservable
    /\ \E n \in free : free' = free \ {n} /\ snode' = [snode EXCEPT ![s] = n]
    /\ reserved' = reserved + 1
    /\ SGoto(s, "fill")
    /\ UNCHANGED <<state, buffer, value, wait, busy, rpc, awaiter, posted, stops, retiring, doomed,
                   published, delivered>>

\* The value's move throws.
FillThrows(s) ==
    /\ spc[s] = "fill"
    /\ reserved' = reserved - 1
    /\ free' = free \cup {snode[s]} /\ snode' = [snode EXCEPT ![s] = None]
    /\ SGoto(s, "out")
    /\ UNCHANGED <<state, buffer, value, wait, busy, rpc, awaiter, posted, stops, retiring, doomed,
                   published, delivered>>

\* The value is in its slot; the second critical section looks at the channel
\* again and gives it to the waiter, or to the buffer.
Publish(s) ==
    /\ spc[s] = "fill"
    /\ reserved' = reserved - 1
    /\ \E v \in Values \ Sent :
        /\ value' = [value EXCEPT ![snode[s]] = v]
        /\ \/ /\ Refuses
              /\ SGoto(s, "reject")
              /\ UNCHANGED <<wait, result, phase, timer, posted, buffer, snode, published, delivered>>
           \/ /\ ~Refuses
              /\ SGoto(s, "out") /\ snode' = [snode EXCEPT ![s] = None]
              /\ published' = Append(published, v)
              /\ \/ /\ waiter # None
                    /\ Complete(waiter, snode[s])
                    /\ delivered' = Append(delivered, v) /\ UNCHANGED buffer
                 \/ /\ waiter = None
                    /\ buffer' = Append(buffer, snode[s])
                    /\ UNCHANGED <<wait, result, phase, timer, posted, delivered>>
    /\ UNCHANGED <<state, free, busy, rpc, mygen, timed, stops, retiring, doomed>>

\* A value refused on publication goes back to the sender; node_guard empties
\* the slot and returns it.
Reject(s) ==
    /\ spc[s] = "reject"
    /\ value' = [value EXCEPT ![snode[s]] = None]
    /\ free' = free \cup {snode[s]} /\ snode' = [snode EXCEPT ![s] = None]
    /\ SGoto(s, "out")
    /\ UNCHANGED <<state, buffer, reserved, wait, busy, rpc, awaiter, posted, stops, retiring,
                   doomed, published, delivered>>

-----------------------------------------------------------------------------
(* receive(): await_ready, await_suspend, await_resume.  A receive that     *)
(* ends in await_ready without a value (closed, stopping, already cancelled *)
(* or expired, or a second receiver) changes nothing and is left out.       *)

\* A buffered value is taken even from a closed channel, before the stop token
\* and the deadline are looked at.
ReceiveBuffered(r) ==
    /\ busy = None /\ rpc[r] = "out" /\ ~receiver_closed /\ buffer # << >>
    /\ buffer' = Tail(buffer)
    /\ delivered' = Append(delivered, value[Head(buffer)])
    /\ result' = [result EXCEPT ![r] = Head(buffer)]
    /\ phase' = [phase EXCEPT ![r] = "early"]
    /\ busy' = r /\ RGoto(r, "resume")
    /\ UNCHANGED <<state, free, reserved, value, wait, sends, mygen, timed, timer, posted, stops,
                   retiring, doomed, published>>

ReceiveWait_NoBufferCheck(r) ==
    /\ busy = None /\ rpc[r] = "out" /\ ~receiver_closed
    /\ lifecycle = "open" /\ waiter = None
    /\ \E stoppable, deadline \in BOOLEAN :
        /\ stoppable => r \notin stop /\ next_generation < MaxWaits
        /\ next_generation' = IF stoppable THEN next_generation + 1 ELSE next_generation
        /\ generation' = IF stoppable THEN next_generation + 1 ELSE 0
        /\ mygen' = [mygen EXCEPT ![r] = generation']
        /\ timed' = [timed EXCEPT ![r] = deadline]
    /\ waiter' = r /\ busy' = r /\ RGoto(r, "suspend")
    /\ UNCHANGED <<state, store, sends, phase, result, timer, posted, stops, retiring, doomed,
                   published, delivered>>

\* Nothing to deliver: publish the awaiter as the pending receiver.
ReceiveWait(r) ==
    /\ busy = None /\ rpc[r] = "out" /\ ~receiver_closed
    /\ buffer = << >> /\ lifecycle = "open" /\ waiter = None
    /\ \E stoppable, deadline \in BOOLEAN :
        /\ stoppable => r \notin stop /\ next_generation < MaxWaits
        /\ next_generation' = IF stoppable THEN next_generation + 1 ELSE next_generation
        /\ generation' = IF stoppable THEN next_generation + 1 ELSE 0
        /\ mygen' = [mygen EXCEPT ![r] = generation']
        /\ timed' = [timed EXCEPT ![r] = deadline]
    /\ waiter' = r /\ busy' = r /\ RGoto(r, "suspend")
    /\ UNCHANGED <<state, store, sends, phase, result, timer, posted, stops, retiring, doomed,
                   published, delivered>>

\* The deadline is refused by a stopped timer queue: the wait ends here.
SuspendRefused(r) ==
    /\ rpc[r] = "suspend" /\ waiter = r /\ timed[r] /\ timers_stopping
    /\ Detach
    /\ result' = [result EXCEPT ![r] = "worker_stopping"]
    /\ phase' = [phase EXCEPT ![r] = "early"]
    /\ RGoto(r, "resume")
    /\ UNCHANGED <<state, store, next_generation, sends, busy, mygen, timed, timer, posted, stops,
                   retiring, doomed, published, delivered>>

\* schedule_timer() throws: the waiter is detached and the frame unwinds.
SuspendThrows(r) ==
    /\ rpc[r] = "suspend" /\ waiter = r /\ timed[r] /\ ~timers_stopping
    /\ Detach /\ RGoto(r, "unwind")
    /\ UNCHANGED <<state, store, next_generation, sends, busy, awaiter, posted, stops, retiring,
                   doomed, published, delivered>>

\* Arm the deadline of a wait still attached, then publish the continuation
\* unless the wait has completed already.
Suspend(r) ==
    /\ rpc[r] = "suspend" /\ ~(waiter = r /\ timed[r] /\ timers_stopping)
    /\ timer' = [timer EXCEPT ![r] = timed[r] /\ waiter = r]
    /\ \/ /\ phase[r] = "early" /\ RGoto(r, "resume") /\ UNCHANGED <<phase, busy>>
       \/ /\ phase[r] = "pending"
          /\ phase' = [phase EXCEPT ![r] = "suspended"]
          /\ RGoto(r, IF mygen[r] # 0 THEN "register" ELSE "waiting")
          /\ busy' = IF mygen[r] # 0 THEN r ELSE None
    /\ UNCHANGED <<state, store, wait, sends, mygen, timed, result, posted, stops, retiring, doomed,
                   published, delivered>>

\* register_cancellation(): a stop requested since await_ready runs the
\* callback inline.
Register(r) ==
    /\ rpc[r] = "register"
    /\ \/ r \in stop /\ Cancel(mygen[r]) /\ UNCHANGED linked
       \/ r \notin stop /\ linked' = linked \cup {r} /\ UNCHANGED <<wait, result, phase, timer, posted>>
    /\ busy' = None /\ RGoto(r, "waiting")
    /\ UNCHANGED <<state, store, sends, mygen, timed, stop, calling, retiring, doomed, published,
                   delivered>>

\* The worker runs the queued resume.
RunPosted(r) ==
    /\ busy = None /\ r \in posted
    /\ posted' = posted \ {r} /\ busy' = r /\ RGoto(r, "resume")
    /\ UNCHANGED <<state, store, wait, sends, awaiter, stops, retiring, doomed, published, delivered>>

\* await_resume: move the value out, empty the slot and return it.
TakeResult(r) ==
    /\ rpc[r] = "resume"
    /\ IF result[r] \in Slots
         THEN /\ value' = [value EXCEPT ![result[r]] = None]
              /\ free' = free \cup {result[r]}
         ELSE UNCHANGED <<value, free>>
    /\ result' = [result EXCEPT ![r] = None]
    /\ RGoto(r, "unwind")
    /\ UNCHANGED <<state, buffer, reserved, wait, sends, busy, mygen, timed, phase, timer, posted,
                   stops, retiring, doomed, published, delivered>>

\* The awaiter dies: its stop registration waits for a callback being invoked,
\* its timer registration is withdrawn.
Unwind(r) ==
    /\ rpc[r] = "unwind" /\ r \notin calling
    /\ linked' = linked \ {r}
    /\ timer' = [timer EXCEPT ![r] = FALSE]
    /\ phase' = [phase EXCEPT ![r] = "pending"]
    /\ mygen' = [mygen EXCEPT ![r] = 0] /\ timed' = [timed EXCEPT ![r] = FALSE]
    /\ busy' = None /\ RGoto(r, "out")
    /\ UNCHANGED <<state, store, wait, sends, result, posted, stop, calling, retiring, doomed,
                   published, delivered>>

-----------------------------------------------------------------------------
(* The other ways a wait ends                                               *)

\* The worker fires the deadline: its entry is inactive from here on.
Expire(r) ==
    /\ busy = None /\ rpc[r] = "waiting" /\ timer[r]
    /\ timer' = [timer EXCEPT ![r] = FALSE]
    /\ busy' = r /\ RGoto(r, "expired")
    /\ UNCHANGED <<state, store, wait, sends, mygen, timed, phase, result, posted, stops, retiring,
                   doomed, published, delivered>>

\* stop_timers() delivers pending deadlines as cancelled.
StopTimers ==
    /\ busy = None /\ ~timers_stopping
    /\ timers_stopping' = TRUE
    /\ \/ /\ \A r \in Receivers : ~timer[r]
          /\ UNCHANGED <<timer, busy, rpc>>
       \/ \E r \in Receivers :
             /\ timer[r] /\ timer' = [timer EXCEPT ![r] = FALSE]
             /\ busy' = r /\ RGoto(r, "stopped")
    /\ UNCHANGED <<lifecycle, receiver_closed, accepting, store, wait, sends, mygen, timed, phase,
                   result, posted, stops, retiring, doomed, published, delivered>>

\* on_timer_completed(): only a wait still attached ends here, and resumes inline.
TimerCompleted(r) ==
    /\ rpc[r] \in {"expired", "stopped"}
    /\ \/ /\ waiter # r
          /\ busy' = None /\ RGoto(r, "waiting") /\ UNCHANGED <<waiter, generation, result, phase>>
       \/ /\ waiter = r /\ Detach
          /\ result' = [result EXCEPT ![r] =
                           IF rpc[r] = "expired" THEN "timed_out" ELSE "worker_stopping"]
          /\ phase' = [phase EXCEPT ![r] = "ready"]
          /\ RGoto(r, "resume") /\ UNCHANGED busy
    /\ UNCHANGED <<state, store, next_generation, sends, mygen, timed, timer, posted, stops,
                   retiring, doomed, published, delivered>>

\* stop_source::request_stop() of the token of r: a linked callback is unlinked
\* and invoked outside the token's lock.
RequestStop(r) ==
    /\ r \notin stop
    /\ stop' = stop \cup {r}
    /\ linked' = linked \ {r} /\ calling' = calling \cup (linked \cap {r})
    /\ UNCHANGED <<state, store, wait, sends, busy, rpc, awaiter, posted, retiring, doomed,
                   published, delivered>>

\* request_cancellation()
StopCallback(r) ==
    /\ r \in calling
    /\ calling' = calling \ {r}
    /\ Cancel(mygen[r])
    /\ UNCHANGED <<state, store, sends, busy, rpc, mygen, timed, stop, linked, retiring, doomed,
                   published, delivered>>

\* close(): channel_sender::close(), and the first half of channel_receiver::close().
Close(retire) ==
    /\ receiver_closed' = (receiver_closed \/ retire)
    /\ IF lifecycle = "open"
         THEN lifecycle' = "closed" /\ CompleteAttached("closed")
         ELSE UNCHANGED <<lifecycle, wait, result, phase, timer, posted>>
    /\ UNCHANGED <<accepting, timers_stopping, store, sends, busy, rpc, mygen, timed, stops, doomed,
                   published, delivered>>

CloseSender == lifecycle = "open" /\ Close(FALSE) /\ UNCHANGED retiring

\* The receiver is closed once, by its owner or its destructor; a second close
\* finds nothing left to do.
RetireReceiver == ~receiver_closed /\ Close(TRUE) /\ retiring' = TRUE

\* discard_buffered(): unpublish under the lock, destroy outside it.
DiscardPop ==
    /\ retiring /\ doomed = None /\ buffer # << >>
    /\ doomed' = Head(buffer) /\ buffer' = Tail(buffer)
    /\ UNCHANGED <<state, free, reserved, value, wait, sends, busy, rpc, awaiter, posted, stops,
                   retiring, published, delivered>>

DiscardDestroy ==
    /\ doomed # None
    /\ value' = [value EXCEPT ![doomed] = None]
    /\ free' = free \cup {doomed} /\ doomed' = None
    /\ UNCHANGED <<state, buffer, reserved, wait, sends, busy, rpc, awaiter, posted, stops, retiring,
                   published, delivered>>

RetireDone ==
    /\ retiring /\ doomed = None /\ buffer = << >>
    /\ retiring' = FALSE
    /\ UNCHANGED <<state, store, wait, sends, busy, rpc, awaiter, posted, stops, doomed, published,
                   delivered>>

\* The dispatcher closes admission before it notifies its hooks.
WorkerCloses ==
    /\ accepting /\ accepting' = FALSE
    /\ UNCHANGED <<lifecycle, receiver_closed, timers_stopping, store, wait, sends, busy, rpc,
                   awaiter, posted, stops, retiring, doomed, published, delivered>>

WorkerStopping_NoWake ==
    /\ ~accepting /\ lifecycle # "stopping"
    /\ lifecycle' = "stopping"
    /\ UNCHANGED <<receiver_closed, accepting, timers_stopping, store, wait, sends, busy, rpc,
                   awaiter, posted, stops, retiring, doomed, published, delivered>>

\* worker_stopping(): the shutdown hook of the channel.
WorkerStopping ==
    /\ ~accepting /\ lifecycle # "stopping"
    /\ lifecycle' = "stopping"
    /\ CompleteAttached("worker_stopping")
    /\ UNCHANGED <<receiver_closed, accepting, timers_stopping, store, sends, busy, rpc, mygen,
                   timed, stops, retiring, doomed, published, delivered>>

-----------------------------------------------------------------------------
\* What the worker's thread does next inside or for a receive.
ReceiveStep(r) ==
    \/ SuspendRefused(r) \/ SuspendThrows(r) \/ Suspend(r) \/ Register(r)
    \/ RunPosted(r) \/ TakeResult(r) \/ Unwind(r) \/ TimerCompleted(r)

Discard == DiscardPop \/ DiscardDestroy \/ RetireDone

Next ==
    \/ \E s \in Senders : Reserve(s) \/ FillThrows(s) \/ Publish(s) \/ Reject(s)
    \/ \E r \in Receivers :
          ReceiveBuffered(r) \/ ReceiveWait(r) \/ ReceiveStep(r) \/ Expire(r)
          \/ RequestStop(r) \/ StopCallback(r)
    \/ StopTimers \/ CloseSender \/ RetireReceiver \/ Discard \/ WorkerCloses \/ WorkerStopping

Spec == Init /\ [][Next]_vars

(* The worker's thread runs, runs what is queued on it and fires due        *)
(* deadlines, a stop callback being invoked goes on, and a closing worker   *)
(* notifies its hooks.  Nobody is obliged to send, receive, close or stop.  *)
Fairness ==
    /\ \A r \in Receivers :
        /\ WF_vars(ReceiveStep(r)) /\ SF_vars(RunPosted(r)) /\ SF_vars(Expire(r))
        /\ WF_vars(StopCallback(r))
    /\ WF_vars(Discard) /\ WF_vars(WorkerStopping)

LiveSpec == Spec /\ Fairness

-----------------------------------------------------------------------------
(* Properties.                                                              *)

Filling == {s \in Senders : spc[s] = "fill"}

\* No slot has two owners: the free list, a send, the buffer, a completed
\* receive, the drain of close().
OneOwner ==
    /\ Distinct(buffer) /\ Elems(buffer) \cap free = {}
    /\ doomed \notin free \cup Elems(buffer)
    /\ \A s \in Senders : snode[s] # None =>
          /\ snode[s] \notin free \cup Elems(buffer) \cup {doomed}
          /\ \A u \in Senders \ {s} : snode[u] # snode[s]
          /\ \A r \in Receivers : result[r] # snode[s]
    /\ \A r \in Receivers : result[r] # None =>
          /\ result[r] \notin free \cup Elems(buffer) \cup {doomed}
          /\ \A q \in Receivers \ {r} : result[r] \in Slots => result[q] # result[r]

\* No slot is lost.
NoLeak ==
    \A n \in Slots :
        \/ n \in free \cup Elems(buffer) \cup {doomed}
        \/ \E s \in Senders : snode[s] = n
        \/ \E r \in Receivers : result[r] = n

\* A slot is empty when free or reserved and full when buffered.
SlotValues ==
    /\ \A n \in free : value[n] = None
    /\ \A n \in Elems(buffer) : value[n] # None
    /\ \A s \in Senders : spc[s] = "fill" => value[snode[s]] = None

\* Every slot has exactly one owner, and reserved_ counts the sends between
\* their two critical sections.  No path through a failed move, a refused
\* publication or a retired receiver leaks a slot or frees it twice.
SlotsConserved ==
    /\ OneOwner /\ NoLeak /\ SlotValues
    /\ \A s \in Senders : spc[s] = "out" <=> snode[s] = None
    /\ reserved = Cardinality(Filling)

\* A waiter is attached only while it could not have been served: the channel
\* is open, the buffer is empty and its wait has not completed.  Otherwise it
\* would sleep beside the value or the close it waits for.
WaiterUnserved ==
    waiter # None =>
        /\ lifecycle = "open" /\ buffer = << >>
        /\ result[waiter] = None
        /\ \/ rpc[waiter] = "suspend" /\ phase[waiter] = "pending"
           \/ rpc[waiter] \in {"register", "waiting", "expired", "stopped"} /\ phase[waiter] = "suspended"

\* A completed wait is resumed exactly once: a queued resume belongs to a
\* suspended frame that nothing else resumes and that has its outcome.
ResumedOnce ==
    \A r \in Receivers :
        /\ r \in posted => /\ rpc[r] \in {"register", "waiting", "expired", "stopped"}
                           /\ phase[r] = "ready" /\ result[r] # None /\ waiter # r
        /\ rpc[r] = "resume" => r \notin posted /\ result[r] # None /\ waiter # r
        /\ timer[r] => rpc[r] \in {"register", "waiting"} /\ waiter = r

\* Values are delivered in the order they were published, whether the waiter
\* or the buffer took them; what was not delivered yet stands in the buffer.
DeliveredInOrder ==
    /\ Len(delivered) <= Len(published)
    /\ \A i \in 1..Len(delivered) : delivered[i] = published[i]
    /\ ~receiver_closed =>
        /\ Len(published) = Len(delivered) + Len(buffer)
        /\ \A i \in 1..Len(buffer) : value[buffer[i]] = published[Len(delivered) + i]

\* Once request_stop() has returned the wait is detached, so a later value is
\* buffered and never given to a cancelled receiver: a wait attached under a
\* requested stop still has its callback running or its registration to come.
StopDetaches ==
    waiter # None /\ generation # 0 /\ waiter \in stop =>
        waiter \in calling \/ rpc[waiter] \in {"suspend", "register"}

\* Only the stop token of a wait cancels it: the callback of an earlier wait,
\* still on its way to the lock, never cancels the wait now in the slot.
CancelledByOwnStop == \A r \in Receivers : result[r] = "cancelled" => r \in stop /\ mygen[r] # 0

\* A retired receiver takes nothing, and the close that retired it leaves no
\* buffered value behind, although sends were in flight.
NothingAfterRetire ==
    /\ receiver_closed /\ ~retiring => buffer = << >>
    /\ receiver_closed => waiter = None /\ lifecycle # "open"
    /\ retiring => receiver_closed

\* Where a receive is says what its awaiter, its registrations and the worker's
\* thread are doing: one coroutine at a time runs, and a wait that is no longer
\* attached has its outcome and its resume under way.
Inside == {"suspend", "register", "expired", "stopped", "resume", "unwind"}
Suspended == {"register", "waiting", "expired", "stopped"}

ReceivesAgree ==
    \A r \in Receivers :
        /\ rpc[r] \in Inside <=> busy = r
        /\ rpc[r] = "out" => phase[r] = "pending" /\ mygen[r] = 0
        /\ rpc[r] \in {"out", "unwind"} => result[r] = None
        /\ rpc[r] \notin Suspended \cup {"suspend"} => waiter # r
        /\ rpc[r] = "suspend" /\ waiter # r => phase[r] = "early" /\ result[r] # None
        /\ rpc[r] \in Suspended /\ waiter # r => r \in posted
        /\ rpc[r] = "register" => mygen[r] # 0
        /\ r \in linked \cup calling => mygen[r] # 0 /\ rpc[r] \notin {"out", "suspend", "register"}
        /\ r \in calling => r \in stop

\* A generation names one wait: the attached one, or one that completed.
GenerationsAgree ==
    /\ generation = IF waiter = None THEN 0 ELSE mygen[waiter]
    /\ \A r \in Receivers : mygen[r] <= next_generation
    /\ \A q, r \in Receivers : mygen[q] # 0 /\ q # r => mygen[q] # mygen[r]
    /\ waiter # None /\ mygen[waiter] # 0 =>
          waiter \in linked \cup calling \/ rpc[waiter] \in {"suspend", "register"}

\* The slots, the waiter and the lifecycle agree after every step: no slot is
\* lost, no coroutine waits beside a value, a stop or a close meant for it, and
\* none is cancelled by another's stop.
ChannelInv ==
    /\ TypeOK /\ SlotsConserved
    /\ WaiterUnserved /\ ResumedOnce /\ StopDetaches /\ CancelledByOwnStop /\ NothingAfterRetire
    /\ ReceivesAgree /\ GenerationsAgree

\* A wait with a reason to end, ends: its outcome is set, its stop is
\* requested, its deadline is armed or the channel has closed.
WaitEnds ==
    \A r \in Receivers :
        rpc[r] # "out" /\ (result[r] # None \/ timer[r] \/ lifecycle # "open"
                           \/ (mygen[r] # 0 /\ r \in stop))
          ~> rpc[r] = "out"
=============================================================================

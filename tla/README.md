# Ruvia: specification of the worker core

TLA+ specifications, TLC configurations and TLAPS proofs for the concurrent core
of Ruvia (`src/ruvia-core`): how work, wake-ups, values and shutdown cross from
any thread to the single thread of a worker. Source lines are those of the commit
under `src/`. `PROJECT.json` maps every definition to its lines.

## 1. Inventory

Ruvia is a C++ coroutine web framework in three libraries. `ruvia-core` is a
runtime of *workers*, one `asio::io_context` and thread each, with primitives that
bind to a worker. `ruvia-http` holds protocol codecs (HTTP/1, 2, 3, WebSocket).
`ruvia-web` is the application layer: server, router, HTTP, database and Redis
clients. Almost all cross-thread state is in `ruvia-core`; the other two run on a
worker and reach other threads through the core.

| Component | State | Operations | Interacts with | Hard behaviour | What makes it correct |
|---|---|---|---|---|---|
| Task queue (`worker_dispatcher.cpp`) | preallocated nodes on a free list, a ready list and a batch; pending and active counts; admission, attachment, abandon and drain flags; idle callbacks | `post`, `post_factory`, `drain`, `run_context`, `close`, `detach_context`, `wait_for_reservations`, `when_idle` | everything that runs on a worker; the event loop parks idle callbacks | two critical sections per post, user code between them; throwing tasks; abandonment racing publication | bounded, no node lost, no drain lost, FIFO, every task run or destroyed, idle callbacks called |
| Shutdown hooks (same file) | intrusive registry under its own mutex; two-phase batch with one pin; parked callbacks | register, unlink, `notify_stopping`, `when_shutdown_notifications_complete`, detach | every worker-bound state; event loop retirement | owners die while the walk is outside the mutex; `accepting_` read under another mutex | every live hook hears both phases, once and in order; callbacks after the batch |
| Notification (`worker_notification*.cpp`) | `activity_` (closed bit, producers inside), latch `pending_`, eventfd or pipe, one wait | `notify`, `wait`, `close` | producers on foreign threads; the reactor | lock-free latch against drain; full channel; failing reads; close during a wait | no lost wake, wait resumed on close, receiver retired |
| Blocking pool (`blocking_pool.cpp`) | nodes, ring, counters, one condition variable, thread handles | `submit`, thread loop, `stop`, `join`, destruction | callers on any thread; the coroutine wrapper in `blocking_pool.h` | unlocked drain in `stop`, `join` from a destructor inside it, several joins, shared condition variable | a free node for each admitted callable, each counted once and resolved, `join` returns to a quiet pool |
| Channel (`channel.h`) and wait slot (`worker_wait_awaiter.h`) | slots, buffer, lifecycle, one attached waiter with a generation, suspend race | `send`, `receive`, `close` on each side, worker stop | timers, stop tokens, task queue, hooks | one wait ended by five sources on several threads; stale cancellations; throwing moves | resumed once, FIFO, slots conserved, nothing after retirement, a wait with a reason to end ends |
| Timers (`worker_timers.cpp`) | heap, stale count, per-slot generations, round sequence | arm, cancel (on and off worker), fire, stop | every deadline | off-worker cancellation against expiry; pruning | fires or cancels once, live timers never pruned |
| Stop source and token (`stop_token.cpp`) | requested flag, callback list, running callback, epoch | `request_stop`, register, unlink | every stoppable wait | unlink waits for a callback running elsewhere | each callback at most once, unlink returns after it |
| Event loop and retirement (`event_loop.cpp`, `event_loop_state.h`) | leases pending, sealed, finalized | run, stop, lease, seal, finalize | hooks, idle callbacks | seal only after batch and queue | finalized once, no lease afterwards |
| Runtime, group, stop chain (`worker_runtime.cpp`, `worker_group.cpp`, `worker_stop_chain.cpp`) | thread, joining and stop-dispatch flags, chain | start with rollback, stop, join | queue, hooks, event loop | join against a stop dispatch that runs user hooks | no deadlock, every worker joined |
| One-shot, signal, cancellation (`one_shot.h`, `worker_signal.h`, `worker_cancellation.h`) | a value or a flag and a wait slot | set, wait, cancel | wait slot | as the channel | resumed once |
| Lease scheduler (`pool_lease_scheduler.cpp`) | busy slots, waiters | acquire, release with hand-off, close | database, Redis and HTTP client pools | hand-off against timeout | a slot has at most one lease, none is lost |
| Task scope (`task_scope.cpp`), scoped operation | active count, joiner, retiring guard, first failure, lazy stop source | `spawn`, `join`, `request_stop`, `token`, completion, destruction | tasks, allocators, stop callbacks | user code calls the scope back from inside `spawn` and `finish` | a join waits for admissions and retirements, nothing returns to a dead scope, no failure vanishes |
| Memory pool and caches | size-class lists per worker | allocate, release | all | release on another thread | no block in two lists |
| HTTP codecs, sessions, clients, rate limiter | per connection or per key | see the sources | core primitives | flow windows, pools, closing handshakes | protocol rules |

All the rows down to the task scope are modelled at least in part, except the
one-shot, signal and cancellation, and the scoped operations. The hazards of this
code, each at its line, are in `PROJECT.json`, with the properties that cover them.

## 2. Modules

| Module | Models | Role |
|---|---|---|
| `Chains` | linked node chains as sequences | shared operators |
| `WorkerQueue` | task queue | specification, properties, inductive invariant |
| `WorkerNotification` | latched wake, POSIX with eventfd | specification, properties, inductive invariant |
| `BlockingPool` | pool of threads | specification, properties, inductive invariant |
| `Channel` | channel and wait slot | specification, properties, inductive invariant |
| `ShutdownHooks` | registry and stopping batch | component of `EventLoop`, inductive invariant |
| `EventLoop` | attached event loop, retirement gate and stop chain, over `ShutdownHooks` | composition, properties, inductive invariant |
| `WorkerTimers` | timer heap of a worker | specification, properties, inductive invariant |
| `StopTokens` | stop states, registrations, groups | specification, properties, inductive invariant |
| `Leases` | what a lease scheduler promises | abstract specification |
| `PoolLease` | lease scheduler | specification, refinement of `Leases`, inductive invariant |
| `TaskScope` | scope of child tasks | specification, properties, inductive invariant |
| `WorkerGroup` | runtimes and their group | specification, properties, inductive invariant |
| `MCWorkerQueue`, `MCChannel`, `MCStopTokens`, `MCWorkerGroup` | reductions, symmetry, programs and sequences for TLC | instances |
| `ChainLemmas` | facts on chains and cardinalities | lemmas of all the proofs |
| `WorkerQueueProofs`, `BlockingPoolProofs`, `ChannelProofs`, `EventLoopProofs` (with the notification), `LeaseScopeProofs` (leases and task scopes), `WorkerGroupProofs`, `CancellationProofs` (timers and stop tokens) | | TLAPS proofs |

In every module one action is one critical section, one atomic access of
lock-free state, or one call into user code between two of them. A call that the
code splits over two critical sections is therefore at least two actions, with the
position of each thread in `pc` (or `at`, `spc`, `rpc`). Where calls nest, because
user code or another component is called in the middle of a function
(`StopTokens`, `WorkerGroup`, `TaskScope`), a thread is a stack of frames instead.
Variables are named after the members they stand for; those marked *history* exist
only for the properties. Definitions with an underscore suffix, such as
`DrainAgain_Never`, are plausible mistakes in the operation they are named after.
They are not used by any specification; replacing the operation by one of them
violates a property, which shows that the property constrains the code.

**WorkerQueue.** `Reserve`, then `Publish` or `PublishFails`, is `post`;
`FactoryThrows` is `post_factory` unwinding. A released node goes through
`ReleaseNode` (counted out, idle callbacks taken), `DestroyPayload`,
`RunCallbacks`, `NotifyPending`, in the order of `release_abandoned_node`.
`DrainBegin` splices the ready list into a batch; `RunTask` and `TaskThrows` run
it; `DrainFinish` returns the nodes and reschedules, and in `DrainFinishThrows`
the rescheduling `asio::post` fails. `AbandonQueued`, `AbandonDone` and
`FailedDrainIdle` unwind a failed batch; `HandlerThrows` and `HandleFailure` are a
foreign handler failing under `run_context`. Payloads are names. The free list is
a set because nodes on it are interchangeable; the ready list, whose order
matters, is a sequence.

**WorkerNotification.** `Enter`, `Latch`, `CheckClosed`, `Signal`, `Leave` are the
atomic accesses of `notify`. `WaitReady`, `Drain`, `Unlatch`, `BeginWait` are
`await_ready` and `await_suspend`; `CompleteWait` and its three outcomes are the
completion handler. `Readable` and `ReactorError` are Asio's reactor (external).
The atomics are acquire-release exchanges on single variables and the data is
published before `notify`, so interleaving is the right semantics for them.

**BlockingPool.** `Reserve`, `Publish` or `Drop`, `ReturnReservation` are `submit`;
`Take`, `Run`, `Retire` the thread loop; `StopFirst`, `StopNotify`, `DrainPop`,
`DrainDestroy`, `DrainEnd`, `DrainNotify` are `stop`; `Elect`, `JoinThreads`,
`Mark`, `Settle` are `join`; `NestedJoin` a callable's destructor that joins;
`Destroy` and `Detach` the destructor. The condition variable is a wait set:
`notify_one` wakes any one sleeper, thread or joiner, and `SpuriousWakeup` wakes
one for no reason.

**Channel.** `Reserve`, `FillThrows`, `Publish`, `Reject` are `send`.
`ReceiveBuffered`, `ReceiveWait`, `Suspend` and its refusals, `Register`,
`TakeResult`, `Unwind` are a receive. `TimerCompleted`, `StopCallback`, `Close`,
`WorkerStopping` and `Publish` are the five ways a wait ends. Timers, stop tokens
and the worker's run queue appear as what a wait sees of them.

**ShutdownHooks and EventLoop.** `RegisterTest` and `RegisterLink` are the two
halves of a registration; `Release` and `Unlink` the end of an owner; `WalkFirst`,
`Callback`, `WalkNext`, `DropPin`, `Finish`, `NotifyWaiters` the batch. `EventLoop`
extends that module and conjoins its actions with its own: the loop's hook is one
of the hooks, a stop registration is another, and the two callbacks `stop()` leaves
for the end of the batch (`Chain`, `Gate`) are its waiters. `Stop`, `StopRoots`,
`StopGate`, `RequestChainStop`, `CloseWorker`, `AwaitBatchChain`, `AwaitBatchGate`
are `stop()`, on the worker, on another thread, or inside the batch of a worker
that fails (`NotifyLoop`). `CallbackFinish`, `AwaitIdle`, `Seal` are the two nested
callbacks that seal the gate; `Take` and `FinishCount` the gate itself; `ApplyStop`
and `FinalizeChain` the stop chain's control and finalizer; `CloseAdmission`,
`CountPending`, `Abandon`, `DetachDestroyed` the destruction of the `io_context`
under the loop. A post is admitted and published in one step here; `WorkerQueue`
has the two. `aborted` records the `std::terminate` calls the code makes.

**WorkerTimers.** `Schedule` and its three failures are `schedule_timer`; `Cancel`
and `CancelAndNotify` run on the worker, `CancelElsewhere`, `TokenCancelElsewhere`
and `PostCancellation` on another thread, which touches only the slot's atomic
generation. `Hold` and `ReleaseHeld` are the worker's read of that word and its
release of the slot, two steps because the other thread's compare-exchange fits
between. `BeginRound`, `Fire`, `CallbackReturns`, `EndRound` are `fire_timers`;
`BeginSweep` and `Sweep` are `stop_timers`. The heap is the set of its entries,
which deadline and sequence order totally. `NoteStale`, `PopStale` and `Arm` are
pruning, compaction and arming.

**StopTokens.** A thread is a stack of calls. `RequestStop`, `Invoke`, `RunReturns`
run the list with the mutex released around each callback; `Reset`, `Unlink`,
`Wake`, `Clear` are `reset` with its wait for a callback that runs elsewhere;
`Register`, `Check`, `Claim`, `Link`, `Undo`, `Settle`, `RunHereReturns` the phases
of `register_callback`; `RetireSource` the source's destructor. A callback is user
code with a set of calls it may make. `MCStopTokens` gives the programs: a
`stop_group` of two parents whose registrations forward to a child state, a user of
the child whose callback may destroy the group, a further callback on the second
parent that may reset the user's and be reset by it, and threads that stop both
parents, build the group and drop half of it. `Embraced` says that a thread waits, in
its reset, for threads that wait for one another.

**Leases and PoolLease.** `Leases` says that a slot has one owner at a time, that
ownership passes from a free slot or from the owner that gives it back, and that an
acquire is decided once. `PoolLease` is the scheduler: `AcquireNow`, `AcquireQueue`,
`AcquireZero`, `AcquireTimerThrows`, `Suspend` are an acquire; `Release` hands the
slot to the first waiter at once and `Resume` runs it later; `Expire`,
`StopOnWorker`, `StopElsewhere`, `CallbackPosts`, `RunPosted`, `Close` and
`TimersStop` end waits. The mapping counts a slot as owned from the hand-off on
(`Owner`, `Decided`), not from the turn in which its owner runs.

**TaskScope.** Everything is on one worker; the difficulty is that the scope calls
user code in the middle of its functions. `Spawn` stops at the allocation of the
node, `Allocated` and `AllocationThrows` return from it, `SpawnFails` is the end of
a spawn that found a join started or no memory. `Completes`, `Finish`,
`StopReturns`, `Retire`, `Retired` are the end of a child, with its stop callbacks
and with the destructors that run under the retiring guard. `ResumeJoinIfIdle`
resumes the joiner inline. `Spawn`, `Join`, `RequestStop`, `Token` and `Destroy`
may be called in any frame. A retirement frame with `destroyed` is the guard the
destructor marked.

**WorkerGroup.** A thread is a stack of frames: stopping a member calls the group,
which stops every member, from inside whatever call the thread was already in. The
lifecycle thread starts the group, lets it serve, joins and destroys it; each
member's owner thread launches, runs and retires its runtime; one other thread
stops the group, or stops, fails or joins a member. The dispatcher and the chain
under a runtime are what the runtime sees of them: admission, one batch of hooks
(which may stop the group again) and a work guard. The loops over the members
(`Continue`) go on in the step that ends the call before, since nothing lies between.

The modules meet at the worker: `begin_stopping` closes admission in
`WorkerQueue`, starts the batch of `ShutdownHooks` (which `EventLoop` composes
with the gate and the chain), and that batch is the `WorkerStopping` of `Channel`
and the hook batch of `WorkerGroup`.

## 3. Runs

| Run | Instance | Distinct states | Checks |
|---|---|---|---|
| `queue` | 2 clients, capacity 2, 4 nodes, 4 tasks, 1 idle callback, 1 foreign failure | 411,000 | `QueueInv`, the inductive invariant; `DrainNeverLost`; `WaitersServed`, parked callbacks have work to wait for and nothing is reserved when the wait returns; `RunInOrder`; `NoStartAfterAbandon`; `QueueProgress`, tasks resolved, idle callbacks called, the reservation wait returns |
| `queue_destruction` | 2 clients, capacity 2, 2 tasks | (violation) | the finding below |
| `notification` | 2 producers, channel of 1 token, 4 notifications, 1 error | 24,532 | `NoLostWake`, `LatchInv` (inductive), `NotifySeen`, `CloseResumes` |
| `pool` | 2 threads, 2 callers, capacity 1, 3 nodes, 3 callables | 238,000 | `PoolInv` (inductive), a node free for each admission, none lost, ring and count agree, each callable counted once, one drainer, one joiner; `JoinLeavesQuiet`; `CallableResolved`; `JoinReturns` |
| `channel_safety` | 2 senders, 2 receivers, capacity 2, 3 slots, 2 values, 2 waits | 980,142 (symmetry) | `ChannelInv` (inductive), slots conserved, waiter unserved, resumed once, a stop detaches, cancelled only by its own stop, nothing after retirement; `DeliveredInOrder` |
| `channel_live` | 1 sender, 1 receiver, capacity 1, 2 values, 2 waits | 176,326 | `WaitEnds`, a wait with a reason to end ends |
| `event_loop` | the loop's hook and one stop registration, 1 root, 1 cleanup job | 165,645 | `HookInv` (inductive), no hook missed, pinned hook linked, registry empty once detached; `GateInv` (inductive with `HookInv` and `TerminatesOnlyOnPending`), the count is what is outstanding, one control at a time, every draining post gets its cleanup lease; `TerminatesOnlyOnPending`; `PhasesInOrder`; `Retires` |
| `timers` | 2 registrations, 3 schedules, clock 0..1, 2 cancellations, 2 failures, compaction at 1 | 880,000 | `HeapExact`, stale count exact, live timers in the heap, armed wait covers them; `RoundFiresAllDue`; `CancelledWhenAsked`; `TimerEnds` |
| `stop_token` | 3 threads, 2 parents and a child state, 4 registrations | 241,983 | `CallbackInv`, no dead node touched, at most one call per registration; `ResetIsFinal`; `RegisteredIsCalled` and `CallsReturn`, unless callbacks reset one another in a cycle |
| `pool_lease` | 4 acquires, 2 slots | 427,000 | `LeaseInv` (inductive), no waiter beside a free slot, slots conserved; `Implements`, the refinement of `Leases`; `WaitEnds` |
| `task_scope` | 3 children, 2 failures | 27,866 | `ScopeInv` (inductive), a join waits for all, nothing returns to a destroyed scope, tokens agree with the stop flag, every failure rethrown or reported; `JoinResumes` |
| `worker_group` | 2 members, lifecycle thread, 1 other thread, 1 failure, 1 disturbance | 812,350 | `RetireInv`, no call outlives the group, `join` is a barrier; `PhaseVerdict`; `NoFailureVanishes`; `StopHasClosed`; `CallsReturn` |

Four more configurations are kept beside the runs.

- `WorkerTimersCancel.cfg` and `StopTokensCycle.cfg` are for the observations in
  section 4.
- `WorkerGroupTwoStops.cfg` checks `CallsReturn` of `MCWorkerGroup` with two
  disturbances and no failures (1,142,200 states, under three minutes on four cores).
  Only there does a shutdown hook repeat the group's stop while another thread
  dispatches it.
- `WorkerGroupInductive.cfg` checks `GroupInv`, the inductive invariant of the
  `WorkerGroup` proofs, on the instance of `worker_group` (`tlc -config
  WorkerGroupInductive.cfg MCWorkerGroup`); it is apart to keep the run with the
  liveness property short.

**Bounds.** Callables, values, idle callbacks, hooks, acquires and children are used
at most once each, so the sets bound the number of operations. Two clients at
capacity two with four nodes is the smallest instance in which a batch is out while
the queue fills again and a failing task has both a run prefix and a remainder.
One blocking slot with three nodes makes every other submit meet a full pool while
two callables run. A channel of one token is full at the first signal. Two waits of
the same slot, by two coroutines, are enough for a cancellation to be stale. Three
schedules over two registrations reuse a slot while an old entry is still in the
heap; the compaction threshold, 64 in the code, is a constant so that compaction
happens at this size. Two slots and four acquires give a queue of two behind two
holders, so that a hand-off, an expiry and a cancellation compete. In `WorkerGroup`
one disturbance (a call of the other thread, an exception, or a hook that stops the
group again) happens at any point of the group's life (two in
`WorkerGroupTwoStops.cfg`, any number in the proofs); every pair of threads still
interleaves freely, as each disturbance spreads to all members. In `TaskScope` three
children let one be admitted, one run and one retire at once. `MaxErrors`,
`MaxFailures`, `MaxNotes`, `MaxWaits`, `MaxSchedules`, `MaxTime`, `MaxCancels` and
`MaxEvents` are conjuncts of guards and named constants.

**Deadlock** checking is off: each system may legitimately stop, when everything is
closed and joined or when nobody calls it any more. That something still owed
is left undone is what the liveness properties exclude.

**Symmetry** is used in `channel_safety` only, over sets the specification treats
alike. In `queue`, where liveness is checked too, `MCWorkerQueue` takes
interchangeable tasks and nodes in a fixed order by an action constraint: every
step that is cut has a twin that is not.

**Fairness.** A thread inside a call goes on (weak fairness of its steps), because
no step waits for anything but a mutex whose critical sections are finite, and user
code called by the runtime is assumed to return. Nobody is obliged to begin a call:
posting, submitting, stopping, joining, closing, releasing, registering and
destroying carry no fairness.

- A queued drain is fair only while the context is attached, since a detached
  context may be destroyed with its handlers.
- In `Channel`, running a posted resume and firing a due deadline have strong
  fairness: the worker's thread is repeatedly taken by other coroutines and Asio's
  queue is first in, first out.
- In `EventLoop` the batch's steps have strong fairness, as registrations can hold
  the registry's mutex repeatedly; root tasks and stop callbacks end.
- In `WorkerTimers` the clock advances to its bound, in `PoolLease` armed deadlines
  expire, unless the timers are stopped.
- `WorkerGroup` needs only that some thread runs while one can: no call of it loops.
- In `TaskScope` a child that is resumed again and again completes.
- That the owner of a notification waits again after each result is an assumption
  on its client, the loop of `tests/core/worker_notification.cpp:150`; `NotifySeen`
  depends on it.

## 4. Findings

`queue_destruction`: the comment at `worker_dispatcher.cpp:173-175` says payload
destruction "must run unlocked before idle callbacks". The code counts the node
out and takes the callbacks first (`:183-184`) and destroys the payload after the
unlock (`:186`). Within one thread the order is as the comment says. With two
threads releasing, the second can call the idle callbacks while the first has not
yet destroyed its payload. The event loop seals its retirement gate in such a
callback (`event_loop.cpp:366-368`).

A second disagreement, with its own configuration (`tlc -config
WorkerTimersCancel.cfg WorkerTimers` refutes `CancelIsSilent`): `worker_timer.h:191-193`
says that `cancel()` "Removes the registration without delivering its completion" and
that destruction does the same, and `:213-214` that destruction "never queues a
callback referencing the destroyed owner". On a thread other than the worker,
`cancel()` claims the slot's generation by compare-exchange and returns
(`worker_timers.cpp:47-52`). `fire_timers()` loads that word at `:384`, releases the
slot at `:385` and calls the completion at `:387`. When the load comes before the
claim and the call after it, the timer is delivered as expired to an owner whose
cancellation has returned. On the worker's own thread the text holds.

A deadlock that no text of the repository rules out: `unlink()` does not wait for a
run on its own thread, but it knows only the requester of its own state
(`stop_token.cpp:93`). When callback a of one state resets the registration of b on
another, while b on a second thread resets the registration of a, each waits at
`stop_token.cpp:97-103` for a run that cannot end. `stop_token.h:77-78` says that
unlinking a running callback waits for it, and not that callbacks must not reset each
other. `tlc -config StopTokensCycle.cfg MCStopTokens` refutes `NoCycle`; `CallsReturn`
and `RegisteredIsCalled` therefore except a cycle of resets and nothing else, so that
a wait for one's own run, or one whose epoch notification is lost, would violate them.
Destroying a `stop_group` from a callback it forwards to makes no cycle by itself: the
forwarding of its other parent finds the child's stop requested and returns.

A callable whose destructor joins the pool may do so inside the drain of `stop()`,
which `join` recognises by `stop_drain_thread_` (`blocking_pool.cpp:250`). One that
`submit` refuses at its second look is destroyed at `blocking_pool.cpp:359` with its
reservation still counted, and a join there would wait for that reservation; the model
has the join in the drain only.

Two behaviours that are as documented or undocumented, and worth knowing: `reset()`
of a stop registration, called while `register_callback` runs the callback
synchronously on another thread, returns without waiting for it; and an `io_context`
destroyed while the loop has work pending ends the process (`event_loop.cpp:282`),
which `TerminatesOnlyOnPending` shows to be the only way it ends.

## 5. Proofs

TLC checks the invariants on the instances of section 3; the theorems state them
for every value of the constants that satisfies the ASSUME of the module. The
assumptions are what the code has:

- queue: a positive capacity, twice as many nodes, `None` and `Worker` distinct
  from tasks and clients;
- notification: a channel that holds at least one token;
- pool: a positive capacity, finitely many threads, one node for each queue place
  and each thread;
- channel: a positive capacity, one slot more than the capacity, finitely many
  senders, statuses that are not slots;
- hooks and event loop: finitely many hooks, roots and cleanup jobs, and names by
  which the handlers in the loop's queue can be told apart;
- leases: finitely many acquires and slots, refusals that are not slots;
- task scope: finitely many children;
- group: a list that names every runtime once, a lifecycle thread and another thread
  that are no owner threads, results that are not failures.

Clients, tasks, idle callbacks, producers, callers, callables, receivers, values
and waiters are arbitrary sets, infinite ones included. The bounds that exist only
for TLC (`MaxNotes`, `MaxErrors`, `MaxWaits`, `MaxFailures`) are arbitrary
numbers.

The argument is the same in every module. The property of interest is not
inductive, because it depends on where each thread or coroutine is and on what it
holds there. The invariant named in the run (for the group, the one in
`WorkerGroupInductive.cfg`) is the strengthening: types, the
property, and the relations that make it inductive, each a named conjunct in the
component's module, so that TLC checks on the instance what the proof uses. One
lemma per action (or per group of actions that touch the same state) shows that
the conjuncts are kept; steps that leave a conjunct's variables alone are settled
once by a lemma (`QuietLists`, `KeptSlots`, `SameShut` and so on).

| Theorem | Module | States |
|---|---|---|
| `QueueInvariant`, `QueueTypes`, `AdmissionFindsNode`, `NoNodeLost`, `PendingStaysBounded`, `NoDrainLost`, `DrainHasWork`, `TasksRunInOrder`, `NobodyLeftWaiting`, `NothingStartsAbandoned` | `WorkerQueueProofs` | `QueueInv`, and from it `DrainNeverLost`, `RunInOrder`, `WaitersServed`, `NoStartAfterAbandon` and facts on admission |
| `NotifyInvariant`, `NoWakeLost`, `ReceiverRetires` | `EventLoopProofs` | `LatchInv`, `NoLostWake` |
| `PoolInvariant`, `JoinQuiet` | `BlockingPoolProofs` | `PoolInv`, `JoinLeavesQuiet` |
| `ChannelInvariant`, `OrderInvariant` | `ChannelProofs` | `ChannelInv`, `DeliveredInOrder` |
| `HookInvariant`, `LoopHooks`, `LoopPhases`, `GateInvariant`, `OnlyPendingTerminates` | `EventLoopProofs` | `HookInv`, `PhasesInOrder`, `GateInv`, `TerminatesOnlyOnPending` |
| `LeaseInvariant`, `LeasesRefined` | `LeaseScopeProofs` | `LeaseInv`, `Implements` |
| `ScopeInvariant`, `JoinWaits`, `DeadScopeUntouched`, `NoFailureDropped` | `LeaseScopeProofs` | `ScopeInv` and its parts |
| `TimersInvariant`, `RoundComplete`, `CancellationsAsked` | `CancellationProofs` | `HeapExact`, `RoundFiresAllDue`, `CancelledWhenAsked` |
| `StopTokenInvariant`, `ResetReturnsFinal` | `CancellationProofs` | `CallbackInv`, `ResetIsFinal` |
| `GroupInvariant`, `GroupRetires`, `VerdictsTrue`, `FailuresAccounted`, `StopsClose` | `WorkerGroupProofs` | `GroupInv`, and from it `RetireInv`, `PhaseVerdict`, `NoFailureVanishes`, `StopHasClosed` |

**WorkerQueueProofs.** That a node is free when admission passes depends on the
exact number of nodes elsewhere, hence on no node being in two lists, hence on what
each thread can hold at each position. `QueueInv` is `TypeOK`; `NodesConserved`
(`Positions`, what a thread may hold where it is; `Ownership`, lists disjoint and
duplicate-free; `NoLeak`; `Counts`, `|free| + pending + active = 2 * Capacity`);
`Payloads`; `Stopping`; `DrainState`, the flag, the queued handler and the batch
agree. The step is split by conjunct and within each by action, over cardinality
lemmas for the list operations. `AdmissionFindsNode` is then arithmetic. Order adds
`InLine`, the published tasks are those run, those in the batch and those ready, in
that sequence, until the queue is abandoned, and `OneFate`, a task is in one node,
with one thread about to destroy it, run or destroyed. `Waiting` says who still has
to notice a parked callback.

**The notification** (at the end of `EventLoopProofs`, which uses nothing of it).
`LatchInv` says that a set latch always has a wake (a
token, a producer yet to write one, or a worker between its drain and its exchange);
that unseen data has the latch, a token, a producer on its way or a worker about to
look; and that the handler, the receiver and the closed bit agree with the
coroutine's position.

**BlockingPoolProofs.** `PoolInv` adds to the promised facts where every node is
(`OneHolder`, `NoNodeLost`), that `reserved_` and `running_` count the nodes callers
and threads hold (`CountsAgree`), which nodes hold a callable (`CallablesHeld`), and
where actors, the drain and the joins are (`ActorsAgree`, `DrainAgrees`,
`JoinAgrees`). If no node were free, the nodes would be those of the ring, of the
callers and of the threads: fewer than `Capacity + |Threads|` when `submit` admits.
`CountedOnce` needs only that no step but a submission adds to the callables in use.
`JoinQuiet` reads the quiet pool off the invariant at the last wait of `join`:
`joined` means all threads have exited, no drainer means an empty ring, no
reservation means that no caller holds a node, so all nodes are free.

**ChannelProofs.** `ChannelInv` is proved in two halves. The slots: one owner each,
none lost, full exactly when buffered. The waits: `ReceivesAgree` and
`GenerationsAgree` relate the awaiter's position to its phase, its result, its
registrations and its generation; without them nothing excludes that a late stop
callback finds its generation reused, or that a value goes to a wait that has ended.
`OrderInvariant` carries along that the buffer is the tail of what was published.

**EventLoopProofs.** The registry is proved on `ShutdownHooks` alone. What makes
`NoHookMissed` inductive is `WalkHeard`, stated on positions in the list: whatever
stands before the pin and lives has heard the phase, whatever stands behind it has
not. `LoopIsHookStep` shows that every step of the loop is a step of the registry or
leaves it alone, so `HookInv` and `PhasesInOrder` hold in the loop for free. The gate
follows over it: `GateCounts` (the count is what is outstanding) needs `StopAgrees`
(where `stop()` is, against the batch it runs, waits for or is called in), since
`stop()` holds the gate from one thread and lets go of it from another; that a late
cleanup is let in needs `PostsDrained` (the gate is sealed over a drained queue);
that nothing is deferred to a detached context needs `GateShut`; that the stop
control is queued once needs `HandlersAgree`.

**LeaseScopeProofs, leases.** `LeaseInv` says that a slot is on the stack, busy for one
acquire or handed to one, and that a waiter is queued exactly while it is undecided.
`LeasesRefined` maps a slot to its owner from the hand-off on and shows each action
to be a step of `Leases` or a stutter.

**LeaseScopeProofs, task scopes.** `ScopeInv` describes the stack: each frame is for a child at the
stage that frame expects, a frame under a retirement knows whether the scope is
dead. Pushing and popping keep the agreement whatever was called in between, which
is why the depth of nested calls needs no bound.

**CancellationProofs, timers.** That the stale count is exact is not inductive alone:
a release adds one to it because the slot it frees had one live entry in the heap, so
`HeapExact` also says that an occupied slot has exactly one entry unless it was
counted already or has just been popped (`LiveTimerInHeap`, `EntriesExact`), that the
free list and the occupied slots are the two halves of the slots, and that a slot is
active only for its occupant (`SlotsExact`). Pruning and compacting change the count
by a whole set at once; `FromFirstLive` drops only dead entries, so the count falls
by the cardinality of what was dropped (`ArmedCoversHeap` then follows, since the new
front is live). `RoundFiresAllDue` needs `BehindRound`: what a completion schedules
is clamped to the round's time, so a front that is not due, or is of a later
sequence, hides nothing that was due before. `CancelledWhenAsked` needs
`RemovalsAsked`, the removals queued, not yet posted and running included: each names
a generation, and a slot's generation only grows.

**CancellationProofs, stop tokens.** `StackShape` says which frames may stand below
which, so that a step changes the top frame and at most the user frame under it.
`OneCallEach` is the key: at most one `request_stop` runs a state's callbacks, one
`reset` retires a registration and one `register` constructs it, across all threads
and all depths; each follows from a flag or phase that the first call took. With it
`CallsExact` (what a call in progress has taken or constructed) survives the steps of
all other calls, and `NodesAlive` follows: only the one `reset` of a registration
destroys its node, and it has first unlinked it and outwaited a run on another
thread. The programs of threads and callbacks are arbitrary sets of calls, so nesting
has no bound. `ResetIsFinal` reads the state at the return of `Clear` and at
`reset_pending`.

**WorkerGroupProofs.** The members, the failures, the events and the depth of the
calls are arbitrary; TLC has two members and one event. `GroupInv` is, besides the
types, six parts.

- `CallsNest`: the stack discipline. A frame is `Sound` (what it relies on whoever
  called it: a runtime past its stop, a failure it carries, admission closed), and of
  two neighbours `Above(f, g)` says that control may come back to the caller already
  (`Ready(f)`: the members behind its loop are closed, or joined) or that the callee
  sees to it (`Owes(f, g)`: the stop of the very member the loop has reached). It also
  says who may call the group at all (`Callers`). `Bottom` is what each thread's
  outermost call may be.
- `OneWinner`: one thread at a time has won a runtime's stop and not finished it, one
  runs its hooks.
- `NotificationsCounted`: a runtime's count is the number of frames, on all threads,
  that call the group on its behalf.
- `LifecycleAgrees`, `RuntimesAgree`, `GroupAgrees`: where start, serve, join and the
  destructor are, against the phases, stops and joins of the runtimes and against the
  cause of the group's stop.

The proof first settles what replacing the top frame by none, one or two does to a
stack, whatever is below (`Turn` and the lemmas on it; `Onward` lists the facts no
step takes back, so that the frames below stay sound), and how the sets of winners,
hook runs and notifications move with it. After that each action is one lemma, on its
own frame only. `GroupOutlivesCalls` is then read off the invariant: a call of the
group stands on a notification, which the destructor has waited for; on a hook, whose
runtime is joined, so that its batch is over; or on a call of the lifecycle thread or
of the other thread itself, which ended before. `PhaseVerdict` and
`NoFailureVanishes` are carried beside `GroupInv`: most steps leave the books of
verdicts and failures alone or only add to them, and the few that do not (`Record`,
`SettlePhase`, `Verdict`, `ReportRest`) have a lemma each. `StopHasClosed` is shown
along the way, since a returning call must have closed for its caller to be `Ready`.

**Only model-checked.** Every liveness property: liveness under fairness, and
ENABLED, are beyond the installed backends. Every invariant, every property
of a step and the refinement that the passing runs check are theorems.
Where order in a list matters, the proofs use a least index (`ChainFirst`), which
well-founded induction gives; what a recursive definition computes is not proved
anywhere, and no module proved about has one.

## 6. What is not modelled

- The Win32 path of the notification, which reads a named pipe instead of polling.
- Memory orders weaker than interleaving. Mutex-protected state does not need them;
  the notification's, the timers' and the stop registrations' accesses are
  acquire-release on the variables concerned.
- Failed construction: thread creation failing in the pool, allocation of nodes.
- What user code does inside callbacks, except where the source expects it (a
  destructor joining the pool from its drain, a task throwing, a move throwing, stop callbacks that
  reset registrations, hooks that stop the group, every call into a task scope).
  Elsewhere reentrant calls are steps of another thread: no callback runs under a
  mutex.
- `EventLoop`: the loop that owns its runtime (its stop is the group's) and
  `event_loop_pool`, an array of loops.
- `WorkerGroup`: the `failure_` hook and a custom `stop_admission_` (the event
  loop's is in `EventLoop`); hooks that join; a runtime destroyed without a group;
  the logic errors of `join()`, which no modelled caller can meet. The other
  thread's direct calls of the group end before the group is destroyed, which is the
  caller's contract.
- `PoolLease`: an acquire destroyed while it waits. The wait of
  `cancel_registrations()` for a running stop callback is a guard, as `StopTokens`
  shows that it ends.
- `TaskScope`: a context run again from inside a handler, which would nest
  retirements; calls outside the contract, which terminate the process.
- One-shot, signal, cancellation and scoped operations (planned, below).
- The rest of the repository, by far its larger part: HTTP, HTTP/2, HTTP/3 and
  WebSocket codecs, query builders, routing, model binding and database drivers.
  They are sequential transformations of bytes and text, on one worker, or wrappers
  of external libraries (nghttp2, QUIC, TLS, database clients). A model of them
  would have to reproduce their data, which TLC cannot enumerate usefully; their
  concurrency is that of the core primitives they use. The share of the
  repository's lines that is modelled is small for that reason.

## 7. Plan

1. `SingleWait`: the abstract promise of a wait slot (one outcome, one resume).
   `Channel` shown to implement it; then one-shot, signal and cancellation.
   `BoundedQueue`: the abstract promise of a task queue, implemented by
   `WorkerQueue`.
2. Scoped operations, next to `TaskScope`.
3. The event loop that owns its runtime, composing `EventLoop` and `WorkerGroup`;
   the database, Redis and HTTP client pools over `PoolLease`.
4. Rate limiter arithmetic against a reference definition; HTTP/2 stream leases and
   flow windows; WebSocket closing; the memory pool's return path.

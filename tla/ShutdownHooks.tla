---------------------------- MODULE ShutdownHooks ----------------------------
(***************************************************************************)
(* The shutdown hooks of a worker (ruvia-core/src/worker_dispatcher.cpp,   *)
(* include/ruvia/core/detail/worker/worker_dispatcher.h).                  *)
(*                                                                         *)
(* A state bound to a worker links a hook into its registry and unlinks it *)
(* when its last owner dies, on any thread.  The first thread that stops   *)
(* the worker walks the registry twice: every hook hears stopping_ before  *)
(* any hears stopping_complete_.  The walk pins one owner at a time and    *)
(* calls it without the registry's mutex.                                  *)
(*                                                                         *)
(* accepting_ changes under the admission mutex and is read under          *)
(* hooks_mutex_: registration is therefore two steps here, its test and    *)
(* its link, with hooks_mutex_ held between them.                          *)
(***************************************************************************)
EXTENDS Naturals, Sequences, FiniteSets, Chains

CONSTANTS
    Hooks,    \* hooks, each the member of one owner
    Waiters,  \* callbacks of when_shutdown_notifications_complete()
    None

ASSUME HooksAssumption == IsFiniteSet(Hooks) /\ None \notin Hooks

Phases == {"stopping", "stopping_complete"}

VARIABLES
    accepting, attached,   \* accepting_, context_attached_
    active,                \* shutdown_notification_active_
    parked,                \* shutdown_notification_waiters_
    taken,                 \* waiters notify_stopping() took and has not called yet
    hooks,                 \* hooks_head_..hooks_tail_
    mutex,                 \* the hook whose registration holds hooks_mutex_
    life,                  \* an owner: not made, alive, weak_ptr expired, destroyed
    owned,                 \* owners somebody outside the walk still references
    stage,                 \* where the stopping batch is
    pin, told,             \* the owner the walk has pinned; whether it was called
    unpin,                 \* the owner whose pin is about to be dropped
    detaching,             \* detach_context() has still to unlink the hooks
    heard,                 \* history: phases each hook was offered
    called                 \* history: waiters called

registry == <<hooks, mutex, life, owned>>
batch == <<stage, pin, told, unpin>>
vars == <<accepting, attached, active, parked, taken, registry, batch, detaching, heard, called>>

TypeOK ==
    /\ accepting \in BOOLEAN /\ attached \in BOOLEAN /\ active \in BOOLEAN
    /\ parked \in Seq(Waiters) /\ taken \in Seq(Waiters) /\ called \subseteq Waiters
    /\ hooks \in Seq(Hooks) /\ Distinct(hooks)
    /\ mutex \in Hooks \cup {None}
    /\ life \in [Hooks -> {"none", "live", "expired", "gone"}]
    /\ owned \subseteq Hooks
    /\ stage \in {"none", "stopping", "stopping_complete", "finish", "notify", "done"}
    /\ pin \in Hooks \cup {None} /\ unpin \in Hooks \cup {None} /\ told \in BOOLEAN
    /\ detaching \in BOOLEAN
    /\ heard \in [Hooks -> SUBSET Phases]

\* A worker with some hooks linked already.
InitLinked(linked) ==
    /\ accepting = TRUE /\ attached = TRUE /\ active = FALSE
    /\ parked = << >> /\ taken = << >> /\ called = {}
    /\ hooks = linked /\ mutex = None
    /\ life = [h \in Hooks |-> IF h \in Elems(linked) THEN "live" ELSE "none"]
    /\ owned = Elems(linked)
    /\ stage = "none" /\ pin = None /\ unpin = None /\ told = FALSE
    /\ detaching = FALSE
    /\ heard = [h \in Hooks |-> {}]

Init == InitLinked(<< >>)

-----------------------------------------------------------------------------
(* Owners                                                                   *)

\* make_worker_bound_state(): the owner exists, register_shutdown_hook() has
\* the mutex and reads accepting_.  A refused registration throws and the
\* owner dies unlinked, which changes nothing here.
RegisterTest(h) ==
    /\ life[h] = "none" /\ mutex = None /\ accepting
    /\ mutex' = h /\ life' = [life EXCEPT ![h] = "live"] /\ owned' = owned \cup {h}
    /\ UNCHANGED <<accepting, attached, active, parked, taken, hooks, batch, detaching, heard, called>>

RegisterLink(h) ==
    /\ mutex = h
    /\ hooks' = Append(hooks, h) /\ mutex' = None
    /\ UNCHANGED <<accepting, attached, active, parked, taken, life, owned, batch, detaching, heard,
                   called>>

Release_IgnoresPin(h) ==
    /\ h \in owned /\ mutex # h
    /\ owned' = owned \ {h}
    /\ life' = [life EXCEPT ![h] = "expired"]
    /\ UNCHANGED <<accepting, attached, active, parked, taken, hooks, mutex, batch, detaching, heard,
                   called>>

\* The last reference outside the walk goes; a pin keeps the owner alive.
Release(h) ==
    /\ h \in owned /\ mutex # h
    /\ owned' = owned \ {h}
    /\ life' = IF h \in {pin, unpin} THEN life ELSE [life EXCEPT ![h] = "expired"]
    /\ UNCHANGED <<accepting, attached, active, parked, taken, hooks, mutex, batch, detaching, heard,
                   called>>

\* ~worker_shutdown_hook(): unlink_shutdown_hook(), the last thing the
\* owner's destructor does.
Unlink(h) ==
    /\ life[h] = "expired" /\ mutex = None
    /\ hooks' = Without(hooks, h)
    /\ life' = [life EXCEPT ![h] = "gone"]
    /\ UNCHANGED <<accepting, attached, active, parked, taken, mutex, owned, batch, detaching, heard,
                   called>>

-----------------------------------------------------------------------------
(* notify_stopping()                                                        *)

\* begin_stopping_locked(): the first stop opens the batch, later ones find
\* accepting_ cleared.
BeginStopping ==
    /\ accepting /\ accepting' = FALSE
    /\ active' = TRUE /\ stage' = "stopping"
    /\ UNCHANGED <<attached, parked, taken, registry, pin, told, unpin, detaching, heard, called>>

\* first_live() over a part of the registry: the first owner that can be pinned.
FirstLive(s) ==
    IF \E i \in 1..Len(s) : life[s[i]] = "live"
      THEN s[CHOOSE i \in 1..Len(s) :
                /\ life[s[i]] = "live"
                /\ \A j \in 1..(i - 1) : life[s[j]] # "live"]
      ELSE None

\* The hooks behind h; none when h is not linked.
Behind(h) ==
    LET after == {i \in 1..Len(hooks) : \E j \in 1..(i - 1) : hooks[j] = h}
    IN  SubSeq(hooks, Len(hooks) + 1 - Cardinality(after), Len(hooks))

NextStage == IF stage = "stopping" THEN "stopping_complete" ELSE "finish"

\* The walk of a phase begins: the head of the registry.
WalkFirst ==
    /\ stage \in Phases /\ pin = None /\ unpin = None /\ ~told /\ mutex = None
    /\ pin' = FirstLive(hooks)
    /\ stage' = IF pin' = None THEN NextStage ELSE stage
    /\ UNCHANGED <<accepting, attached, active, parked, taken, registry, told, unpin, detaching,
                   heard, called>>

Callback_BothPhases ==
    /\ stage \in Phases /\ pin # None /\ unpin = None /\ ~told
    /\ heard' = [heard EXCEPT ![pin] = Phases]
    /\ told' = TRUE
    /\ UNCHANGED <<accepting, attached, active, parked, taken, registry, stage, pin, unpin, detaching,
                   called>>

\* The phase's callback runs without the mutex.
Callback ==
    /\ stage \in Phases /\ pin # None /\ unpin = None /\ ~told
    /\ heard' = [heard EXCEPT ![pin] = @ \cup {stage}]
    /\ told' = TRUE
    /\ UNCHANGED <<accepting, attached, active, parked, taken, registry, stage, pin, unpin, detaching,
                   called>>

\* Pin the next owner before the pin of this one is dropped.
WalkNext ==
    /\ stage \in Phases /\ told /\ mutex = None
    /\ pin' = FirstLive(Behind(pin)) /\ unpin' = pin /\ told' = FALSE
    /\ UNCHANGED <<accepting, attached, active, parked, taken, registry, stage, detaching, heard, called>>

\* The dropped pin may have been the last reference.
DropPin ==
    /\ unpin # None
    /\ life' = IF unpin \in owned THEN life ELSE [life EXCEPT ![unpin] = "expired"]
    /\ unpin' = None
    /\ stage' = IF pin = None THEN NextStage ELSE stage
    /\ UNCHANGED <<accepting, attached, active, parked, taken, hooks, mutex, owned, pin, told,
                   detaching, heard, called>>

\* The batch is over: take the callbacks that wait for it.
Finish ==
    /\ stage = "finish"
    /\ active' = FALSE /\ taken' = parked /\ parked' = << >>
    /\ stage' = "notify"
    /\ UNCHANGED <<accepting, attached, registry, pin, told, unpin, detaching, heard, called>>

\* notify_waiters()
NotifyWaiters ==
    /\ stage = "notify"
    /\ \/ taken # << >> /\ taken' = Tail(taken) /\ called' = called \cup {Head(taken)} /\ UNCHANGED stage
       \/ taken = << >> /\ stage' = "done" /\ UNCHANGED <<taken, called>>
    /\ UNCHANGED <<accepting, attached, active, parked, registry, pin, told, unpin, detaching, heard>>

\* when_shutdown_notifications_complete(): park while a batch is active, call
\* at once otherwise.
WhenComplete(w) ==
    /\ w \notin Elems(parked) \cup Elems(taken) \cup called
    /\ IF active
         THEN parked' = Append(parked, w) /\ UNCHANGED called
         ELSE called' = called \cup {w} /\ UNCHANGED parked
    /\ UNCHANGED <<accepting, attached, active, taken, registry, batch, detaching, heard>>

-----------------------------------------------------------------------------
(* detach_context(): admission closes under one mutex, the hooks are        *)
(* unlinked under the other.                                                *)

DetachFlags ==
    /\ attached /\ attached' = FALSE
    /\ accepting' = FALSE /\ detaching' = TRUE
    /\ UNCHANGED <<active, parked, taken, registry, batch, heard, called>>

DetachHooks ==
    /\ detaching /\ mutex = None
    /\ hooks' = << >> /\ detaching' = FALSE
    /\ UNCHANGED <<accepting, attached, active, parked, taken, mutex, life, owned, batch, heard, called>>

BatchStep == WalkFirst \/ Callback \/ WalkNext \/ DropPin \/ Finish \/ NotifyWaiters

Next ==
    \/ \E h \in Hooks : RegisterTest(h) \/ RegisterLink(h) \/ Release(h) \/ Unlink(h)
    \/ BeginStopping \/ BatchStep
    \/ \E w \in Waiters : WhenComplete(w)
    \/ DetachFlags \/ DetachHooks

Spec == Init /\ [][Next]_vars

-----------------------------------------------------------------------------
(* Properties.                                                              *)

\* A linked owner that is alive and not about to be unlinked by a detach.
Listening == {h \in Elems(hooks) : life[h] = "live"}

\* The claim at worker_dispatcher.cpp:215: a registration that saw accepting_
\* is linked before the batch walks.  Once the batch is over every live linked
\* hook has heard both phases, whoever registered or died meanwhile.
NoHookMissed ==
    stage \in {"finish", "notify", "done"} /\ attached => \A h \in Listening : heard[h] = Phases

\* Two phases: no hook hears stopping_complete_ while a live one has still to
\* hear stopping_, and no hook hears a phase twice.
PhasesInOrder ==
    [][\A h \in Hooks :
        /\ pin = h /\ told' /\ ~told => stage \notin heard[h]
        /\ "stopping_complete" \in heard'[h] \ heard[h] /\ attached =>
              \A g \in Listening : "stopping" \in heard[g]]_vars

\* The walk never touches a dead hook: a pinned owner is alive, and its hook
\* is linked while the registry is, so its next_ may be followed.
PinnedIsLinked ==
    pin # None => life[pin] = "live" /\ (attached \/ detaching => pin \in Elems(hooks))

\* After the hooks of a detached worker are unlinked no hook is linked again,
\* so none points into the destroyed registry.
NothingLinkedOnceDetached == ~attached /\ ~detaching => hooks = << >>

\* A registration holds the registry only before the walk has looked at it: it
\* saw accepting_, and the walk waits for its mutex.
Registering ==
    /\ accepting => attached /\ stage = "none"
    /\ detaching => ~attached
    /\ \A h \in Elems(hooks) : life[h] # "none"
    /\ mutex # None =>
          /\ life[mutex] = "live" /\ mutex \notin Elems(hooks)
          /\ attached \/ detaching
          /\ stage = "none" \/ (stage = "stopping" /\ pin = None /\ unpin = None)

\* Where the walk is: told only about its pin, never at two owners at once.
WalkAt ==
    /\ stage \notin Phases => pin = None /\ unpin = None
    /\ told => pin # None /\ unpin = None
    /\ unpin # None => pin # unpin
    /\ pin # None => (told <=> stage \in heard[pin])

\* What the walk has behind it has heard the phase, if it is still alive; what
\* is before it has not.
Heard(phase) == \A h \in Listening : phase \in heard[h]

WalkHeard ==
    /\ \A h \in Hooks :
          /\ stage = "none" => heard[h] = {}
          /\ stage = "stopping" => "stopping_complete" \notin heard[h]
          /\ stage \in Phases /\ pin = None /\ unpin = None => stage \notin heard[h]
    /\ \A i, j \in 1..Len(hooks) : pin = hooks[i] =>
          /\ j < i /\ life[hooks[j]] = "live" => stage \in heard[hooks[j]]
          /\ i < j => stage \notin heard[hooks[j]]
    /\ stage \in Phases /\ pin = None /\ unpin # None => Heard(stage)
    /\ stage \notin {"none", "stopping"} => Heard("stopping")
    /\ stage \notin {"none", "stopping", "stopping_complete"} => Heard("stopping_complete")

\* A waiter is parked, taken or called once, and parked only for a batch.
WaitersOnce ==
    /\ active <=> stage \in Phases \cup {"finish"}
    /\ parked # << >> => active
    /\ Distinct(parked) /\ Distinct(taken)
    /\ Elems(parked) \cap Elems(taken) = {}
    /\ (Elems(parked) \cup Elems(taken)) \cap called = {}

\* The walk and the registry agree: nobody is skipped, nothing dead is pinned,
\* nothing is linked to a registry that is gone.
HookInv ==
    /\ TypeOK /\ NoHookMissed /\ PinnedIsLinked /\ NothingLinkedOnceDetached
    /\ Registering /\ WalkAt /\ WalkHeard /\ WaitersOnce
=============================================================================

----------------------------- MODULE StopTokens -----------------------------
(***************************************************************************)
(* Stop sources, tokens, registrations and groups                          *)
(* (ruvia-core/src/stop_token.cpp, include/ruvia/core/stop_token.h).       *)
(*                                                                         *)
(* A stop state keeps an intrusive list of callbacks under a mutex.  The   *)
(* thread that requests the stop runs them one at a time with the mutex    *)
(* released; a thread that unlinks the running one waits on an epoch until *)
(* its run is over, unless it is the requester itself.  A callback is user *)
(* code: it may reset registrations, its own included, and request another *)
(* state's stop, which is how stop_group forwards its parents.             *)
(*                                                                         *)
(* A thread is its stack of calls.  The bottom frame and the frames of     *)
(* running callbacks are user code with a set of calls they may still      *)
(* make; one step is a critical section, or one access to an atomic.       *)
(***************************************************************************)
EXTENDS Chains

CONSTANTS
    Threads, States, Registrations,
    StateOf,    \* the state whose token a registration is registered with
    Program,    \* the calls each thread may make, once each and in any order
    Callback,   \* the calls a registration's callback may make
    Null

\* The calls of user code.
UserCalls == [op : {"request", "retire"}, arg : States] \cup [op : {"reset", "register"}, arg : Registrations]

ASSUME StopAssumption ==
    /\ StateOf \in [Registrations -> States]
    /\ Program \in [Threads -> SUBSET UserCalls] /\ Callback \in [Registrations -> SUBSET UserCalls]
    /\ Null \notin Registrations \cup Threads

VARIABLES
    source, requested,   \* flags_
    list,                \* head_ and the nodes behind it
    running, requester,  \* running_, requester_
    awaited, epoch,      \* run_awaited_, run_epoch_
    phase,               \* phase_ of a registration
    node,                \* callback_ of a registration is constructed
    callback,            \* callback_state_: none, armed, or already taken
    stack,               \* each thread's calls
    uses, calls          \* history: registrations that may be called, calls begun

state == <<source, requested, list, running, requester, awaited, epoch>>
registration == <<phase, node, callback>>
stopVars == <<state, registration, stack, uses, calls>>

Frame(op, arg, at) == [op |-> op, arg |-> arg, at |-> at, todo |-> {}, epoch |-> 0]
Main(t) == [Frame("main", Null, "user") EXCEPT !.todo = Program[t]]

Frames == [op : {"main", "request", "reset", "register"}, arg : States \cup Registrations \cup {Null},
           at : {"user", "invoke", "unlink", "wait", "clear", "check", "claim", "link", "undo", "settle"},
           todo : SUBSET UserCalls, epoch : Nat]

StopTypeOK ==
    /\ source \in [States -> BOOLEAN] /\ requested \in [States -> BOOLEAN]
    /\ awaited \in [States -> BOOLEAN] /\ epoch \in [States -> Nat]
    /\ list \in [States -> Seq(Registrations)]
    /\ running \in [States -> Registrations \cup {Null}] /\ requester \in [States -> Threads \cup {Null}]
    /\ phase \in [Registrations -> {"idle", "registering", "reset_pending", "registered", "resetting"}]
    /\ node \in [Registrations -> BOOLEAN] /\ callback \in [Registrations -> {"none", "armed", "taken"}]
    /\ stack \in [Threads -> Seq(Frames)]
    /\ uses \in [Registrations -> Nat] /\ calls \in [Registrations -> Nat]

StopInit ==
    /\ source = [s \in States |-> TRUE] /\ requested = [s \in States |-> FALSE]
    /\ list = [s \in States |-> << >>]
    /\ running = [s \in States |-> Null] /\ requester = [s \in States |-> Null]
    /\ awaited = [s \in States |-> FALSE] /\ epoch = [s \in States |-> 0]
    /\ phase = [r \in Registrations |-> "idle"] /\ node = [r \in Registrations |-> FALSE]
    /\ callback = [r \in Registrations |-> "none"]
    /\ stack = [t \in Threads |-> <<Main(t)>>]
    /\ uses = [r \in Registrations |-> 0] /\ calls = [r \in Registrations |-> 0]

-----------------------------------------------------------------------------
(* Frames                                                                   *)

Top(t) == stack[t][Len(stack[t])]
Below(t) == SubSeq(stack[t], 1, Len(stack[t]) - 1)
At(t, op, at) == Top(t).op = op /\ Top(t).at = at
Return(t) == stack' = [stack EXCEPT ![t] = Below(t)]
Become(t, f) == stack' = [stack EXCEPT ![t] = Append(Below(t), f)]
GoTo(t, at) == Become(t, [Top(t) EXCEPT !.at = at])

\* The stack of a user frame that has made call c.
Made(t, c) == Append(Below(t), [Top(t) EXCEPT !.todo = @ \ {c}])

\* User code on t makes call c ...
Calls(t, c, op) == Top(t).at = "user" /\ c \in Top(t).todo /\ c.op = op

\* ... which pushes the frames fs.
Push(t, c, fs) == stack' = [stack EXCEPT ![t] = Made(t, c) \o fs]

\* The frame of r's callback, run by the call op.
UserFrame(op, arg, r) == [Frame(op, arg, "user") EXCEPT !.todo = Callback[r]]

\* A callback returns; one that forwards a stop has forwarded it.
MayReturn(t) == Top(t).at = "user" /\ \A c \in Top(t).todo : c.op # "request"

-----------------------------------------------------------------------------
(* stop_state::request_stop()                                               *)

\* Take the next callback of s off the list, to be run unlocked.
PopNext(s) ==
    IF list[s] = << >>
      THEN running' = [running EXCEPT ![s] = Null] /\ UNCHANGED list
      ELSE running' = [running EXCEPT ![s] = Head(list[s])] /\ list' = [list EXCEPT ![s] = Tail(@)]

RequestStop(t, c) ==
    /\ Calls(t, c, "request")
    /\ LET s == c.arg
       IN  IF requested[s] THEN Push(t, c, << >>) /\ UNCHANGED state
           ELSE /\ Push(t, c, IF list[s] = << >> THEN << >> ELSE <<Frame("request", s, "invoke")>>)
                /\ requested' = [requested EXCEPT ![s] = TRUE]
                /\ requester' = [requester EXCEPT ![s] = t]
                /\ PopNext(s)
                /\ UNCHANGED <<source, awaited, epoch>>
    /\ UNCHANGED <<registration, uses, calls>>

\* node->callback_->invoke(): the callback is moved out of the registration.
Invoke(t) ==
    /\ At(t, "request", "invoke")
    /\ LET r == running[Top(t).arg]
       IN  IF callback[r] = "armed"
             THEN /\ Become(t, UserFrame("request", Top(t).arg, r))
                  /\ callback' = [callback EXCEPT ![r] = "taken"]
                  /\ calls' = [calls EXCEPT ![r] = @ + 1]
             ELSE GoTo(t, "user") /\ UNCHANGED <<callback, calls>>
    /\ UNCHANGED <<state, phase, node, uses>>

EndRun_NoEpoch(s) == UNCHANGED <<awaited, epoch>>

\* Whoever waits for the run that ended is released.
EndRun(s) ==
    IF awaited[s]
      THEN awaited' = [awaited EXCEPT ![s] = FALSE] /\ epoch' = [epoch EXCEPT ![s] = @ + 1]
      ELSE UNCHANGED <<awaited, epoch>>

\* Back under the mutex: the run is over, take the next one or return.
RunReturns(t) ==
    /\ Top(t).op = "request" /\ MayReturn(t)
    /\ LET s == Top(t).arg
       IN  /\ EndRun(s) /\ PopNext(s)
           /\ IF list[s] = << >> THEN Return(t)
              ELSE Become(t, Frame("request", s, "invoke"))
    /\ UNCHANGED <<source, requested, requester, registration, uses, calls>>

\* ~stop_source(): retire_source().
RetireSource(t, c) ==
    /\ Calls(t, c, "retire") /\ Push(t, c, << >>)
    /\ source' = [source EXCEPT ![c.arg] = FALSE]
    /\ UNCHANGED <<requested, list, running, requester, awaited, epoch, registration, uses, calls>>

-----------------------------------------------------------------------------
(* stop_registration::reset()                                               *)

\* The load and compare-exchange loop: what a phase makes of a reset.
ResetPhase(r) ==
    CASE phase[r] = "registering" -> "reset_pending"
      [] phase[r] = "registered" -> "resetting"
      [] OTHER -> phase[r]

Reset(t, c) ==
    /\ Calls(t, c, "reset")
    /\ Push(t, c, IF phase[c.arg] = "registered" THEN <<Frame("reset", c.arg, "unlink")>> ELSE << >>)
    /\ phase' = [phase EXCEPT ![c.arg] = ResetPhase(c.arg)]
    /\ UNCHANGED <<state, node, callback, uses, calls>>

\* r's callback runs on another thread.
MustWait(t, r) == running[StateOf[r]] = r /\ requester[StateOf[r]] # t

\* ~stop_callback_node(): unlink(), and its wait for a run on another thread.
Unlink(t) ==
    /\ At(t, "reset", "unlink")
    /\ LET r == Top(t).arg
           s == StateOf[r]
       IN  /\ list' = [list EXCEPT ![s] = Without(@, r)]
           /\ IF MustWait(t, r)
                THEN /\ awaited' = [awaited EXCEPT ![s] = TRUE]
                     /\ Become(t, [Top(t) EXCEPT !.at = "wait", !.epoch = epoch[s]])
                ELSE GoTo(t, "clear") /\ UNCHANGED awaited
    /\ UNCHANGED <<source, requested, running, requester, epoch, registration, uses, calls>>

\* run_epoch_.wait() returns: look again under the mutex.
Wake(t) ==
    /\ At(t, "reset", "wait") /\ epoch[StateOf[Top(t).arg]] # Top(t).epoch
    /\ GoTo(t, "unlink")
    /\ UNCHANGED <<state, registration, uses, calls>>

\* The rest of clear_registration() and the store of idle.
Clear(t) ==
    /\ At(t, "reset", "clear") /\ Return(t)
    /\ LET r == Top(t).arg
       IN  /\ node' = [node EXCEPT ![r] = FALSE] /\ callback' = [callback EXCEPT ![r] = "none"]
           /\ phase' = [phase EXCEPT ![r] = "idle"]
    /\ UNCHANGED <<state, uses, calls>>

-----------------------------------------------------------------------------
(* stop_token::register_callback()                                          *)

\* An earlier registration is reset first.  The caller does not register one
\* object on two threads, nor while another thread resets it.
Register(t, c) ==
    /\ Calls(t, c, "register")
    /\ LET r == c.arg
       IN  /\ phase[r] \in {"idle", "registered"}
           /\ \A u \in Threads : \A i \in 1..Len(stack[u]) :
                 ~(stack[u][i].op = "register" /\ stack[u][i].arg = r)
           /\ Push(t, c, <<Frame("register", r, "check")>>
                         \o (IF phase[r] = "registered" THEN <<Frame("reset", r, "unlink")>> ELSE << >>))
           /\ phase' = [phase EXCEPT ![r] = ResetPhase(r)]
    /\ UNCHANGED <<state, node, callback, uses, calls>>

\* Run the callback inside the registration.
RunHere(t, r) ==
    /\ Become(t, UserFrame("register", r, r))
    /\ calls' = [calls EXCEPT ![r] = @ + 1]

\* Nothing can stop any more, the stop came first, or the registration begins.
Check(t) ==
    /\ At(t, "register", "check")
    /\ LET r == Top(t).arg
           s == StateOf[r]
       IN  IF requested[s] THEN RunHere(t, r) /\ uses' = [uses EXCEPT ![r] = @ + 1]
           ELSE /\ IF source[s] THEN GoTo(t, "claim") ELSE Return(t)
                /\ UNCHANGED <<uses, calls>>
    /\ UNCHANGED <<state, registration>>

\* The phase is claimed and the callback state and its node are constructed.
Claim(t) ==
    /\ At(t, "register", "claim") /\ GoTo(t, "link")
    /\ LET r == Top(t).arg
       IN  /\ phase' = [phase EXCEPT ![r] = "registering"]
           /\ node' = [node EXCEPT ![r] = TRUE] /\ callback' = [callback EXCEPT ![r] = "armed"]
           /\ uses' = [uses EXCEPT ![r] = @ + 1]
    /\ UNCHANGED <<state, calls>>

Linkable_AnyTime(r) == phase[r] = "registering"

Linkable(r) == ~requested[StateOf[r]] /\ phase[r] = "registering"

Link_FallsThrough(t) ==
    /\ At(t, "register", "link") /\ GoTo(t, "undo")
    /\ LET r == Top(t).arg
       IN  IF Linkable(r)
             THEN /\ phase' = [phase EXCEPT ![r] = "registered"]
                  /\ list' = [list EXCEPT ![StateOf[r]] = <<r>> \o @]
             ELSE UNCHANGED <<phase, list>>
    /\ UNCHANGED <<source, requested, running, requester, awaited, epoch, node, callback, uses, calls>>

\* stop_state::link()
Link(t) ==
    /\ At(t, "register", "link")
    /\ LET r == Top(t).arg
       IN  IF Linkable(r)
             THEN /\ phase' = [phase EXCEPT ![r] = "registered"]
                  /\ list' = [list EXCEPT ![StateOf[r]] = <<r>> \o @]
                  /\ Return(t)
             ELSE GoTo(t, "undo") /\ UNCHANGED <<phase, list>>
    /\ UNCHANGED <<source, requested, running, requester, awaited, epoch, node, callback, uses, calls>>

\* Not linked: the node and the callback state are destroyed.
Undo(t) ==
    /\ At(t, "register", "undo") /\ GoTo(t, "settle")
    /\ node' = [node EXCEPT ![Top(t).arg] = FALSE]
    /\ callback' = [callback EXCEPT ![Top(t).arg] = "none"]
    /\ UNCHANGED <<state, phase, uses, calls>>

Settle_IgnoresReset(t) ==
    /\ At(t, "register", "settle")
    /\ phase' = [phase EXCEPT ![Top(t).arg] = "idle"]
    /\ RunHere(t, Top(t).arg)
    /\ UNCHANGED <<state, node, callback, uses>>

\* phase_.exchange(): the stop came first, so the callback runs here, unless a
\* reset came before it.
Settle(t) ==
    /\ At(t, "register", "settle")
    /\ phase' = [phase EXCEPT ![Top(t).arg] = "idle"]
    /\ IF phase[Top(t).arg] = "reset_pending" THEN Return(t) /\ UNCHANGED calls
                                              ELSE RunHere(t, Top(t).arg)
    /\ UNCHANGED <<state, node, callback, uses>>

RunHereReturns(t) ==
    /\ Top(t).op = "register" /\ MayReturn(t) /\ Return(t)
    /\ UNCHANGED <<state, registration, uses, calls>>

-----------------------------------------------------------------------------
Resume(t) ==
    \/ Invoke(t) \/ RunReturns(t) \/ Unlink(t) \/ Wake(t) \/ Clear(t)
    \/ Check(t) \/ Claim(t) \/ Link(t) \/ Undo(t) \/ Settle(t) \/ RunHereReturns(t)

\* A callback that forwards a stop does so.
Forward(t) == \E c \in Top(t).todo : Top(t).op # "main" /\ RequestStop(t, c)

StopNext ==
    \E t \in Threads :
        \/ Invoke(t) \/ RunReturns(t) \/ Unlink(t) \/ Wake(t) \/ Clear(t)
        \/ Check(t) \/ Claim(t) \/ Link(t) \/ Undo(t) \/ Settle(t) \/ RunHereReturns(t)
        \/ \E c \in Top(t).todo :
              RequestStop(t, c) \/ RetireSource(t, c) \/ Reset(t, c) \/ Register(t, c)

StopSpec == StopInit /\ [][StopNext]_stopVars

(* A thread inside a call goes on, and callbacks return.  No thread has to  *)
(* make a call.                                                             *)
StopFairness == \A t \in Threads : WF_stopVars(Resume(t) \/ Forward(t))

StopLiveSpec == StopSpec /\ StopFairness

-----------------------------------------------------------------------------
(* Properties                                                               *)

\* Calls nest: the bottom frame and those of running callbacks are user code,
\* the call made last is on top; a register() may stand below its own reset().
StackShape ==
    \A t \in Threads :
        /\ stack[t] # << >>
        /\ \A i \in 1..Len(stack[t]) :
              LET f == stack[t][i]
              IN  /\ f.op = "main" <=> i = 1
                  /\ f.op = "main" => f.at = "user"
                  /\ f.op = "request" => f.arg \in States /\ f.at \in {"invoke", "user"}
                  /\ f.op = "reset" => f.arg \in Registrations /\ f.at \in {"unlink", "wait", "clear"}
                  /\ f.op = "register" =>
                        f.arg \in Registrations /\ f.at \in {"check", "claim", "link", "undo", "settle", "user"}
                  /\ i < Len(stack[t]) =>
                        \/ f.at = "user"
                        \/ /\ f.op = "register" /\ f.at = "check" /\ i + 1 = Len(stack[t])
                           /\ Top(t).op = "reset" /\ Top(t).arg = f.arg

\* One requester runs a state's callbacks, one thread registers a registration
\* and one retires it.
OneCallEach ==
    \A t, u \in Threads : \A i \in 1..Len(stack[t]), j \in 1..Len(stack[u]) :
        stack[t][i].op = stack[u][j].op /\ stack[t][i].op # "main" /\ stack[t][i].arg = stack[u][j].arg
            => t = u /\ i = j

\* r is constructed and registered with s.
Alive(r, s) ==
    StateOf[r] = s /\ node[r] /\ callback[r] # "none" /\ phase[r] \in {"registered", "resetting"}

\* request_stop() never touches a dead registration: linked nodes, and the one
\* that is about to be invoked, are constructed and registered with that state.
NodesAlive ==
    /\ \A s \in States : Distinct(list[s]) /\ \A r \in Elems(list[s]) : Alive(r, s)
    /\ \A s \in States : running[s] # Null => requested[s] /\ StateOf[running[s]] = s
    /\ \A t \in Threads : \A i \in 1..Len(stack[t]) :
          LET f == stack[t][i]
          IN  f.op = "request" => /\ running[f.arg] # Null /\ requester[f.arg] = t
                                  /\ f.at = "invoke" => Alive(running[f.arg], f.arg)

\* What a reset() in progress has taken: the phase, the node off the list, and,
\* past its wait, the run.
Resetting(t, f) ==
    /\ phase[f.arg] = "resetting"
    /\ f.at # "unlink" => f.arg \notin Elems(list[StateOf[f.arg]])
    /\ f.at = "clear" => ~MustWait(t, f.arg)

\* What a register() in progress has constructed.
Registering(f) ==
    /\ f.at = "check" => phase[f.arg] \in {"idle", "resetting"}
    /\ f.at \in {"claim", "user"} => phase[f.arg] = "idle"
    /\ f.at \in {"link", "undo", "settle"} => phase[f.arg] \in {"registering", "reset_pending"}
    /\ f.at \in {"claim", "link", "undo", "settle"} => running[StateOf[f.arg]] # f.arg
    /\ f.at \in {"link", "undo"} => node[f.arg] /\ callback[f.arg] = "armed"
    /\ f.at = "settle" => callback[f.arg] = "none" /\ calls[f.arg] < uses[f.arg]

CallsExact ==
    \A t \in Threads :
        /\ At(t, "register", "check") => phase[Top(t).arg] = "idle"
        /\ \A i \in 1..Len(stack[t]) :
              /\ stack[t][i].op = "reset" => Resetting(t, stack[t][i])
              /\ stack[t][i].op = "register" => Registering(stack[t][i])

\* A callback runs at most once for each time it was registered, whatever
\* combination of parents, resets and synchronous runs reaches it.
CalledOnce ==
    \A r \in Registrations :
        /\ calls[r] <= uses[r]
        /\ phase[r] = "registering" \/ callback[r] = "armed" => calls[r] < uses[r]

\* No request_stop() touches a dead registration or runs a callback again,
\* whichever threads register, reset and forward meanwhile.
CallbackInv == StopTypeOK /\ StackShape /\ OneCallEach /\ NodesAlive /\ CallsExact /\ CalledOnce

\* A reset is final.  One that retires a registration returns only when its
\* callback is not running on another thread; one that meets a registration
\* in progress keeps the callback from running for it.
ResetIsFinal ==
    [][/\ \A t \in Threads : At(t, "reset", "clear") /\ stack'[t] # stack[t] =>
            \A u \in Threads \ {t} : \A i \in 1..Len(stack[u]) :
                stack[u][i].op = "request" => running[stack[u][i].arg] # Top(t).arg
       /\ \A r \in Registrations : phase[r] = "reset_pending" =>
            calls'[r] = calls[r] /\ r \notin Elems(list'[StateOf[r]])]_stopVars

\* t waits in a reset() for a callback that u runs.
Awaits(t, u) ==
    /\ t # u /\ At(t, "reset", "wait")
    /\ LET s == StateOf[Top(t).arg] IN running[s] = Top(t).arg /\ requester[s] = u

\* t waits for threads that wait for one another: unlink() exempts only the
\* requester of its own state, so callbacks of two states that reset each
\* other's registrations from two threads never return.
Embraced(t) == \E D \in SUBSET Threads : t \in D /\ \A u \in D : \E v \in D : Awaits(u, v)

\* A registration that is linked when the stop is requested is called or reset,
\* unless its requester is in a cycle of resets.
RegisteredIsCalled ==
    \A r \in Registrations :
        (phase[r] = "registered" /\ requested[StateOf[r]] /\ callback[r] = "armed")
            ~> (callback[r] # "armed" \/ phase[r] # "registered" \/ Embraced(requester[StateOf[r]]))

\* Every call returns, unless callbacks reset one another in a cycle: no epoch
\* wait misses its wakeup or waits for its own thread, and forwarding between
\* states, or destroying a group from a callback it forwards to, ends.
CallsReturn == \A t \in Threads : []<>(Len(stack[t]) = 1 \/ Embraced(t))
=============================================================================

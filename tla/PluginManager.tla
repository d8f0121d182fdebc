--------------------------- MODULE PluginManager ---------------------------
(***************************************************************************)
(* The lifecycle of plugin managers and of the subscription gate that one  *)
(* Client keeps for each of them: jianer/plugins/manager.py (PluginManager)*)
(* and the owner bookkeeping of jianer/__init__.py (Client).               *)
(*                                                                         *)
(* A task is a thread or an asyncio task.  It runs user code when its pc   *)
(* is "idle", possibly inside a message handler, in which case it holds a  *)
(* dispatch lease or an owner callback; otherwise it is inside one of the  *)
(* operations below.  A section of code under _state_lock or               *)
(* _subscription_lock is one step; _transition_lock, which is held across  *)
(* several of these sections, is the variable tlock.                       *)
(***************************************************************************)
EXTENDS Integers, Sequences, FiniteSets

CONSTANTS
  Managers,      \* the PluginManager objects of the process
  Plugins,       \* plugin ids
  Tasks,         \* threads and asyncio tasks that call the API
  Handlers,      \* those of them that also run message handlers
  HasSetup,      \* plugins whose module defines setup()
  HasShutdown,   \* plugins whose module defines shutdown()
  LoadingSetup,  \* plugins whose setup() calls manager.load_plugin()
  Patient,       \* tasks that call shutdown(timeout=None)
  CleanupFails,  \* {FALSE}, or BOOLEAN when matcher, module or listener clean-up may fail
  MaxCallbacks,  \* bound: callbacks an owner may have counted at a time
  NoManager, NoTask

ASSUME PMAssumption ==
  /\ IsFiniteSet(Tasks)
  /\ HasSetup \subseteq Plugins /\ HasShutdown \subseteq Plugins
  /\ Handlers \subseteq Tasks
  /\ LoadingSetup \subseteq HasSetup /\ Patient \subseteq Tasks
  /\ MaxCallbacks \in Nat /\ CleanupFails \subseteq BOOLEAN
  /\ NoManager \notin Managers /\ NoTask \notin Tasks

VARIABLES
  state,         \* [Managers -> States]: PluginManager.state
  order,         \* dependency_order
  setup,         \* _setup_plugins
  shut,          \* _shutdown_plugins
  attached,      \* whether self.client is set
  inflight,      \* _inflight; _drained is set exactly when it is 0
  started,       \* _shutdown_started
  finished,      \* _shutdown_finished
  report,        \* _shutdown_report: "none", "complete" or "errors"
  tlock,         \* the task that holds _transition_lock, or NoTask
  subs,          \* plugins with a subscription owned by the manager
  enabled,       \* Client._owner_enabled (absent counts as False)
  ownerInflight, \* Client._owner_inflight (absent counts as 0)
  hooked,        \* history: plugins whose shutdown() was entered
  pc, mgr, todo, \* per task: position, manager, plugins left in the loop
  err,           \* per task: the call has collected, or returned, errors
  ret,           \* per task: where a shutdown() call returns to
  lease,         \* per task: manager whose dispatch lease its handler holds
  callback       \* per task: manager that owns the callback it runs

mgrVars  == <<state, order, setup, shut, attached>>
stopVars == <<inflight, started, finished, report, hooked>>
gateVars == <<subs, enabled, ownerInflight>>
callVars == <<mgr, todo, err, ret>>
workVars == <<lease, callback>>
vars == <<mgrVars, stopVars, gateVars, callVars, workVars, tlock, pc>>

States == {"created", "loaded", "staged", "active", "draining", "failed", "closed"}
Labels == {"idle", "begun", "activating", "staging", "enabling", "shutdown", "disabling",
           "draining", "ownerDraining", "hooks", "hook", "waiting", "raised"}
Disabling == {"disabling", "closingGate"}   \* closingGate: in aclose()
Worker == {"disabling", "draining", "ownerDraining", "hooks", "hook"}

Init ==
  /\ state = [m \in Managers |-> "created"]
  /\ order = [m \in Managers |-> <<>>]
  /\ setup = [m \in Managers |-> {}]
  /\ shut = [m \in Managers |-> {}]
  /\ attached = [m \in Managers |-> FALSE]
  /\ inflight = [m \in Managers |-> 0]
  /\ started = [m \in Managers |-> FALSE]
  /\ finished = [m \in Managers |-> FALSE]
  /\ report = [m \in Managers |-> "none"]
  /\ tlock = [m \in Managers |-> NoTask]
  /\ subs = [m \in Managers |-> {}]
  /\ enabled = [m \in Managers |-> FALSE]
  /\ ownerInflight = [m \in Managers |-> 0]
  /\ hooked = [m \in Managers |-> {}]
  /\ pc = [t \in Tasks |-> "idle"]
  /\ mgr = [t \in Tasks |-> NoManager]
  /\ todo = [t \in Tasks |-> {}]
  /\ err = [t \in Tasks |-> FALSE]
  /\ ret = [t \in Tasks |-> "idle"]
  /\ lease = [t \in Tasks |-> NoManager]
  /\ callback = [t \in Tasks |-> NoManager]

(***************************************************************************)
(* Helpers: the load order, the lock, and returning from a call.           *)
(***************************************************************************)
Loaded(m) == {order[m][i] : i \in 1 .. Len(order[m])}

\* p was loaded before q, so q may depend on p and never p on q.
Precedes(m, p, q) ==
  \E i, j \in 1 .. Len(order[m]) : i < j /\ order[m][i] = p /\ order[m][j] = q

Free(m) == tlock[m] = NoTask
Acquire(t, m) == tlock' = [tlock EXCEPT ![m] = t]
Release(m) == tlock' = [tlock EXCEPT ![m] = NoTask]
Goto(t, label) == pc' = [pc EXCEPT ![t] = label]
\* A call has a deadline, 30 s unless the caller asks for none.
NoDeadline(t) == FALSE
HasDeadline(t) == t \notin Patient \/ ret[t] # "idle"
Decrement(n) == IF n = 0 THEN 0 ELSE n - 1

\* The next plugin of a loop over dependency_order, and over its reverse.
FirstOf(m, p, S) == p \in S /\ \A q \in S \ {p} : Precedes(m, p, q)
LastOf(m, p, S) == p \in S /\ \A q \in S \ {p} : Precedes(m, q, p)

\* The call of t ends at label; a call made by user code forgets its locals.
Leave(t, label, e) ==
  /\ Goto(t, label)
  /\ todo' = [todo EXCEPT ![t] = {}]
  /\ mgr' = [mgr EXCEPT ![t] = IF label = "idle" THEN NoManager ELSE @]
  /\ err' = [err EXCEPT ![t] = label # "idle" /\ e]
  /\ ret' = [ret EXCEPT ![t] = "idle"]

(***************************************************************************)
(* Dispatch: a lease is granted only in the three states that serve.       *)
(***************************************************************************)
ServesUntilClosed(m) == state[m] # "closed"
Serves(m) == state[m] \in {"created", "loaded", "active"}

AcquireDispatch(t, m) ==
  /\ t \in Handlers /\ pc[t] = "idle" /\ lease[t] = NoManager
  /\ Serves(m)
  /\ inflight' = [inflight EXCEPT ![m] = @ + 1]
  /\ lease' = [lease EXCEPT ![t] = m]
  /\ UNCHANGED <<mgrVars, started, finished, report, hooked, gateVars, callVars, callback, tlock, pc>>

ReleaseDispatch(t) ==
  /\ pc[t] = "idle" /\ lease[t] # NoManager
  /\ inflight' = [inflight EXCEPT ![lease[t]] = Decrement(@)]
  /\ lease' = [lease EXCEPT ![t] = NoManager]
  /\ UNCHANGED <<mgrVars, started, finished, report, hooked, gateVars, callVars, callback, tlock, pc>>

(***************************************************************************)
(* The owner gate of the Client: subscriptions made in a plugin's scope    *)
(* are delivered only while their manager is enabled.                      *)
(***************************************************************************)
Subscribe(m, p) ==
  /\ attached[m] /\ p \in Loaded(m)
  /\ subs' = [subs EXCEPT ![m] = @ \union {p}]
  /\ UNCHANGED <<mgrVars, stopVars, enabled, ownerInflight, callVars, workVars, tlock, pc>>

Unsubscribe(m, p) ==
  /\ p \in subs[m]
  /\ subs' = [subs EXCEPT ![m] = @ \ {p}]
  /\ UNCHANGED <<mgrVars, stopVars, enabled, ownerInflight, callVars, workVars, tlock, pc>>

\* distributor(): the callback is counted, then a task is created for it.
BeginSubscription(t, m) ==
  /\ t \in Handlers /\ pc[t] = "idle" /\ lease[t] = NoManager /\ callback[t] = NoManager
  /\ subs[m] # {} /\ enabled[m] /\ ownerInflight[m] < MaxCallbacks
  /\ ownerInflight' = [ownerInflight EXCEPT ![m] = @ + 1]
  /\ callback' = [callback EXCEPT ![t] = m]
  /\ Goto(t, "begun")
  /\ UNCHANGED <<mgrVars, stopVars, subs, enabled, callVars, lease, tlock>>

StartCallback(t) ==
  /\ pc[t] = "begun"
  /\ Goto(t, "idle")
  /\ UNCHANGED <<mgrVars, stopVars, gateVars, callVars, workVars, tlock>>

\* A task cancelled before its first step never enters the try block whose
\* finally clause decrements the count.
CancelBegun(t) ==
  /\ pc[t] = "begun"
  /\ Goto(t, "idle")
  /\ callback' = [callback EXCEPT ![t] = NoManager]
  /\ UNCHANGED <<mgrVars, stopVars, gateVars, callVars, lease, tlock>>

EndSubscription(t) ==
  /\ pc[t] = "idle" /\ lease[t] = NoManager /\ callback[t] # NoManager
  /\ ownerInflight' = [ownerInflight EXCEPT ![callback[t]] = Decrement(@)]
  /\ callback' = [callback EXCEPT ![t] = NoManager]
  /\ UNCHANGED <<mgrVars, stopVars, subs, enabled, callVars, lease, tlock, pc>>

(***************************************************************************)
(* Loading.  A load holds the transition lock throughout, and only adds to *)
(* the manager, so that each plugin it loads is one step.                  *)
(***************************************************************************)
LoadAllowed(m) == state[m] \notin {"active", "draining", "failed", "closed"}

AfterLoad(m) == IF state[m] = "created" THEN "loaded" ELSE state[m]

AddPlugin(m, p) ==
  /\ Free(m) /\ LoadAllowed(m)
  /\ p \notin Loaded(m)
  /\ order' = [order EXCEPT ![m] = Append(@, p)]
  /\ setup' = [setup EXCEPT ![m] = @ \union ({p} \ HasSetup)]
  /\ state' = [state EXCEPT ![m] = AfterLoad(m)]
  /\ UNCHANGED <<shut, attached, stopVars, gateVars, callVars, workVars, tlock>>

\* load_plugins() on a folder that yields no new plugin.
AddNothing(m) ==
  /\ Free(m) /\ LoadAllowed(m)
  /\ state' = [state EXCEPT ![m] = AfterLoad(m)]
  /\ UNCHANGED <<order, setup, shut, attached, stopVars, gateVars, callVars, workVars, tlock>>

LoadPlugin(t, m, p) == pc[t] = "idle" /\ AddPlugin(m, p) /\ UNCHANGED pc
LoadNothing(t, m) == pc[t] = "idle" /\ AddNothing(m) /\ UNCHANGED pc

(***************************************************************************)
(* setup_client(client, activate) and activate(), under the transition     *)
(* lock from the first state check to the opening of the gate.             *)
(***************************************************************************)
SetupAllowed(m) == state[m] \notin {"draining", "failed", "closed"}

SetupBegins(t, m, mode) ==
  /\ Free(m) /\ SetupAllowed(m)
  /\ Acquire(t, m)
  /\ attached' = [attached EXCEPT ![m] = TRUE]
  /\ enabled' = [enabled EXCEPT ![m] = FALSE]
  /\ setup' = [setup EXCEPT ![m] = @ \union (Loaded(m) \ HasSetup)]
  /\ todo' = [todo EXCEPT ![t] = (Loaded(m) \intersect HasSetup) \ setup[m]]
  /\ mgr' = [mgr EXCEPT ![t] = m]
  /\ Goto(t, mode)
  /\ UNCHANGED <<state, order, shut, stopVars, subs, ownerInflight, err, ret, workVars>>

SetupClient(t, m, mode) == pc[t] = "idle" /\ SetupBegins(t, m, mode)

\* A setup hook returns, having made a subscription or not.
SetupHook(t, p) ==
  /\ pc[t] \in {"activating", "staging"}
  /\ FirstOf(mgr[t], p, todo[t])
  /\ setup' = [setup EXCEPT ![mgr[t]] = @ \union {p}]
  /\ todo' = [todo EXCEPT ![t] = @ \ {p}]
  /\ subs' \in {subs, [subs EXCEPT ![mgr[t]] = @ \union {p}]}
  /\ UNCHANGED <<state, order, shut, attached, stopVars, enabled, ownerInflight,
                 mgr, err, ret, workVars, tlock, pc>>

\* A setup hook that first loads plugin q through the manager it is given:
\* the lock is reentrant, and the loop iterates over a copy without q.
SetupHookLoads(t, p, q) ==
  /\ pc[t] \in {"activating", "staging"}
  /\ FirstOf(mgr[t], p, todo[t]) /\ p \in LoadingSetup
  /\ LoadAllowed(mgr[t]) /\ q \notin Loaded(mgr[t])
  /\ order' = [order EXCEPT ![mgr[t]] = Append(@, q)]
  /\ setup' = [setup EXCEPT ![mgr[t]] = @ \union {p} \union ({q} \ HasSetup)]
  /\ state' = [state EXCEPT ![mgr[t]] = AfterLoad(mgr[t])]
  /\ todo' = [todo EXCEPT ![t] = @ \ {p}]
  /\ UNCHANGED <<shut, attached, stopVars, gateVars, mgr, err, ret, workVars, tlock, pc>>

\* A setup hook raises: the manager fails and its subscriptions, with their
\* counters, are removed from the Client.
SetupFail(t) ==
  /\ pc[t] \in {"activating", "staging"} /\ todo[t] # {}
  /\ state' = [state EXCEPT ![mgr[t]] = "failed"]
  /\ enabled' = [enabled EXCEPT ![mgr[t]] = FALSE]
  /\ subs' = [subs EXCEPT ![mgr[t]] = {}]
  /\ ownerInflight' = [ownerInflight EXCEPT ![mgr[t]] = 0]
  /\ Release(mgr[t])
  /\ Leave(t, "idle", FALSE)
  /\ UNCHANGED <<order, setup, shut, attached, stopVars, workVars>>

SetupActivate(t) ==
  /\ pc[t] = "activating" /\ todo[t] = {}
  /\ state' = [state EXCEPT ![mgr[t]] = "active"]
  /\ Goto(t, "enabling")
  /\ UNCHANGED <<order, setup, shut, attached, stopVars, gateVars, callVars, workVars, tlock>>

SetupStage(t) ==
  /\ pc[t] = "staging" /\ todo[t] = {}
  /\ state' = [state EXCEPT ![mgr[t]] = IF @ = "active" THEN @ ELSE "staged"]
  /\ Release(mgr[t])
  /\ Leave(t, "idle", FALSE)
  /\ UNCHANGED <<order, setup, shut, attached, stopVars, gateVars, workVars>>

SetupComplete(m) == Loaded(m) \subseteq setup[m]

Activate(t, m) ==
  /\ pc[t] = "idle" /\ Free(m)
  /\ state[m] \in {"loaded", "staged"} /\ SetupComplete(m)
  /\ Acquire(t, m)
  /\ state' = [state EXCEPT ![m] = "active"]
  /\ mgr' = [mgr EXCEPT ![t] = m]
  /\ Goto(t, "enabling")
  /\ UNCHANGED <<order, setup, shut, attached, stopVars, gateVars, todo, err, ret, workVars>>

Enable(t) ==
  /\ pc[t] = "enabling"
  /\ enabled' = [enabled EXCEPT ![mgr[t]] = attached[mgr[t]]]
  /\ Release(mgr[t])
  /\ Leave(t, "idle", FALSE)
  /\ UNCHANGED <<mgrVars, stopVars, subs, ownerInflight, workVars>>

(***************************************************************************)
(* shutdown(timeout), called by user code or, at "shutdown", by aclose().  *)
(***************************************************************************)
CallsShutdown(t, m) ==
  /\ Free(m)
  /\ pc[t] = "idle" \/ (pc[t] = "shutdown" /\ mgr[t] = m)

\* Whether the caller becomes the worker (_shutdown_started, _shutdown_report).
Starts(m) == report[m] = "none" /\ ~started[m]

ShutdownReported(t, m) ==
  /\ CallsShutdown(t, m) /\ report[m] # "none"
  /\ Leave(t, ret[t], report[m] = "errors")
  /\ UNCHANGED <<mgrVars, stopVars, gateVars, workVars, tlock>>

ShutdownJoin(t, m) ==
  /\ CallsShutdown(t, m) /\ report[m] = "none" /\ ~Starts(m)
  /\ mgr' = [mgr EXCEPT ![t] = m]
  /\ Goto(t, "waiting")
  /\ UNCHANGED <<mgrVars, stopVars, gateVars, todo, err, ret, workVars, tlock>>

\* The single worker, up to the first half of _begin_draining().
ShutdownStart(t, m) ==
  /\ CallsShutdown(t, m) /\ Starts(m)
  /\ Acquire(t, m)
  /\ started' = [started EXCEPT ![m] = TRUE]
  /\ finished' = [finished EXCEPT ![m] = FALSE]
  /\ state' = [state EXCEPT ![m] = "draining"]
  /\ mgr' = [mgr EXCEPT ![t] = m]
  /\ err' = [err EXCEPT ![t] = FALSE]
  /\ Goto(t, "disabling")
  /\ UNCHANGED <<order, setup, shut, attached, inflight, report, hooked, gateVars, todo, ret, workVars>>

\* The second half: the gate closes, and the lock is released.
GateInDrain(m) == enabled[m] /\ ~attached[m]

Disable(t) ==
  /\ pc[t] = "disabling"
  /\ enabled' = [enabled EXCEPT ![mgr[t]] = GateInDrain(mgr[t])]
  /\ Release(mgr[t])
  /\ Goto(t, "draining")
  /\ UNCHANGED <<mgrVars, stopVars, subs, ownerInflight, callVars, workVars>>

Drained(t) ==
  /\ pc[t] = "draining" /\ inflight[mgr[t]] = 0
  /\ Goto(t, "ownerDraining")
  /\ UNCHANGED <<mgrVars, stopVars, gateVars, callVars, workVars, tlock>>

CallbacksIgnored(m) == TRUE
CallbacksDone(m) == attached[m] => ownerInflight[m] = 0

HooksLeft(m) == (Loaded(m) \intersect setup[m]) \ shut[m]

\* The loop over dependency_order starts when the owner's callbacks are done.
OwnerDrained(t) ==
  /\ pc[t] = "ownerDraining" /\ CallbacksDone(mgr[t])
  /\ todo' = [todo EXCEPT ![t] = HooksLeft(mgr[t])]
  /\ Goto(t, "hooks")
  /\ UNCHANGED <<mgrVars, stopVars, gateVars, mgr, err, ret, workVars, tlock>>

\* Neither wait is satisfied by the deadline: a report that is not final.
DrainTimeout(t) ==
  /\ HasDeadline(t)
  /\ \/ pc[t] = "draining" /\ inflight[mgr[t]] # 0
     \/ pc[t] = "ownerDraining" /\ ~CallbacksDone(mgr[t])
  /\ started' = [started EXCEPT ![mgr[t]] = FALSE]
  /\ finished' = [finished EXCEPT ![mgr[t]] = TRUE]
  /\ Leave(t, ret[t], TRUE)
  /\ UNCHANGED <<mgrVars, inflight, report, hooked, gateVars, workVars, tlock>>

SkipHook(t, p) ==
  /\ pc[t] = "hooks" /\ LastOf(mgr[t], p, todo[t]) /\ p \notin HasShutdown
  /\ shut' = [shut EXCEPT ![mgr[t]] = @ \union {p}]
  /\ todo' = [todo EXCEPT ![t] = @ \ {p}]
  /\ UNCHANGED <<state, order, setup, attached, stopVars, gateVars, mgr, err, ret, workVars, tlock, pc>>

EnterHook(t, p) ==
  /\ pc[t] = "hooks" /\ LastOf(mgr[t], p, todo[t]) /\ p \in HasShutdown
  /\ hooked' = [hooked EXCEPT ![mgr[t]] = @ \union {p}]
  /\ Goto(t, "hook")
  /\ UNCHANGED <<mgrVars, inflight, started, finished, report, gateVars, callVars, workVars, tlock>>

HookDone(t, p) ==
  /\ pc[t] = "hook" /\ LastOf(mgr[t], p, todo[t])
  /\ shut' = [shut EXCEPT ![mgr[t]] = @ \union {p}]
  /\ todo' = [todo EXCEPT ![t] = @ \ {p}]
  /\ Goto(t, "hooks")
  /\ UNCHANGED <<state, order, setup, attached, stopVars, gateVars, mgr, err, ret, workVars, tlock>>

\* The hook raises, or its share of the deadline runs out.
HookFails(t, p) ==
  /\ pc[t] = "hook" /\ LastOf(mgr[t], p, todo[t])
  /\ todo' = [todo EXCEPT ![t] = @ \ {p}]
  /\ err' = [err EXCEPT ![t] = TRUE]
  /\ Goto(t, "hooks")
  /\ UNCHANGED <<mgrVars, stopVars, gateVars, mgr, ret, workVars, tlock>>

\* Subscriptions, matchers and modules are removed (the last two may fail,
\* which is e), then the final report is published.
FinishShutdown(t, e) ==
  /\ pc[t] = "hooks" /\ todo[t] = {}
  /\ LET m == mgr[t] IN
     /\ subs' = IF attached[m] THEN [subs EXCEPT ![m] = {}] ELSE subs
     /\ enabled' = IF attached[m] THEN [enabled EXCEPT ![m] = FALSE] ELSE enabled
     /\ ownerInflight' = IF attached[m] THEN [ownerInflight EXCEPT ![m] = 0] ELSE ownerInflight
     /\ state' = [state EXCEPT ![m] = "closed"]
     /\ report' = [report EXCEPT ![m] = IF err[t] \/ e THEN "errors" ELSE "complete"]
     /\ finished' = [finished EXCEPT ![m] = TRUE]
  /\ Leave(t, ret[t], err[t] \/ e)
  /\ UNCHANGED <<order, setup, shut, attached, inflight, started, hooked, workVars, tlock>>

\* The task is cancelled at an await of the worker: _abort_shutdown().
CancelWorker(t) ==
  /\ pc[t] \in {"draining", "ownerDraining", "hook"}
  /\ started' = [started EXCEPT ![mgr[t]] = report[mgr[t]] # "none"]
  /\ finished' = [finished EXCEPT ![mgr[t]] = TRUE]
  /\ Leave(t, IF ret[t] = "idle" THEN "idle" ELSE "raised", TRUE)
  /\ UNCHANGED <<mgrVars, inflight, report, hooked, gateVars, workVars, tlock>>

\* A second caller of shutdown() wakes up, or its own timeout expires.
WaiterReturns(t) ==
  /\ pc[t] = "waiting"
  /\ finished[mgr[t]] \/ HasDeadline(t)
  /\ Leave(t, ret[t], report[mgr[t]] # "complete")
  /\ UNCHANGED <<mgrVars, stopVars, gateVars, workVars, tlock>>

CancelWaiter(t) ==
  /\ pc[t] = "waiting"
  /\ Leave(t, IF ret[t] = "idle" THEN "idle" ELSE "raised", TRUE)
  /\ UNCHANGED <<mgrVars, stopVars, gateVars, workVars, tlock>>

----------------------------------------------------------------------------
(* What user code may call, what a call in progress does next, and the     *)
(* events that no code decides.                                            *)

Call(t) ==
  \E m \in Managers :
    \/ AcquireDispatch(t, m) \/ BeginSubscription(t, m)
    \/ LoadNothing(t, m) \/ \E p \in Plugins : LoadPlugin(t, m, p)
    \/ \E mode \in {"activating", "staging"} : SetupClient(t, m, mode)
    \/ Activate(t, m)
    \/ ShutdownReported(t, m) \/ ShutdownJoin(t, m) \/ ShutdownStart(t, m)

Setup(t) ==
  \/ \E p \in Plugins : SetupHook(t, p) \/ \E q \in Plugins : SetupHookLoads(t, p, q)
  \/ SetupFail(t) \/ SetupActivate(t) \/ SetupStage(t) \/ Enable(t)

ShutdownSteps(t) ==
  \/ Disable(t) \/ Drained(t) \/ OwnerDrained(t) \/ DrainTimeout(t)
  \/ \E p \in Plugins : SkipHook(t, p) \/ EnterHook(t, p) \/ HookDone(t, p) \/ HookFails(t, p)
  \/ \E e \in CleanupFails : FinishShutdown(t, e)
  \/ WaiterReturns(t)

Proceed(t) == StartCallback(t) \/ Setup(t) \/ ShutdownSteps(t)
EndHandler(t) == ReleaseDispatch(t) \/ EndSubscription(t)
Cancel(t) == CancelBegun(t) \/ CancelWorker(t) \/ CancelWaiter(t)
Resubscribe == \E m \in Managers, p \in Plugins : Subscribe(m, p) \/ Unsubscribe(m, p)

ManagerNext ==
  \/ \E t \in Tasks : Call(t) \/ Proceed(t) \/ EndHandler(t) \/ Cancel(t)
  \/ Resubscribe

Spec == Init /\ [][ManagerNext]_vars

\* Hooks return and created tasks start; a handler may run for ever.
FairSpec == Spec /\ \A t \in Tasks : WF_vars(Proceed(t))

----------------------------------------------------------------------------
FieldsOK ==
  /\ state \in [Managers -> States]
  /\ order \in [Managers -> Seq(Plugins)]
  /\ setup \in [Managers -> SUBSET Plugins]
  /\ shut \in [Managers -> SUBSET Plugins]
  /\ attached \in [Managers -> BOOLEAN]
  /\ inflight \in [Managers -> Nat]
  /\ started \in [Managers -> BOOLEAN]
  /\ finished \in [Managers -> BOOLEAN]
  /\ report \in [Managers -> {"none", "complete", "errors"}]
  /\ tlock \in [Managers -> Tasks \union {NoTask}]
  /\ subs \in [Managers -> SUBSET Plugins]
  /\ enabled \in [Managers -> BOOLEAN]
  /\ ownerInflight \in [Managers -> Nat]
  /\ hooked \in [Managers -> SUBSET Plugins]
  /\ mgr \in [Tasks -> Managers \union {NoManager}]
  /\ todo \in [Tasks -> SUBSET Plugins]
  /\ err \in [Tasks -> BOOLEAN]
  /\ ret \in [Tasks -> {"idle", "closing"}]
  /\ lease \in [Tasks -> Managers \union {NoManager}]
  /\ callback \in [Tasks -> Managers \union {NoManager}]

\* Every field has its type, and a call in progress has its manager.
TypeOK ==
  /\ FieldsOK
  /\ pc \in [Tasks -> Labels]
  /\ \A t \in Tasks : pc[t] \notin {"idle", "begun"} => mgr[t] \in Managers

Leases(m) == {t \in Tasks : lease[t] = m}
Callbacks(m) == {t \in Tasks : callback[t] = m}
Workers(m) == {t \in Tasks : mgr[t] = m /\ pc[t] \in Worker}

\* A shutdown hook of a manager runs, and the manager is closed, only when
\* no handler of it is in flight, neither a leased dispatch nor a callback of
\* a subscription it owns: "in-flight callbacks finish first, then the
\* reverse-order shutdown runs" (documents/lifecycle-and-adapter-contracts.md).
HooksAfterDrain ==
  \A m \in Managers :
    (state[m] = "closed" \/ \E t \in Workers(m) : pc[t] \in {"hooks", "hook"})
       => Leases(m) = {} /\ Callbacks(m) = {}

\* The Client delivers to a manager's subscriptions only while the manager is
\* active, or in the instant between the two halves of _begin_draining(),
\* whose task still holds the transition lock.
GateFollowsState ==
  \A m \in Managers : enabled[m] =>
    \/ state[m] = "active"
    \/ state[m] = "draining" /\ tlock[m] # NoTask /\ pc[tlock[m]] \in Disabling

\* The two counters a drain waits for never fall below the handlers that are
\* running, so that no wait ends early; _inflight counts them exactly.
DrainCounts ==
  \A m \in Managers :
    /\ inflight[m] = Cardinality(Leases(m))
    /\ ownerInflight[m] >= Cardinality(Callbacks(m))

\* shutdown() is single-flight: concurrent calls, retries after a timeout and
\* cancellations never give a manager two workers, and a manager with a final
\* report has none.
SingleWorker ==
  \A m \in Managers :
    /\ Cardinality(Workers(m)) <= 1
    /\ Workers(m) # {} <=> started[m] /\ report[m] = "none"

\* A manager that serves has run every setup hook: activation refuses a
\* manager "with pending setup hooks" (_ensure_setup_complete_for_activation).
ActiveIsSetUp ==
  \A m \in Managers : state[m] = "active" => Loaded(m) \subseteq setup[m]

\* Retirement is irreversible: no setup, activation or load that was waiting
\* for the lock, or running before the shutdown, brings a manager back.
Irreversible ==
  [][\A m \in Managers :
       /\ state[m] = "draining" => state'[m] \in {"draining", "closed"}
       /\ state[m] = "failed" => state'[m] \in {"failed", "draining"}
       /\ state[m] = "closed" => state'[m] = "closed"]_vars

\* The report that shutdown() publishes as final never changes, and every
\* caller that returns after it gets that report.
FinalReport ==
  [][\A m \in Managers : report[m] # "none" => report'[m] = report[m]]_vars

\* Shutdown hooks run in the reverse of the load order: when p's hook starts,
\* every set-up plugin loaded after p has completed its own, unless this
\* shutdown has already collected an error.
ReverseOrder ==
  [][\A t \in Tasks, m \in Managers, p, q \in Plugins :
       /\ pc[t] = "hooks" /\ pc'[t] = "hook" /\ mgr[t] = m
       /\ LastOf(m, p, todo[t]) /\ Precedes(m, p, q) /\ q \in setup[m]
       => q \in shut[m] \/ err[t]]_vars

\* A plugin's shutdown hook that has completed is not run again, whatever
\* timeouts and cancellations make the caller retry.
CompletedHookNotRepeated ==
  [][\A t \in Tasks, m \in Managers, p \in Plugins :
       /\ pc[t] = "hooks" /\ pc'[t] = "hook" /\ mgr[t] = m
       /\ LastOf(m, p, todo[t])
       => p \notin shut[m]]_vars

\* Every call of shutdown() with a deadline returns, even one made by a
\* handler that holds a lease of the manager it shuts down.
ShutdownReturns ==
  \A t \in Tasks \ Patient : pc[t] \in Worker \union {"waiting"} ~> pc[t] = "idle"

\* shutdown() reports "timed out while draining callbacks" only for callbacks
\* that run: "once the resources are released shutdown can be called again"
\* (documents/lifecycle-and-adapter-contracts.md).
WaitsOnlyForCallbacks ==
  \A m \in Managers :
    (ownerInflight[m] # 0 /\ \E t \in Workers(m) : pc[t] = "ownerDraining")
       => Callbacks(m) # {}

\* shutdown() hooks enjoy the "one-time shutdown guarantee": never entered twice.
HookEnteredOnce ==
  [][\A t \in Tasks, m \in Managers, p \in Plugins :
       /\ pc[t] = "hooks" /\ pc'[t] = "hook" /\ mgr[t] = m
       /\ LastOf(m, p, todo[t])
       => p \notin hooked[m]]_vars

----------------------------------------------------------------------------
\* The manager implements the drain protocol: it is sealed once it drains and
\* the Client's gate is shut, and its work is its leases and its callbacks.
InFlight(m) == (Leases(m) \X {"lease"}) \union (Callbacks(m) \X {"callback"})

Phase(m) ==
  IF state[m] = "closed" THEN "closed"
  ELSE IF state[m] = "draining" /\ ~enabled[m] THEN "sealed" ELSE "open"

Drain == INSTANCE DrainProtocol WITH
  Work <- Tasks \X {"lease", "callback"},
  phase <- [m \in Managers |-> Phase(m)],
  active <- [m \in Managers |-> InFlight(m)],
  stopped <- shut

\* Every step of the tasks is a step of the drain protocol or none of its
\* business: plugins stop and managers close only when drained, once.
ImplementsDrain == Drain!DSpec
=============================================================================

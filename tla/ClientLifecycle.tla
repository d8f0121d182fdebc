-------------------------- MODULE ClientLifecycle --------------------------
(***************************************************************************)
(* One Client (jianer/__init__.py) and the plugin managers it is given:    *)
(* load_plugins(), swap_plugin_manager(), aclose() and the dispatch of     *)
(* messages to the current manager, interleaved with every operation that  *)
(* user code performs on the managers themselves (PluginManager).          *)
(***************************************************************************)
EXTENDS PluginManager

CONSTANT Rank    \* the order of the managers' ids, in which swap takes locks

ASSUME CLAssumption ==
  /\ Rank \in [Managers -> Int]
  /\ \A m, n \in Managers : Rank[m] = Rank[n] => m = n

VARIABLES
  current,       \* Client.plugin_manager, or NoManager
  registered,    \* _plugin_dispatch_registered
  closed,        \* _closed
  closeStarted,  \* _close_started
  closeFinished, \* _close_finished
  closeReport,   \* _close_report: "none", "complete" or "errors"
  closeErr,      \* whether the aclose() in progress has collected an error
  expected       \* per task: the argument of swap_plugin_manager()

closeVars == <<closed, closeStarted, closeFinished, closeReport, closeErr>>
clientVars == <<current, registered, closeVars, expected>>
cvars == <<vars, clientVars>>

ClientLabels == Labels \union
  {"creating", "loading", "settingUp", "swapping",
   "reading", "locking", "closingGate", "closing", "clearing", "publishing",
   "joining", "reclosing"}

\* Where the worker of aclose() may be, the shutdown() it calls included.
Closing(t) ==
  \/ pc[t] \in {"reading", "locking", "closingGate", "shutdown", "closing",
                "clearing", "publishing", "raised"}
  \/ ret[t] = "closing"

ClientInit ==
  /\ Init
  /\ current = NoManager /\ registered = FALSE
  /\ closed = FALSE /\ closeStarted = FALSE /\ closeFinished = FALSE
  /\ closeReport = "none" /\ closeErr = FALSE
  /\ expected = [t \in Tasks |-> NoManager]

\* A manager object nobody has used: what PluginManager() returns.
Unused(m) ==
  /\ state[m] = "created" /\ order[m] = <<>> /\ ~attached[m] /\ Free(m)
  /\ m # current /\ Leases(m) = {} /\ \A t \in Tasks : expected[t] # m
Fresh(m) == Unused(m) /\ \A t \in Tasks : mgr[t] # m

\* The object a task has built, and not yet stored, is known to it alone.
NewManagersPrivate == \A t \in Tasks : pc[t] = "creating" => Unused(mgr[t])

(***************************************************************************)
(* A message event: the current manager is read, and its lease taken,      *)
(* under the lifecycle lock.                                               *)
(***************************************************************************)
DispatchMessage(t) ==
  /\ current # NoManager
  /\ AcquireDispatch(t, current)
  /\ UNCHANGED clientVars

(***************************************************************************)
(* load_plugins(): nothing guards the test of plugin_manager and the two   *)
(* later uses of it.                                                       *)
(***************************************************************************)
LoadPlugins(t) ==
  /\ pc[t] = "idle" /\ current # NoManager
  /\ Goto(t, "loading")
  /\ UNCHANGED <<mgrVars, stopVars, gateVars, callVars, workVars, tlock, clientVars>>

BuildManager(t, m) ==
  /\ pc[t] = "idle" /\ current = NoManager /\ Fresh(m)
  /\ mgr' = [mgr EXCEPT ![t] = m]
  /\ Goto(t, "creating")
  /\ UNCHANGED <<mgrVars, stopVars, gateVars, todo, err, ret, workVars, tlock, clientVars>>

StoreManager(t) ==
  /\ pc[t] = "creating"
  /\ current' = mgr[t]
  /\ mgr' = [mgr EXCEPT ![t] = NoManager]
  /\ Goto(t, "loading")
  /\ UNCHANGED <<mgrVars, stopVars, gateVars, todo, err, ret, workVars, tlock,
                 registered, closeVars, expected>>

\* The folders yield one more plugin or none; then the Client subscribes its
\* dispatcher, unless it has, which a closed Client refuses.
LoadFolders(t) ==
  /\ pc[t] = "loading"
  /\ AddNothing(current) \/ \E p \in Plugins : AddPlugin(current, p)
  /\ Goto(t, IF closed /\ ~registered THEN "idle" ELSE "settingUp")
  /\ registered' = (registered \/ ~closed)
  /\ UNCHANGED <<current, closeVars, expected>>

LoadRefused(t) ==
  /\ pc[t] = "loading" /\ Free(current) /\ ~LoadAllowed(current)
  /\ Goto(t, "idle")
  /\ UNCHANGED <<mgrVars, stopVars, gateVars, callVars, workVars, tlock, clientVars>>

SetupCurrent(t) ==
  /\ pc[t] = "settingUp"
  /\ SetupBegins(t, current, "activating")
  /\ UNCHANGED clientVars

SetupRefused(t) ==
  /\ pc[t] = "settingUp" /\ Free(current)
  /\ ~SetupAllowed(current)
  /\ Goto(t, "idle")
  /\ UNCHANGED <<mgrVars, stopVars, gateVars, callVars, workVars, tlock, clientVars>>

(***************************************************************************)
(* swap_plugin_manager(new, expected): the transition locks of both, in    *)
(* the order of their ids, then one atomic exchange or an exception.       *)
(***************************************************************************)
Wanted(t) == {mgr[t], expected[t]} \ {NoManager}
Held(t) == {m \in Managers : tlock[m] = t}

Swap(t, new, exp) ==
  /\ pc[t] = "idle" /\ attached[new]
  /\ mgr' = [mgr EXCEPT ![t] = new]
  /\ expected' = [expected EXCEPT ![t] = exp]
  /\ Goto(t, "swapping")
  /\ UNCHANGED <<mgrVars, stopVars, gateVars, todo, err, ret, workVars, tlock,
                 current, registered, closeVars>>

AnyLock(t, m) == m \in Wanted(t) \ Held(t)
NextLock(t, m) ==
  m \in Wanted(t) \ Held(t) /\ \A n \in Wanted(t) \ Held(t) : Rank[m] <= Rank[n]

SwapLock(t, m) ==
  /\ pc[t] = "swapping" /\ NextLock(t, m) /\ Free(m)
  /\ Acquire(t, m)
  /\ UNCHANGED <<mgrVars, stopVars, gateVars, callVars, workVars, pc, clientVars>>

SwapAllowedRetired(new, exp) ==
  current = exp /\ state[new] = "staged" /\ SetupComplete(new)
SwapAllowed(new, exp) ==
  /\ current = exp
  /\ exp # NoManager => state[exp] = "active"
  /\ state[new] = "staged" /\ SetupComplete(new)

SwapEnds(t) ==
  /\ Wanted(t) = Held(t)
  /\ tlock' = [m \in Managers |-> IF m \in Held(t) THEN NoTask ELSE tlock[m]]
  /\ expected' = [expected EXCEPT ![t] = NoManager]
  /\ Leave(t, "idle", FALSE)
  /\ UNCHANGED <<order, setup, shut, attached, stopVars, subs, ownerInflight, workVars,
                 registered, closeVars>>

GateAfterSwap(t, m) == m = mgr[t] \/ (enabled[m] /\ m # expected[t])

SwapDone(t) ==
  /\ pc[t] = "swapping" /\ SwapAllowed(mgr[t], expected[t])
  /\ state' = [m \in Managers |-> IF m = mgr[t] THEN "active"
                                  ELSE IF m = expected[t] THEN "draining" ELSE state[m]]
  /\ enabled' = [m \in Managers |-> GateAfterSwap(t, m)]
  /\ current' = mgr[t]
  /\ SwapEnds(t)

SwapRefused(t) ==
  /\ pc[t] = "swapping" /\ ~SwapAllowed(mgr[t], expected[t])
  /\ SwapEnds(t)
  /\ UNCHANGED <<state, enabled, current>>

(***************************************************************************)
(* aclose(): single-flight; the worker drains and shuts down the manager   *)
(* that is current when it holds its lock, then clears the Client.         *)
(***************************************************************************)
CallsAclose(t) == pc[t] \in {"idle", "reclosing"}
ClosesAgain == closeReport = "none"
Closes == closeReport = "none" /\ ~closeStarted

AcloseReported(t) ==
  /\ CallsAclose(t) /\ closeReport # "none"
  /\ Goto(t, "idle")
  /\ UNCHANGED <<mgrVars, stopVars, gateVars, callVars, workVars, tlock, clientVars>>

AcloseJoin(t) ==
  /\ CallsAclose(t) /\ closeReport = "none" /\ ~Closes
  /\ Goto(t, "joining")
  /\ UNCHANGED <<mgrVars, stopVars, gateVars, callVars, workVars, tlock, clientVars>>

\* The listener is asked to stop, which may fail.
AcloseStart(t, lisFails) ==
  /\ CallsAclose(t) /\ Closes
  /\ closeStarted' = TRUE
  /\ closeFinished' = FALSE
  /\ closeErr' = lisFails
  /\ Goto(t, "reading")
  /\ UNCHANGED <<mgrVars, stopVars, gateVars, callVars, workVars, tlock,
                 current, registered, closed, closeReport, expected>>

ReadCurrentUnchecked(t) ==
  /\ pc[t] = "reading"
  /\ mgr' = [mgr EXCEPT ![t] = current]
  /\ Goto(t, "locking")
  /\ UNCHANGED <<mgrVars, stopVars, gateVars, todo, err, ret, workVars, tlock, clientVars>>

ReadCurrent(t) ==
  /\ pc[t] = "reading"
  /\ mgr' = [mgr EXCEPT ![t] = current]
  /\ Goto(t, IF current = NoManager THEN "clearing" ELSE "locking")
  /\ UNCHANGED <<mgrVars, stopVars, gateVars, todo, err, ret, workVars, tlock, clientVars>>

CurrentChanged(t) ==
  /\ pc[t] = "locking" /\ Free(mgr[t]) /\ current # mgr[t]
  /\ Goto(t, "reading")
  /\ UNCHANGED <<mgrVars, stopVars, gateVars, callVars, workVars, tlock, clientVars>>

\* _begin_draining() under the lifecycle lock: its state change, ...
DrainCurrent(t) ==
  /\ pc[t] = "locking" /\ Free(mgr[t]) /\ current = mgr[t]
  /\ state[mgr[t]] # "closed"
  /\ Acquire(t, mgr[t])
  /\ state' = [state EXCEPT ![mgr[t]] = "draining"]
  /\ Goto(t, "closingGate")
  /\ UNCHANGED <<order, setup, shut, attached, stopVars, gateVars, callVars, workVars, clientVars>>

\* ... which a closed manager does not need, ...
CurrentIsClosed(t) ==
  /\ pc[t] = "locking" /\ Free(mgr[t]) /\ current = mgr[t]
  /\ state[mgr[t]] = "closed"
  /\ ret' = [ret EXCEPT ![t] = "closing"]
  /\ Goto(t, "shutdown")
  /\ UNCHANGED <<mgrVars, stopVars, gateVars, mgr, todo, err, workVars, tlock, clientVars>>

\* ... and the closing of the gate.
CloseGate(t) ==
  /\ pc[t] = "closingGate"
  /\ enabled' = [enabled EXCEPT ![mgr[t]] = GateInDrain(mgr[t])]
  /\ Release(mgr[t])
  /\ ret' = [ret EXCEPT ![t] = "closing"]
  /\ Goto(t, "shutdown")
  /\ UNCHANGED <<mgrVars, stopVars, subs, ownerInflight, mgr, todo, err, workVars, clientVars>>

ManagerClosed(t) ==
  /\ pc[t] = "closing" /\ state[mgr[t]] = "closed"
  /\ closeErr' = (closeErr \/ err[t])
  /\ Goto(t, "clearing")
  /\ UNCHANGED <<mgrVars, stopVars, gateVars, callVars, workVars, tlock,
                 current, registered, closed, closeStarted, closeFinished, closeReport, expected>>

AnnounceNothing == UNCHANGED closeFinished
Announce == closeFinished' = TRUE

\* The manager could not be closed, or the worker was cancelled: the next
\* caller of aclose() starts again (_reset_close_singleflight).
ResetClose(t) ==
  /\ pc[t] = "raised" \/ (pc[t] = "closing" /\ state[mgr[t]] # "closed")
  /\ closeStarted' = (closeStarted /\ closeReport # "none")
  /\ Announce
  /\ closeErr' = FALSE
  /\ Leave(t, "idle", FALSE)
  /\ UNCHANGED <<mgrVars, stopVars, gateVars, workVars, tlock,
                 current, registered, closed, closeReport, expected>>

ClearClient(t) ==
  /\ pc[t] = "clearing"
  /\ subs' = [m \in Managers |-> {}]
  /\ enabled' = [m \in Managers |-> FALSE]
  /\ closed' = TRUE
  /\ Goto(t, "publishing")
  /\ UNCHANGED <<mgrVars, stopVars, ownerInflight, callVars, workVars, tlock,
                 current, registered, closeStarted, closeFinished, closeReport, closeErr, expected>>

PublishClose(t) ==
  /\ pc[t] = "publishing"
  /\ closeReport' = IF closeErr THEN "errors" ELSE "complete"
  /\ Announce
  /\ closeErr' = FALSE
  /\ Leave(t, "idle", FALSE)
  /\ UNCHANGED <<mgrVars, stopVars, gateVars, workVars, tlock,
                 current, registered, closed, closeStarted, expected>>

JoinWakes(t) ==
  /\ pc[t] = "joining" /\ closeFinished
  /\ Goto(t, IF closeReport # "none" THEN "idle" ELSE "reclosing")
  /\ UNCHANGED <<mgrVars, stopVars, gateVars, callVars, workVars, tlock, clientVars>>

CancelJoin(t) ==
  /\ pc[t] = "joining"
  /\ Goto(t, "idle")
  /\ UNCHANGED <<mgrVars, stopVars, gateVars, callVars, workVars, tlock, clientVars>>

----------------------------------------------------------------------------
\* subscribe() raises on a closed Client, in a setup hook as anywhere.
SubscribeRefused == closed => \A m \in Managers : subs'[m] \subseteq subs[m]

ManagerStep(t) ==
  /\ Call(t) \/ Proceed(t) \/ EndHandler(t) \/ Cancel(t)
  /\ SubscribeRefused /\ UNCHANGED clientVars /\ NewManagersPrivate'

ClientCall(t) ==
  \/ LoadPlugins(t) \/ \E m \in Managers : BuildManager(t, m)
  \/ (\E new \in Managers, exp \in Managers \union {NoManager} : Swap(t, new, exp))
     /\ NewManagersPrivate'
  \/ pc[t] = "idle" /\ (AcloseJoin(t) \/ \E f \in CleanupFails : AcloseStart(t, f))

\* The steps of a call in progress.
ClientProceed(t) ==
  \/ \E m \in Managers : SwapLock(t, m)
  \/ StoreManager(t) \/ LoadFolders(t) \/ LoadRefused(t) \/ SetupCurrent(t) \/ SetupRefused(t)
  \/ SwapDone(t) \/ SwapRefused(t)
  \/ pc[t] = "reclosing" /\ (AcloseJoin(t) \/ \E f \in CleanupFails : AcloseStart(t, f))
  \/ AcloseReported(t)
  \/ ReadCurrent(t) \/ CurrentChanged(t) \/ DrainCurrent(t) \/ CurrentIsClosed(t) \/ CloseGate(t)
  \/ ManagerClosed(t) \/ ResetClose(t) \/ ClearClient(t) \/ PublishClose(t) \/ JoinWakes(t)
  \/ (Proceed(t) \/ (pc[t] = "shutdown" /\ Call(t))) /\ SubscribeRefused /\ UNCHANGED clientVars

ClientNext ==
  \/ \E t \in Tasks : ManagerStep(t) \/ DispatchMessage(t) \/ ClientCall(t)
                      \/ ClientProceed(t) \/ CancelJoin(t)
  \/ Resubscribe /\ SubscribeRefused /\ UNCHANGED clientVars

ClientSpec == ClientInit /\ [][ClientNext]_cvars
ClientFairSpec == ClientSpec /\ \A t \in Tasks : WF_cvars(ClientProceed(t))

----------------------------------------------------------------------------
Unbound == {"idle", "begun", "loading", "settingUp", "reading", "clearing", "publishing",
            "joining", "reclosing", "raised"}

\* Every field has its type, and a call in progress finds the manager it needs.
ClientTypeOK ==
  /\ FieldsOK
  /\ pc \in [Tasks -> ClientLabels]
  /\ current \in Managers \union {NoManager}
  /\ registered \in BOOLEAN /\ closed \in BOOLEAN
  /\ closeStarted \in BOOLEAN /\ closeFinished \in BOOLEAN /\ closeErr \in BOOLEAN
  /\ closeReport \in {"none", "complete", "errors"}
  /\ expected \in [Tasks -> Managers \union {NoManager}]
  /\ \A t \in Tasks :
       /\ pc[t] \in {"loading", "settingUp"} => current \in Managers
       /\ pc[t] \in (ClientLabels \ Unbound) => mgr[t] \in Managers

\* aclose() is single-flight: concurrent calls, waiters that retry and
\* cancellations never give the Client two closers, nor one after its report.
SingleCloser ==
  /\ Cardinality({t \in Tasks : Closing(t)}) <= 1
  /\ (\E t \in Tasks : Closing(t)) <=> closeStarted /\ closeReport = "none"

\* Once aclose() has begun to drain the current manager no reload in flight can
\* exchange it (only a load_plugins() that found no manager overwrites it), and
\* the Client is cleared when that manager is closed, not before.
CloserKeepsManager ==
  [][\A t \in Tasks :
       (Closing(t) /\ pc[t] \notin {"reading", "locking"} /\ mgr[t] # NoManager)
         => /\ (current = mgr[t] /\ current' # current) => \E u \in Tasks : pc[u] = "creating"
            /\ pc'[t] = "publishing" => state[mgr[t]] = "closed"]_cvars

\* swap_plugin_manager() sorts the managers by id, so that two concurrent
\* exchanges never wait for each other's transition lock.
Waits(t, m) ==
  \/ pc[t] = "swapping" /\ NextLock(t, m)
  \/ pc[t] \in {"locking", "shutdown"} /\ m = mgr[t]
NoLockCycle ==
  ~ \E t, u \in Tasks, m, n \in Managers :
      t # u /\ tlock[m] = t /\ Waits(t, n) /\ tlock[n] = u /\ Waits(u, m)

\* When tasks stop making calls, every call in progress returns: no call of
\* aclose(), shutdown(), load_plugins() or swap_plugin_manager() hangs.
CallsReturn ==
  <>[][\A t \in Tasks : pc[t] = "idle" => pc'[t] = "idle"]_cvars
     => \A t \in Tasks : <>[](pc[t] = "idle")

\* "Leaving the Client's context, the normal end of run() and restart all
\* close the current plugin Manager": so does an aclose() that reports success.
ClosingClosesTheManager ==
  closeReport = "complete" => current = NoManager \/ state[current] = "closed"

\* "In asynchronous handlers prefer await client.aclose()": when the only
\* handler in flight is the one that awaits it, aclose() closes the Client.
HandlerCanClose ==
  [][\A t \in Tasks :
       (/\ pc[t] = "closing" /\ pc'[t] = "idle"
        /\ \A u \in Tasks \ {t} : pc[u] = "idle" /\ lease[u] = NoManager /\ callback[u] = NoManager)
       => closed]_cvars
=============================================================================

----------------------- MODULE ClientLifecycle_proofs -----------------------
(***************************************************************************)
(* Theorems about ClientLifecycle, for any sets of managers, plugins and   *)
(* tasks, whatever the setup hooks load: the closer of the Client is       *)
(* single, exchanges never wait for each other, and the manager a closer   *)
(* drains stays the one it closes.  The layers below are those of          *)
(* PluginManagerInv as they hold when calls of the Client interleave.      *)
(***************************************************************************)
EXTENDS ClientLifecycle, FiniteSetTheorems, TLAPS

Setting == {"activating", "staging"}
LockHolder == Setting \union {"enabling", "disabling", "closingGate"}

\* A shutdown() that aclose() has called, and no other, returns to aclose().
ReturnInv ==
  \A t \in Tasks :
    /\ pc[t] = "shutdown" => ret[t] = "closing"
    /\ ret[t] = "closing" => pc[t] \in Worker \union {"waiting", "shutdown"}

CallInv == ClientTypeOK /\ ReturnInv

\* A transition lock is held by the task in a locked section of its manager,
\* or by an exchange that has still to take only locks of a higher rank.
HolderInv ==
  \A t \in Tasks :
    /\ pc[t] \in LockHolder => tlock[mgr[t]] = t
    /\ \A m \in Managers : tlock[m] = t =>
         \/ mgr[t] = m /\ pc[t] \in LockHolder
         \/ /\ pc[t] = "swapping" /\ m \in Wanted(t)
            /\ \A n \in Wanted(t) : tlock[n] # t => Rank[m] < Rank[n]

\* What the state of a manager is while a call on it is in progress.
ProgressInv ==
  /\ \A m \in Managers : state[m] = "closed" <=> report[m] # "none"
  /\ \A t \in Tasks :
       /\ pc[t] \in Setting => state[mgr[t]] \in {"created", "loaded", "staged", "active"}
       /\ pc[t] = "enabling" => state[mgr[t]] = "active"
       /\ pc[t] \in Worker => started[mgr[t]] /\ state[mgr[t]] = "draining"

\* A manager has at most one worker, and one while its shutdown is in progress.
OneWorkerInv ==
  /\ \A t, u \in Tasks : pc[t] \in Worker /\ pc[u] \in Worker /\ mgr[t] = mgr[u] => t = u
  /\ \A m \in Managers : started[m] /\ report[m] = "none" =>
       \E t \in Tasks : pc[t] \in Worker /\ mgr[t] = m

\* One task at most runs the worker of aclose(): the one that has started it.
CloserInv ==
  /\ \A t, u \in Tasks : Closing(t) /\ Closing(u) => t = u
  /\ (\E t \in Tasks : Closing(t)) <=> closeStarted /\ closeReport = "none"

\* The manager that the closer has locked is retired, and closed when the
\* closer goes on to clear the Client.
RetiredInv ==
  \A t \in Tasks : Closing(t) /\ pc[t] \notin {"reading", "locking"} /\ mgr[t] # NoManager =>
    /\ state[mgr[t]] \in {"draining", "closed"}
    /\ pc[t] \in {"clearing", "publishing"} => state[mgr[t]] = "closed"

\* What a step may do to the state of a manager.
Retires(n) ==
  /\ state[n] = "draining" => state'[n] \in {"draining", "closed"}
  /\ state[n] = "failed" => state'[n] \in {"failed", "draining"}
  /\ state[n] = "closed" => state'[n] = "closed"

ClientInv == CallInv /\ HolderInv /\ ProgressInv /\ OneWorkerInv /\ CloserInv /\ RetiredInv

-----------------------------------------------------------------------------
(* The steps, by what they do to the variables that the layers speak of.     *)

\* Neither a state, a lock nor a call in progress changes.
Quiet ==
  UNCHANGED <<state, pc, started, report, tlock, mgr, ret, current, expected,
              closeStarted, closeReport>>

QuietOps ==
  /\ \/ \E t \in Tasks : \/ ReleaseDispatch(t) \/ EndSubscription(t)
                         \/ \E m \in Managers : AcquireDispatch(t, m)
                         \/ \E p \in Plugins : SetupHook(t, p) \/ SkipHook(t, p)
     \/ \E m \in Managers, p \in Plugins : Subscribe(m, p) \/ Unsubscribe(m, p)
  /\ UNCHANGED clientVars

\* A manager loads a plugin, or a folder without any.
Grows(m) ==
  /\ LoadAllowed(m) /\ state' = [state EXCEPT ![m] = AfterLoad(m)]
  /\ UNCHANGED <<pc, started, report, tlock, mgr, ret, current, expected,
                 closeStarted, closeReport>>

GrowOps(t) ==
  /\ \/ \E m \in Managers : LoadNothing(t, m) \/ \E p \in Plugins : LoadPlugin(t, m, p)
     \/ \E p, q \in Plugins : SetupHookLoads(t, p, q)
  /\ UNCHANGED clientVars

\* A call moves on to a position with the same claims on locks and managers.
Harmless ==
  {<<"idle", "begun">>, <<"begun", "idle">>, <<"draining", "ownerDraining">>,
   <<"ownerDraining", "hooks">>, <<"hooks", "hook">>, <<"hook", "hooks">>, <<"idle", "loading">>,
   <<"loading", "idle">>, <<"settingUp", "idle">>, <<"idle", "idle">>, <<"reclosing", "idle">>,
   <<"idle", "joining">>, <<"reclosing", "joining">>, <<"joining", "idle">>,
   <<"joining", "reclosing">>, <<"locking", "reading">>}

Moves(t) ==
  /\ \E h \in Harmless : /\ pc[t] = h[1] /\ pc' = [pc EXCEPT ![t] = h[2]]
                         /\ h[2] = "loading" => current # NoManager
  /\ UNCHANGED <<state, started, report, tlock, mgr, ret, current, expected,
                 closeStarted, closeReport>>

MoveOps(t) ==
  \/ /\ \/ \E m \in Managers : BeginSubscription(t, m)
        \/ StartCallback(t) \/ CancelBegun(t) \/ Drained(t) \/ OwnerDrained(t)
        \/ \E p \in Plugins : EnterHook(t, p) \/ HookDone(t, p) \/ HookFails(t, p)
     /\ UNCHANGED clientVars
  \/ LoadPlugins(t) \/ LoadRefused(t) \/ SetupRefused(t) \/ AcloseReported(t) \/ AcloseJoin(t)
  \/ CurrentChanged(t) \/ JoinWakes(t) \/ CancelJoin(t)

\* The other steps of calls on a manager, ...
ManagerOps(t) ==
  /\ \/ \E m \in Managers, mode \in Setting :
          SetupBegins(t, m, mode) /\ pc[t] \in {"idle", "settingUp"}
     \/ \E m \in Managers : \/ Activate(t, m) \/ ShutdownReported(t, m)
                            \/ ShutdownJoin(t, m) \/ ShutdownStart(t, m)
     \/ SetupFail(t) \/ SetupActivate(t) \/ SetupStage(t) \/ Enable(t)
     \/ Disable(t) \/ DrainTimeout(t) \/ WaiterReturns(t) \/ CancelWorker(t) \/ CancelWaiter(t)
     \/ \E e \in BOOLEAN : FinishShutdown(t, e)
  /\ UNCHANGED clientVars

\* ... and of calls on the Client.
ClientOps(t) ==
  \/ \E m \in Managers : BuildManager(t, m) \/ SwapLock(t, m)
  \/ \E new \in Managers, exp \in Managers \union {NoManager} : Swap(t, new, exp)
  \/ StoreManager(t) \/ LoadFolders(t) \/ SwapDone(t) \/ SwapRefused(t)
  \/ \E e \in BOOLEAN : AcloseStart(t, e)
  \/ ReadCurrent(t) \/ DrainCurrent(t) \/ CurrentIsClosed(t) \/ CloseGate(t) \/ ManagerClosed(t)
  \/ ResetClose(t) \/ ClearClient(t) \/ PublishClose(t)

\* Every step is of one of these groups, or stutters.
LEMMA ClientCases ==
  ASSUME CallInv, [ClientNext]_cvars
  PROVE  \/ UNCHANGED cvars \/ QuietOps
         \/ \E t \in Tasks : GrowOps(t) \/ MoveOps(t) \/ ManagerOps(t) \/ ClientOps(t)
<1> DEFINE Goal == \/ UNCHANGED cvars \/ QuietOps
                   \/ \E t \in Tasks : GrowOps(t) \/ MoveOps(t) \/ ManagerOps(t) \/ ClientOps(t)
<1>1. ASSUME NEW t \in Tasks, Call(t), UNCHANGED clientVars PROVE Goal
  BY <1>1 DEF Call, QuietOps, GrowOps, MoveOps, ManagerOps, SetupClient, Setting
<1>2. ASSUME NEW t \in Tasks, Proceed(t), UNCHANGED clientVars PROVE Goal
  <2>1. CASE Setup(t)
    BY <1>2, <2>1 DEF Setup, QuietOps, GrowOps, ManagerOps
  <2>2. CASE ShutdownSteps(t)
    BY <1>2, <2>2, PMAssumption DEF PMAssumption, ShutdownSteps, QuietOps, MoveOps, ManagerOps
  <2> QED
    BY <1>2, <2>1, <2>2 DEF Proceed, MoveOps
<1>3. ASSUME NEW t \in Tasks, EndHandler(t) \/ Cancel(t), UNCHANGED clientVars PROVE Goal
  BY <1>3 DEF EndHandler, Cancel, QuietOps, MoveOps, ManagerOps
<1>4. ASSUME NEW t \in Tasks, DispatchMessage(t) PROVE Goal
  BY <1>4 DEF DispatchMessage, CallInv, ClientTypeOK, QuietOps
<1>5. ASSUME NEW t \in Tasks, ClientCall(t) PROVE Goal
  BY <1>5, PMAssumption DEF PMAssumption, ClientCall, MoveOps, ClientOps
<1>6. ASSUME NEW t \in Tasks, SetupCurrent(t) PROVE Goal
  BY <1>6 DEF SetupCurrent, CallInv, ClientTypeOK, ManagerOps, Setting
<1>7. ASSUME NEW t \in Tasks, ClientProceed(t) PROVE Goal
  <2>1. \/ MoveOps(t) \/ ClientOps(t) \/ SetupCurrent(t)
        \/ (Proceed(t) \/ Call(t)) /\ UNCHANGED clientVars
    BY <1>7, PMAssumption DEF PMAssumption, ClientProceed, MoveOps, ClientOps
  <2> QED
    BY <2>1, <1>1, <1>2, <1>6
<1>8. ASSUME Resubscribe, UNCHANGED clientVars PROVE Goal
  BY <1>8 DEF Resubscribe, QuietOps
<1> HIDE DEF Goal
<1>9. Goal
  <2>1. CASE UNCHANGED cvars
    BY <2>1 DEF Goal
  <2>2. ASSUME NEW t \in Tasks, MoveOps(t) PROVE Goal
    BY <2>2 DEF Goal
  <2>3. ASSUME NEW t \in Tasks, CancelJoin(t) PROVE Goal
    BY <2>2, <2>3 DEF MoveOps
  <2> QED
    BY <2>1, <2>3, <1>1, <1>2, <1>3, <1>4, <1>5, <1>7, <1>8 DEF ClientNext, ManagerStep
<1> QED
  BY <1>9 DEF Goal

\* The names of the groups say what their steps do.
LEMMA QuietIsQuiet == QuietOps => Quiet
<1> USE DEF Quiet, mgrVars, stopVars, gateVars, callVars, workVars, clientVars, closeVars
<1>1. ASSUME NEW t \in Tasks, UNCHANGED clientVars, ReleaseDispatch(t)
      \/ EndSubscription(t) PROVE Quiet
  BY <1>1 DEF ReleaseDispatch, EndSubscription
<1>2. ASSUME NEW t \in Tasks, UNCHANGED clientVars, NEW m \in Managers, AcquireDispatch(t, m)
      PROVE  Quiet
  BY <1>2 DEF AcquireDispatch
<1>3. ASSUME NEW t \in Tasks, UNCHANGED clientVars, NEW p \in Plugins, SetupHook(t, p)
      \/ SkipHook(t, p)
      PROVE  Quiet
  BY <1>3 DEF SetupHook, SkipHook
<1>4. ASSUME NEW m \in Managers, UNCHANGED clientVars, NEW p \in Plugins, Subscribe(m, p)
      \/ Unsubscribe(m, p)
      PROVE  Quiet
  BY <1>4 DEF Subscribe, Unsubscribe
<1> HIDE DEF Quiet
<1> QED
  BY <1>1, <1>2, <1>3, <1>4 DEF QuietOps

\* Loading, installing and hooks only add to what a manager has.
LEMMA GrowOpsGrow ==
  ASSUME CallInv, NEW t \in Tasks, GrowOps(t)
  PROVE  \E m \in Managers : Grows(m)
<1> USE DEF Grows, mgrVars, stopVars, gateVars, callVars, workVars, clientVars, closeVars
<1>1. ASSUME NEW m \in Managers, UNCHANGED clientVars, LoadNothing(t, m) PROVE Grows(m)
  BY <1>1 DEF LoadNothing, AddNothing
<1>2. ASSUME NEW m \in Managers, UNCHANGED clientVars, NEW p \in Plugins, LoadPlugin(t, m, p)
      PROVE  Grows(m)
  BY <1>2 DEF LoadPlugin, AddPlugin
<1>3. ASSUME UNCHANGED clientVars, NEW p \in Plugins, NEW q \in Plugins, SetupHookLoads(t, p, q)
      PROVE  mgr[t] \in Managers /\ Grows(mgr[t])
  BY <1>3 DEF SetupHookLoads, CallInv, ClientTypeOK, ClientLabels, Labels, Unbound
<1> HIDE DEF Grows
<1> QED
  BY <1>1, <1>2, <1>3 DEF GrowOps

\* Waiting and returning only move a task on.
LEMMA MoveOpsMove ==
  ASSUME NEW t \in Tasks, MoveOps(t)
  PROVE  Moves(t)
<1> USE DEF Goto, mgrVars, stopVars, gateVars, callVars, workVars, clientVars, closeVars
<1> DEFINE Same == UNCHANGED <<state, started, report, tlock, mgr, ret, current, expected,
                               closeStarted, closeReport>>
<1>1. Same
  <2>1. CASE UNCHANGED clientVars /\ \E m \in Managers : BeginSubscription(t, m)
    BY <2>1 DEF BeginSubscription
  <2>2. CASE UNCHANGED clientVars /\ (StartCallback(t) \/ CancelBegun(t) \/ Drained(t)
             \/ OwnerDrained(t))
    BY <2>2 DEF StartCallback, CancelBegun, Drained, OwnerDrained
  <2>3. CASE UNCHANGED clientVars /\ \E p \in Plugins : EnterHook(t, p) \/ HookDone(t, p)
             \/ HookFails(t, p)
    BY <2>3 DEF EnterHook, HookDone, HookFails
  <2>4. CASE LoadPlugins(t) \/ LoadRefused(t) \/ SetupRefused(t) \/ AcloseReported(t)
             \/ AcloseJoin(t)
    BY <2>4 DEF LoadPlugins, LoadRefused, SetupRefused, AcloseReported, AcloseJoin
  <2>5. CASE CurrentChanged(t) \/ JoinWakes(t) \/ CancelJoin(t)
    BY <2>5 DEF CurrentChanged, JoinWakes, CancelJoin
  <2> HIDE DEF Same
  <2> QED
    BY <2>1, <2>2, <2>3, <2>4, <2>5 DEF MoveOps
<1>2. \E h \in Harmless : /\ pc[t] = h[1] /\ pc' = [pc EXCEPT ![t] = h[2]]
                          /\ h[2] = "loading" => current # NoManager
  <2> DEFINE Step(a, b) == /\ pc[t] = a /\ pc' = [pc EXCEPT ![t] = b]
                           /\ b = "loading" => current # NoManager
  <2>1. \/ Step("idle", "begun") \/ Step("begun", "idle") \/ Step("draining", "ownerDraining")
        \/ Step("ownerDraining", "hooks") \/ Step("hooks", "hook") \/ Step("hook", "hooks")
        \/ Step("idle", "loading") \/ Step("loading", "idle") \/ Step("settingUp", "idle")
        \/ Step("idle", "idle") \/ Step("reclosing", "idle") \/ Step("idle", "joining")
        \/ Step("reclosing", "joining") \/ Step("joining", "idle") \/ Step("joining", "reclosing")
        \/ Step("locking", "reading")
    BY DEF MoveOps, BeginSubscription, StartCallback, CancelBegun, Drained, OwnerDrained, EnterHook,
           HookDone, HookFails, LoadPlugins, LoadRefused, SetupRefused, AcloseReported, AcloseJoin,
           CallsAclose, CurrentChanged, JoinWakes, CancelJoin
  <2>2. ASSUME NEW a, NEW b, <<a, b>> \in Harmless, Step(a, b)
        PROVE  \E h \in Harmless : /\ pc[t] = h[1] /\ pc' = [pc EXCEPT ![t] = h[2]]
                                   /\ h[2] = "loading" => current # NoManager
    BY <2>2
  <2> HIDE DEF Step
  <2> QED
    BY <2>1, <2>2 DEF Harmless
<1> QED
  BY <1>1, <1>2 DEF Moves

-----------------------------------------------------------------------------
(* One lemma per layer: every step keeps it.                                 *)

\* Every field of the managers, the Client and the tasks keeps its type.
ClientFields ==
  /\ FieldsOK
  /\ pc \in [Tasks -> ClientLabels]
  /\ current \in Managers \union {NoManager}
  /\ registered \in BOOLEAN /\ closed \in BOOLEAN
  /\ closeStarted \in BOOLEAN /\ closeFinished \in BOOLEAN /\ closeErr \in BOOLEAN
  /\ closeReport \in {"none", "complete", "errors"}
  /\ expected \in [Tasks -> Managers \union {NoManager}]

\* A manager has loaded plugins only.
LEMMA LoadedArePlugins ==
  ASSUME FieldsOK, NEW m \in Managers
  PROVE  Loaded(m) \subseteq Plugins
BY DEF FieldsOK, Loaded

\* One step per action: every field keeps its type.
LEMMA FieldsStep ==
  ASSUME CallInv, [ClientNext]_cvars
  PROVE  ClientFields'
<1> USE PMAssumption DEF CallInv, ClientTypeOK, ClientFields, FieldsOK, ReturnInv, ClientLabels,
  Labels, States, Worker, Unbound, mgrVars, stopVars, gateVars, callVars, workVars, clientVars,
  closeVars, Goto
<1>1. ASSUME NEW t \in Tasks, NEW m \in Managers, UNCHANGED clientVars, AcquireDispatch(t, m)
      PROVE ClientFields'
  BY <1>1 DEF AcquireDispatch
<1>2. ASSUME NEW t \in Tasks, NEW m \in Managers, UNCHANGED clientVars, BeginSubscription(t, m)
      PROVE ClientFields'
  BY <1>2 DEF BeginSubscription
<1>3. ASSUME NEW t \in Tasks, NEW m \in Managers, UNCHANGED clientVars, LoadNothing(t, m) PROVE
      ClientFields'
  BY <1>3 DEF LoadNothing, AddNothing, AfterLoad, LoadAllowed
<1>4. ASSUME NEW t \in Tasks, NEW m \in Managers, NEW p \in Plugins, UNCHANGED clientVars,
      LoadPlugin(t, m, p) PROVE ClientFields'
  BY <1>4 DEF LoadPlugin, AddPlugin, AfterLoad, LoadAllowed
<1>5. ASSUME NEW t \in Tasks, NEW m \in Managers, NEW mode \in Setting, UNCHANGED clientVars,
      pc[t] \in {"idle", "settingUp"}, SetupBegins(t, m, mode) PROVE ClientFields'
  <2>1. todo' \in [Tasks -> SUBSET Plugins] /\ setup' \in [Managers -> SUBSET Plugins]
    BY <1>5, LoadedArePlugins DEF SetupBegins
  <2> QED
    BY <1>5, <2>1 DEF SetupBegins, Acquire, Setting
<1>6. ASSUME NEW t \in Tasks, NEW m \in Managers, UNCHANGED clientVars, Activate(t, m) PROVE
      ClientFields'
  BY <1>6 DEF Activate, Acquire, Free
<1>7. ASSUME NEW t \in Tasks, NEW m \in Managers, UNCHANGED clientVars, ShutdownReported(t, m)
      PROVE ClientFields'
  BY <1>7 DEF ShutdownReported, CallsShutdown, Free, Leave
<1>8. ASSUME NEW t \in Tasks, NEW m \in Managers, UNCHANGED clientVars, ShutdownJoin(t, m) PROVE
      ClientFields'
  BY <1>8 DEF ShutdownJoin, CallsShutdown, Free
<1>9. ASSUME NEW t \in Tasks, NEW m \in Managers, UNCHANGED clientVars, ShutdownStart(t, m)
      PROVE ClientFields'
  BY <1>9 DEF ShutdownStart, CallsShutdown, Starts, Acquire, Free
<1>10. ASSUME NEW t \in Tasks, UNCHANGED clientVars, StartCallback(t) PROVE ClientFields'
  BY <1>10 DEF StartCallback
<1>11. ASSUME NEW t \in Tasks, NEW p \in Plugins, UNCHANGED clientVars, SetupHook(t, p) PROVE
      ClientFields'
  <2>1. mgr[t] \in Managers
    BY <1>11 DEF SetupHook
  <2>2. subs' \in [Managers -> SUBSET Plugins]
    <3>1. [subs EXCEPT ![mgr[t]] = @ \union {p}] \in [Managers -> SUBSET Plugins]
      BY <2>1
    <3>2. subs' = subs \/ subs' = [subs EXCEPT ![mgr[t]] = @ \union {p}]
      BY <1>11 DEF SetupHook
    <3> QED
      BY <3>1, <3>2
  <2>3. setup' \in [Managers -> SUBSET Plugins] /\ todo' \in [Tasks -> SUBSET Plugins]
    BY <1>11, <2>1 DEF SetupHook
  <2> QED
    BY <1>11, <2>2, <2>3 DEF SetupHook
<1>12. ASSUME NEW t \in Tasks, NEW p \in Plugins, NEW q \in Plugins, UNCHANGED clientVars,
      SetupHookLoads(t, p, q) PROVE ClientFields'
  <2>1. mgr[t] \in Managers
    BY <1>12 DEF SetupHookLoads
  <2>2. order' \in [Managers -> Seq(Plugins)]
    <3>1. Append(order[mgr[t]], q) \in Seq(Plugins)
      BY <2>1
    <3> QED
      BY <1>12, <2>1, <3>1 DEF SetupHookLoads
  <2>3. setup' \in [Managers -> SUBSET Plugins] /\ todo' \in [Tasks -> SUBSET Plugins]
    BY <1>12, <2>1 DEF SetupHookLoads
  <2>4. state' \in [Managers -> States]
    BY <1>12, <2>1 DEF SetupHookLoads, AfterLoad
  <2> QED
    BY <1>12, <2>2, <2>3, <2>4 DEF SetupHookLoads
<1>13. ASSUME NEW t \in Tasks, UNCHANGED clientVars, SetupFail(t) PROVE ClientFields'
  BY <1>13 DEF SetupFail, Release, Leave
<1>14. ASSUME NEW t \in Tasks, UNCHANGED clientVars, SetupActivate(t) PROVE ClientFields'
  BY <1>14 DEF SetupActivate
<1>15. ASSUME NEW t \in Tasks, UNCHANGED clientVars, SetupStage(t) PROVE ClientFields'
  BY <1>15 DEF SetupStage, Release, Leave
<1>16. ASSUME NEW t \in Tasks, UNCHANGED clientVars, Enable(t) PROVE ClientFields'
  BY <1>16 DEF Enable, Release, Leave
<1>17. ASSUME NEW t \in Tasks, UNCHANGED clientVars, Disable(t) PROVE ClientFields'
  BY <1>17 DEF Disable, Release, GateInDrain
<1>18. ASSUME NEW t \in Tasks, UNCHANGED clientVars, Drained(t) PROVE ClientFields'
  BY <1>18 DEF Drained
<1>19. ASSUME NEW t \in Tasks, UNCHANGED clientVars, OwnerDrained(t) PROVE ClientFields'
  BY <1>19 DEF OwnerDrained, HooksLeft
<1>20. ASSUME NEW t \in Tasks, UNCHANGED clientVars, DrainTimeout(t) PROVE ClientFields'
  <2>1. mgr[t] \in Managers
    BY <1>20 DEF DrainTimeout
  <2>2. started' \in [Managers -> BOOLEAN] /\ finished' \in [Managers -> BOOLEAN]
    BY <1>20, <2>1 DEF DrainTimeout
  <2>3. /\ mgr' \in [Tasks -> Managers \union {NoManager}] /\ todo' \in [Tasks -> SUBSET Plugins]
        /\ err' \in [Tasks -> BOOLEAN] /\ ret' \in [Tasks -> {"idle", "closing"}]
        /\ pc' \in [Tasks -> ClientLabels]
    BY <1>20 DEF DrainTimeout, Leave
  <2> QED
    BY <1>20, <2>2, <2>3 DEF DrainTimeout
<1>21. ASSUME NEW t \in Tasks, NEW p \in Plugins, UNCHANGED clientVars, SkipHook(t, p) PROVE
      ClientFields'
  <2>1. mgr[t] \in Managers
    BY <1>21 DEF SkipHook
  <2>2. shut' \in [Managers -> SUBSET Plugins] /\ todo' \in [Tasks -> SUBSET Plugins]
    BY <1>21, <2>1 DEF SkipHook
  <2> QED
    BY <1>21, <2>2 DEF SkipHook
<1>22. ASSUME NEW t \in Tasks, NEW p \in Plugins, UNCHANGED clientVars, EnterHook(t, p) PROVE
      ClientFields'
  <2>1. mgr[t] \in Managers
    BY <1>22 DEF EnterHook
  <2>2. hooked' \in [Managers -> SUBSET Plugins] /\ pc' \in [Tasks -> ClientLabels]
    BY <1>22, <2>1 DEF EnterHook
  <2> QED
    BY <1>22, <2>2 DEF EnterHook
<1>23. ASSUME NEW t \in Tasks, NEW p \in Plugins, UNCHANGED clientVars, HookDone(t, p) PROVE
      ClientFields'
  <2>1. mgr[t] \in Managers
    BY <1>23 DEF HookDone
  <2>2. /\ shut' \in [Managers -> SUBSET Plugins] /\ todo' \in [Tasks -> SUBSET Plugins]
        /\ pc' \in [Tasks -> ClientLabels]
    BY <1>23, <2>1 DEF HookDone
  <2> QED
    BY <1>23, <2>2 DEF HookDone
<1>24. ASSUME NEW t \in Tasks, NEW p \in Plugins, UNCHANGED clientVars, HookFails(t, p) PROVE
      ClientFields'
  BY <1>24 DEF HookFails
<1>25. ASSUME NEW t \in Tasks, NEW e \in BOOLEAN, UNCHANGED clientVars, FinishShutdown(t, e)
      PROVE ClientFields'
  BY <1>25 DEF FinishShutdown, Leave
<1>26. ASSUME NEW t \in Tasks, UNCHANGED clientVars, WaiterReturns(t) PROVE ClientFields'
  BY <1>26 DEF WaiterReturns, Leave
<1>27. ASSUME NEW t \in Tasks, UNCHANGED clientVars, ReleaseDispatch(t) PROVE ClientFields'
  BY <1>27 DEF ReleaseDispatch, Decrement
<1>28. ASSUME NEW t \in Tasks, UNCHANGED clientVars, EndSubscription(t) PROVE ClientFields'
  BY <1>28 DEF EndSubscription, Decrement
<1>29. ASSUME NEW t \in Tasks, UNCHANGED clientVars, CancelBegun(t) PROVE ClientFields'
  BY <1>29 DEF CancelBegun
<1>30. ASSUME NEW t \in Tasks, UNCHANGED clientVars, CancelWorker(t) PROVE ClientFields'
  <2>1. mgr[t] \in Managers
    BY <1>30 DEF CancelWorker
  <2>2. started' \in [Managers -> BOOLEAN] /\ finished' \in [Managers -> BOOLEAN]
    BY <1>30, <2>1 DEF CancelWorker
  <2>3. /\ mgr' \in [Tasks -> Managers \union {NoManager}] /\ todo' \in [Tasks -> SUBSET Plugins]
        /\ err' \in [Tasks -> BOOLEAN] /\ ret' \in [Tasks -> {"idle", "closing"}]
        /\ pc' \in [Tasks -> ClientLabels]
    BY <1>30 DEF CancelWorker, Leave
  <2> QED
    BY <1>30, <2>2, <2>3 DEF CancelWorker
<1>31. ASSUME NEW t \in Tasks, UNCHANGED clientVars, CancelWaiter(t) PROVE ClientFields'
  BY <1>31 DEF CancelWaiter, Leave
<1>32. ASSUME NEW m \in Managers, NEW p \in Plugins, UNCHANGED clientVars, Subscribe(m, p) PROVE
      ClientFields'
  BY <1>32 DEF Subscribe
<1>33. ASSUME NEW m \in Managers, NEW p \in Plugins, UNCHANGED clientVars, Unsubscribe(m, p)
      PROVE ClientFields'
  BY <1>33 DEF Unsubscribe
<1>34. ASSUME NEW t \in Tasks, LoadPlugins(t) PROVE ClientFields'
  BY <1>34 DEF LoadPlugins
<1>35. ASSUME NEW t \in Tasks, NEW m \in Managers, BuildManager(t, m) PROVE ClientFields'
  BY <1>35 DEF BuildManager
<1>36. ASSUME NEW t \in Tasks, StoreManager(t) PROVE ClientFields'
  BY <1>36 DEF StoreManager
<1>37. ASSUME NEW t \in Tasks, LoadFolders(t) PROVE ClientFields'
  <2>1. current \in Managers
    BY <1>37 DEF LoadFolders
  <2>2. /\ order' \in [Managers -> Seq(Plugins)] /\ setup' \in [Managers -> SUBSET Plugins]
        /\ state' \in [Managers -> States]
    <3>1. CASE AddNothing(current)
      BY <2>1, <3>1 DEF AddNothing, AfterLoad
    <3>2. ASSUME NEW p \in Plugins, AddPlugin(current, p)
          PROVE  /\ order' \in [Managers -> Seq(Plugins)] /\ setup' \in [Managers -> SUBSET Plugins]
                 /\ state' \in [Managers -> States]
      <4>1. Append(order[current], p) \in Seq(Plugins)
        BY <2>1
      <4> QED
        BY <2>1, <3>2, <4>1 DEF AddPlugin, AfterLoad
    <3> QED
      BY <1>37, <3>1, <3>2 DEF LoadFolders
  <2>4. UNCHANGED <<shut, attached, stopVars, gateVars, callVars, workVars, tlock,
                    current, closeVars, expected>>
    BY <1>37 DEF LoadFolders, AddNothing, AddPlugin
  <2>5. pc' \in [Tasks -> ClientLabels] /\ registered' \in BOOLEAN
    BY <1>37 DEF LoadFolders
  <2> QED
    BY <2>2, <2>4, <2>5
<1>38. ASSUME NEW t \in Tasks, LoadRefused(t) PROVE ClientFields'
  BY <1>38 DEF LoadRefused
<1>39. ASSUME NEW t \in Tasks, SetupRefused(t) PROVE ClientFields'
  BY <1>39 DEF SetupRefused
<1>40. ASSUME NEW t \in Tasks, NEW new \in Managers, NEW exp \in Managers \union {NoManager},
      Swap(t, new, exp) PROVE ClientFields'
  BY <1>40 DEF Swap
<1>41. ASSUME NEW t \in Tasks, NEW m \in Managers, SwapLock(t, m) PROVE ClientFields'
  BY <1>41 DEF SwapLock, NextLock, Wanted, Held, Free, Acquire
<1>42. ASSUME NEW t \in Tasks, SwapDone(t) PROVE ClientFields'
  BY <1>42 DEF SwapDone, SwapAllowed, SwapEnds, Wanted, Held, Leave, GateAfterSwap
<1>43. ASSUME NEW t \in Tasks, SwapRefused(t) PROVE ClientFields'
  BY <1>43 DEF SwapRefused, SwapEnds, Wanted, Held, Leave
<1>44. ASSUME NEW t \in Tasks, AcloseReported(t) PROVE ClientFields'
  BY <1>44 DEF AcloseReported, CallsAclose
<1>45. ASSUME NEW t \in Tasks, AcloseJoin(t) PROVE ClientFields'
  BY <1>45 DEF AcloseJoin, CallsAclose
<1>46. ASSUME NEW t \in Tasks, NEW e \in BOOLEAN, AcloseStart(t, e) PROVE ClientFields'
  BY <1>46 DEF AcloseStart, CallsAclose, Closes
<1>47. ASSUME NEW t \in Tasks, ReadCurrent(t) PROVE ClientFields'
  BY <1>47 DEF ReadCurrent
<1>48. ASSUME NEW t \in Tasks, CurrentChanged(t) PROVE ClientFields'
  BY <1>48 DEF CurrentChanged
<1>49. ASSUME NEW t \in Tasks, DrainCurrent(t) PROVE ClientFields'
  BY <1>49 DEF DrainCurrent, Acquire, Free
<1>50. ASSUME NEW t \in Tasks, CurrentIsClosed(t) PROVE ClientFields'
  BY <1>50 DEF CurrentIsClosed, Free
<1>51. ASSUME NEW t \in Tasks, CloseGate(t) PROVE ClientFields'
  BY <1>51 DEF CloseGate, Release, GateInDrain
<1>52. ASSUME NEW t \in Tasks, ManagerClosed(t) PROVE ClientFields'
  BY <1>52 DEF ManagerClosed
<1>53. ASSUME NEW t \in Tasks, ResetClose(t) PROVE ClientFields'
  BY <1>53 DEF ResetClose, Announce, Leave
<1>54. ASSUME NEW t \in Tasks, ClearClient(t) PROVE ClientFields'
  BY <1>54 DEF ClearClient
<1>55. ASSUME NEW t \in Tasks, PublishClose(t) PROVE ClientFields'
  BY <1>55 DEF PublishClose, Announce, Leave
<1>56. ASSUME NEW t \in Tasks, JoinWakes(t) PROVE ClientFields'
  BY <1>56 DEF JoinWakes
<1>57. ASSUME NEW t \in Tasks, CancelJoin(t) PROVE ClientFields'
  BY <1>57 DEF CancelJoin
<1>58. CASE UNCHANGED cvars
  BY <1>58 DEF cvars, vars
<1> HIDE DEF ClientFields, CallInv
<1>59. ASSUME QuietOps PROVE ClientFields'
  BY <1>59, <1>1, <1>27, <1>28, <1>32, <1>33, <1>11, <1>21 DEF QuietOps
<1>60. ASSUME NEW t \in Tasks, GrowOps(t) PROVE ClientFields'
  BY <1>60, <1>3, <1>4, <1>12 DEF GrowOps
<1>61. ASSUME NEW t \in Tasks, MoveOps(t) PROVE ClientFields'
  BY <1>61, <1>2, <1>10, <1>29, <1>18, <1>19, <1>22, <1>23, <1>24, <1>34, <1>38, <1>39, <1>44,
    <1>45, <1>56, <1>57, <1>48 DEF MoveOps
<1>62. ASSUME NEW t \in Tasks, ManagerOps(t) PROVE ClientFields'
  BY <1>62, <1>5, <1>6, <1>7, <1>8, <1>9, <1>13, <1>14, <1>15, <1>16, <1>17, <1>20, <1>25,
    <1>26, <1>30, <1>31 DEF ManagerOps
<1>63. ASSUME NEW t \in Tasks, ClientOps(t) PROVE ClientFields'
  BY <1>63, <1>35, <1>36, <1>37, <1>40, <1>41, <1>42, <1>43, <1>46, <1>47, <1>49, <1>50, <1>51,
    <1>52, <1>53, <1>54, <1>55 DEF ClientOps
<1> QED
  BY <1>58, <1>59, <1>60, <1>61, <1>62, <1>63, ClientCases

\* The variables that the layers below speak of, ...
ControlTypes ==
  /\ state \in [Managers -> States] /\ started \in [Managers -> BOOLEAN]
  /\ report \in [Managers -> {"none", "complete", "errors"}]
  /\ tlock \in [Managers -> Tasks \union {NoTask}]
  /\ pc \in [Tasks -> ClientLabels]
  /\ mgr \in [Tasks -> Managers \union {NoManager}]
  /\ ret \in [Tasks -> {"idle", "closing"}]
  /\ current \in Managers \union {NoManager}
  /\ expected \in [Tasks -> Managers \union {NoManager}]
  /\ closeStarted \in BOOLEAN /\ closeReport \in {"none", "complete", "errors"}

\* ... and the managers and callers that the calls in progress are bound to.
Bound ==
  /\ ReturnInv
  /\ \A t \in Tasks :
       /\ pc[t] \in {"loading", "settingUp"} => current \in Managers
       /\ pc[t] \in (ClientLabels \ Unbound) => mgr[t] \in Managers

\* What most steps need of it: where the calls are and which managers they name.
LEMMA Controlled == CallInv => ControlTypes /\ Bound
BY DEF CallInv, ClientTypeOK, FieldsOK, ControlTypes, Bound

\* A call is bound to a manager that exists, and a shutdown() to its caller.
LEMMA BindStep ==
  ASSUME CallInv, [ClientNext]_cvars
  PROVE  Bound'
<1>0. ControlTypes /\ Bound
  BY Controlled
<1> USE PMAssumption, <1>0 DEF PMAssumption, ControlTypes, States, ReturnInv, Bound,
  ClientLabels, Labels, Worker, Unbound, Setting, mgrVars, stopVars, gateVars, callVars,
  workVars, clientVars, closeVars, Goto, Quiet
<1>1. CASE Quiet
  BY <1>1 DEF Quiet
<1>2. ASSUME NEW m \in Managers, Grows(m) PROVE Bound'
  BY <1>2 DEF Grows, LoadAllowed, AfterLoad
<1>3. ASSUME NEW t \in Tasks, Moves(t) PROVE Bound'
  <2>1. PICK h \in Harmless : pc[t] = h[1] /\ pc' = [pc EXCEPT ![t] = h[2]]
    BY <1>3 DEF Moves
  <2>2. UNCHANGED <<mgr, ret, current>>
    BY <1>3 DEF Moves
  <2>3. h[1] \in {"loading", "settingUp"} \/ h[2] \notin {"loading", "settingUp"}
        \/ current # NoManager
    BY <1>3, <2>1 DEF Moves, Harmless
  <2>4. /\ h[2] # "shutdown" /\ (h[2] \notin Unbound => h[1] \notin Unbound)
        /\ h[1] \in Worker \union {"waiting", "shutdown"} => h[2] \in Worker
        /\ h[1] \in ClientLabels /\ h[2] \in ClientLabels
    BY <2>1 DEF Harmless
  <2>5. /\ pc'[t] \in {"loading", "settingUp"} => current' \in Managers
        /\ pc'[t] \in (ClientLabels \ Unbound) => mgr'[t] \in Managers
        /\ pc'[t] = "shutdown" => ret'[t] = "closing"
        /\ ret'[t] = "closing" => pc'[t] \in Worker \union {"waiting", "shutdown"}
    BY <2>1, <2>2, <2>3, <2>4
  <2> QED
    BY <2>1, <2>2, <2>5
<1>4. ASSUME NEW t \in Tasks, NEW m \in Managers, NEW mode \in Setting, UNCHANGED clientVars,
      pc[t] \in {"idle", "settingUp"}, SetupBegins(t, m, mode) PROVE Bound'
  BY <1>4 DEF SetupBegins, Acquire, Free, SetupAllowed, Setting
<1>5. ASSUME NEW t \in Tasks, NEW m \in Managers, UNCHANGED clientVars, Activate(t, m) PROVE
      Bound'
  BY <1>5 DEF Activate, Acquire, Free
<1>6. ASSUME NEW t \in Tasks, NEW m \in Managers, UNCHANGED clientVars, ShutdownReported(t, m)
      PROVE Bound'
  BY <1>6 DEF ShutdownReported, CallsShutdown, Free, Leave
<1>7. ASSUME NEW t \in Tasks, NEW m \in Managers, UNCHANGED clientVars, ShutdownJoin(t, m) PROVE
      Bound'
  BY <1>7 DEF ShutdownJoin, CallsShutdown, Free
<1>8. ASSUME NEW t \in Tasks, NEW m \in Managers, UNCHANGED clientVars, ShutdownStart(t, m)
      PROVE Bound'
  BY <1>8 DEF ShutdownStart, CallsShutdown, Starts, Acquire, Free
<1>9. ASSUME NEW t \in Tasks, UNCHANGED clientVars, SetupFail(t) PROVE Bound'
  BY <1>9 DEF SetupFail, Release, Leave
<1>10. ASSUME NEW t \in Tasks, UNCHANGED clientVars, SetupActivate(t) PROVE Bound'
  BY <1>10 DEF SetupActivate
<1>11. ASSUME NEW t \in Tasks, UNCHANGED clientVars, SetupStage(t) PROVE Bound'
  BY <1>11 DEF SetupStage, Release, Leave
<1>12. ASSUME NEW t \in Tasks, UNCHANGED clientVars, Enable(t) PROVE Bound'
  BY <1>12 DEF Enable, Release, Leave
<1>13. ASSUME NEW t \in Tasks, UNCHANGED clientVars, Disable(t) PROVE Bound'
  BY <1>13 DEF Disable, Release, GateInDrain
<1>14. ASSUME NEW t \in Tasks, UNCHANGED clientVars, DrainTimeout(t) PROVE Bound'
  BY <1>14 DEF DrainTimeout, Leave
<1>15. ASSUME NEW t \in Tasks, NEW e \in BOOLEAN, UNCHANGED clientVars, FinishShutdown(t, e)
      PROVE Bound'
  BY <1>15 DEF FinishShutdown, Leave
<1>16. ASSUME NEW t \in Tasks, UNCHANGED clientVars, WaiterReturns(t) PROVE Bound'
  BY <1>16 DEF WaiterReturns, Leave
<1>17. ASSUME NEW t \in Tasks, UNCHANGED clientVars, CancelWorker(t) PROVE Bound'
  BY <1>17 DEF CancelWorker, Leave
<1>18. ASSUME NEW t \in Tasks, UNCHANGED clientVars, CancelWaiter(t) PROVE Bound'
  BY <1>18 DEF CancelWaiter, Leave
<1>19. ASSUME NEW t \in Tasks, NEW m \in Managers, BuildManager(t, m) PROVE Bound'
  BY <1>19 DEF BuildManager
<1>20. ASSUME NEW t \in Tasks, StoreManager(t) PROVE Bound'
  BY <1>20 DEF StoreManager
<1>21. ASSUME NEW t \in Tasks, LoadFolders(t) PROVE Bound'
  BY <1>21 DEF LoadFolders, AddNothing, AddPlugin, AfterLoad, LoadAllowed, Free
<1>22. ASSUME NEW t \in Tasks, NEW new \in Managers, NEW exp \in Managers \union {NoManager},
      Swap(t, new, exp) PROVE Bound'
  BY <1>22 DEF Swap
<1>23. ASSUME NEW t \in Tasks, NEW m \in Managers, SwapLock(t, m) PROVE Bound'
  BY <1>23 DEF SwapLock, NextLock, Wanted, Held, Free, Acquire
<1>24. ASSUME NEW t \in Tasks, SwapDone(t) PROVE Bound'
  BY <1>24 DEF SwapDone, SwapAllowed, SwapEnds, Wanted, Held, Leave, GateAfterSwap
<1>25. ASSUME NEW t \in Tasks, SwapRefused(t) PROVE Bound'
  BY <1>25 DEF SwapRefused, SwapEnds, Wanted, Held, Leave
<1>26. ASSUME NEW t \in Tasks, NEW e \in BOOLEAN, AcloseStart(t, e) PROVE Bound'
  BY <1>26 DEF AcloseStart, CallsAclose, Closes
<1>27. ASSUME NEW t \in Tasks, ReadCurrent(t) PROVE Bound'
  BY <1>27 DEF ReadCurrent
<1>28. ASSUME NEW t \in Tasks, DrainCurrent(t) PROVE Bound'
  BY <1>28 DEF DrainCurrent, Acquire, Free
<1>29. ASSUME NEW t \in Tasks, CurrentIsClosed(t) PROVE Bound'
  BY <1>29 DEF CurrentIsClosed, Free
<1>30. ASSUME NEW t \in Tasks, CloseGate(t) PROVE Bound'
  BY <1>30 DEF CloseGate, Release, GateInDrain
<1>31. ASSUME NEW t \in Tasks, ManagerClosed(t) PROVE Bound'
  BY <1>31 DEF ManagerClosed
<1>32. ASSUME NEW t \in Tasks, ResetClose(t) PROVE Bound'
  BY <1>32 DEF ResetClose, Announce, Leave
<1>33. ASSUME NEW t \in Tasks, ClearClient(t) PROVE Bound'
  BY <1>33 DEF ClearClient
<1>34. ASSUME NEW t \in Tasks, PublishClose(t) PROVE Bound'
  BY <1>34 DEF PublishClose, Announce, Leave
<1>35. CASE UNCHANGED cvars
  BY <1>35 DEF cvars, vars, clientVars, closeVars, Quiet
<1> HIDE DEF Bound, ControlTypes
<1>36. ASSUME NEW t \in Tasks, ManagerOps(t) PROVE Bound'
  BY <1>36, <1>4, <1>5, <1>6, <1>7, <1>8, <1>9, <1>10, <1>11, <1>12, <1>13, <1>14, <1>15, <1>16,
    <1>17, <1>18 DEF ManagerOps
<1>37. ASSUME NEW t \in Tasks, ClientOps(t) PROVE Bound'
  BY <1>37, <1>19, <1>20, <1>21, <1>22, <1>23, <1>24, <1>25, <1>26, <1>27, <1>28, <1>29, <1>30,
    <1>31, <1>32, <1>33, <1>34 DEF ClientOps
<1> QED
  BY <1>1, <1>2, <1>3, <1>35, <1>36, <1>37, ClientCases, QuietIsQuiet, GrowOpsGrow, MoveOpsMove

\* The calls' invariant is inductive.
LEMMA CallStep == CallInv /\ [ClientNext]_cvars => CallInv'
BY FieldsStep, BindStep DEF Bound, ClientFields, CallInv, ClientTypeOK

\* On ranks, at most and different is less.
LEMMA BelowIsLess ==
  ASSUME NEW a \in Int, NEW b \in Int, a <= b, a # b
  PROVE  a < b
OBVIOUS

\* The transition locks follow the calls that hold them.
LEMMA HolderStep ==
  ASSUME CallInv, HolderInv, [ClientNext]_cvars
  PROVE  HolderInv'
<1>0. ControlTypes /\ Bound
  BY Controlled
<1> USE PMAssumption, CLAssumption, <1>0 DEF PMAssumption, ControlTypes, States, ReturnInv,
  Bound, ClientLabels, Labels, Worker, Unbound, Setting, mgrVars, stopVars, gateVars, callVars,
  workVars, clientVars, closeVars, Goto, Quiet, CLAssumption, LockHolder, HolderInv, Wanted
<1>1. CASE Quiet
  BY <1>1 DEF Quiet
<1>2. ASSUME NEW m \in Managers, Grows(m) PROVE HolderInv'
  BY <1>2 DEF Grows, LoadAllowed, AfterLoad
<1>3. ASSUME NEW t \in Tasks, Moves(t) PROVE HolderInv'
  BY <1>3 DEF Moves, Harmless
<1>4. ASSUME NEW t \in Tasks, NEW m \in Managers, NEW mode \in Setting, UNCHANGED clientVars,
      pc[t] \in {"idle", "settingUp"}, SetupBegins(t, m, mode) PROVE HolderInv'
  BY <1>4 DEF SetupBegins, Acquire, Free, SetupAllowed, Setting
<1>5. ASSUME NEW t \in Tasks, NEW m \in Managers, UNCHANGED clientVars, Activate(t, m) PROVE
      HolderInv'
  BY <1>5 DEF Activate, Acquire, Free
<1>6. ASSUME NEW t \in Tasks, NEW m \in Managers, UNCHANGED clientVars, ShutdownReported(t, m)
      PROVE HolderInv'
  BY <1>6 DEF ShutdownReported, CallsShutdown, Free, Leave
<1>7. ASSUME NEW t \in Tasks, NEW m \in Managers, UNCHANGED clientVars, ShutdownJoin(t, m) PROVE
      HolderInv'
  BY <1>7 DEF ShutdownJoin, CallsShutdown, Free
<1>8. ASSUME NEW t \in Tasks, NEW m \in Managers, UNCHANGED clientVars, ShutdownStart(t, m)
      PROVE HolderInv'
  BY <1>8 DEF ShutdownStart, CallsShutdown, Starts, Acquire, Free
<1>9. ASSUME NEW t \in Tasks, UNCHANGED clientVars, SetupFail(t) PROVE HolderInv'
  BY <1>9 DEF SetupFail, Release, Leave
<1>10. ASSUME NEW t \in Tasks, UNCHANGED clientVars, SetupActivate(t) PROVE HolderInv'
  BY <1>10 DEF SetupActivate
<1>11. ASSUME NEW t \in Tasks, UNCHANGED clientVars, SetupStage(t) PROVE HolderInv'
  BY <1>11 DEF SetupStage, Release, Leave
<1>12. ASSUME NEW t \in Tasks, UNCHANGED clientVars, Enable(t) PROVE HolderInv'
  BY <1>12 DEF Enable, Release, Leave
<1>13. ASSUME NEW t \in Tasks, UNCHANGED clientVars, Disable(t) PROVE HolderInv'
  BY <1>13 DEF Disable, Release, GateInDrain
<1>14. ASSUME NEW t \in Tasks, UNCHANGED clientVars, DrainTimeout(t) PROVE HolderInv'
  BY <1>14 DEF DrainTimeout, Leave
<1>15. ASSUME NEW t \in Tasks, NEW e \in BOOLEAN, UNCHANGED clientVars, FinishShutdown(t, e)
      PROVE HolderInv'
  BY <1>15 DEF FinishShutdown, Leave
<1>16. ASSUME NEW t \in Tasks, UNCHANGED clientVars, WaiterReturns(t) PROVE HolderInv'
  BY <1>16 DEF WaiterReturns, Leave
<1>17. ASSUME NEW t \in Tasks, UNCHANGED clientVars, CancelWorker(t) PROVE HolderInv'
  BY <1>17 DEF CancelWorker, Leave
<1>18. ASSUME NEW t \in Tasks, UNCHANGED clientVars, CancelWaiter(t) PROVE HolderInv'
  BY <1>18 DEF CancelWaiter, Leave
<1>19. ASSUME NEW t \in Tasks, NEW m \in Managers, BuildManager(t, m) PROVE HolderInv'
  BY <1>19 DEF BuildManager
<1>20. ASSUME NEW t \in Tasks, StoreManager(t) PROVE HolderInv'
  BY <1>20 DEF StoreManager
<1>21. ASSUME NEW t \in Tasks, LoadFolders(t) PROVE HolderInv'
  BY <1>21 DEF LoadFolders, AddNothing, AddPlugin, AfterLoad, LoadAllowed, Free
<1>22. ASSUME NEW t \in Tasks, NEW new \in Managers, NEW exp \in Managers \union {NoManager},
      Swap(t, new, exp) PROVE HolderInv'
  BY <1>22 DEF Swap
<1>23. ASSUME NEW t \in Tasks, NEW m \in Managers, SwapLock(t, m) PROVE HolderInv'
  <2>1. /\ pc[t] = "swapping" /\ tlock[m] = NoTask /\ m \in Wanted(t)
        /\ \A n \in Wanted(t) : tlock[n] # t => Rank[m] <= Rank[n]
    BY <1>23 DEF SwapLock, NextLock, Held, Free
  <2>2. tlock' = [tlock EXCEPT ![m] = t] /\ UNCHANGED <<pc, mgr, expected>>
    BY <1>23 DEF SwapLock, Acquire
  <2>3. \A u \in Tasks \ {t}, n \in Managers : tlock'[n] = u <=> tlock[n] = u
    BY <2>1, <2>2
  <2>4. ASSUME NEW u \in Tasks, pc[u] \in LockHolder PROVE tlock'[mgr[u]] = u
    BY <2>1, <2>3, <2>4
  <2>5. ASSUME NEW n \in Managers, tlock'[n] = t, NEW x \in Wanted(t), tlock'[x] # t
        PROVE  Rank[n] < Rank[x]
    <3>1. tlock[x] # t /\ x # m /\ x \in Managers
      BY <2>2, <2>5
    <3>2. Rank[m] < Rank[x]
      <4>1. Rank[m] \in Int /\ Rank[x] \in Int
        BY <3>1
      <4>2. Rank[m] <= Rank[x] /\ Rank[m] # Rank[x]
        BY <2>1, <3>1
      <4> QED
        BY <4>1, <4>2, BelowIsLess
    <3>3. CASE n = m
      BY <3>2, <3>3
    <3>4. CASE n # m
      BY <2>1, <2>2, <2>5, <3>1, <3>4
    <3> QED
      BY <3>3, <3>4
  <2>6. ASSUME NEW n \in Managers, tlock'[n] = t PROVE n \in Wanted(t)
    BY <2>1, <2>2, <2>6
  <2> QED
    BY <2>1, <2>2, <2>3, <2>4, <2>5, <2>6
<1>24. ASSUME NEW t \in Tasks, SwapDone(t) PROVE HolderInv'
  <2>1. /\ pc' = [pc EXCEPT ![t] = "idle"] /\ mgr' = [mgr EXCEPT ![t] = NoManager]
        /\ expected' = [expected EXCEPT ![t] = NoManager]
    BY <1>24 DEF SwapDone, SwapEnds, Leave
  <2>2. \A m \in Managers : tlock'[m] = IF tlock[m] = t THEN NoTask ELSE tlock[m]
    BY <1>24 DEF SwapDone, SwapEnds, Held
  <2> QED
    BY <2>1, <2>2
<1>25. ASSUME NEW t \in Tasks, SwapRefused(t) PROVE HolderInv'
  <2>1. /\ pc' = [pc EXCEPT ![t] = "idle"] /\ mgr' = [mgr EXCEPT ![t] = NoManager]
        /\ expected' = [expected EXCEPT ![t] = NoManager]
    BY <1>25 DEF SwapRefused, SwapEnds, Leave
  <2>2. \A m \in Managers : tlock'[m] = IF tlock[m] = t THEN NoTask ELSE tlock[m]
    BY <1>25 DEF SwapRefused, SwapEnds, Held
  <2> QED
    BY <2>1, <2>2
<1>26. ASSUME NEW t \in Tasks, NEW e \in BOOLEAN, AcloseStart(t, e) PROVE HolderInv'
  BY <1>26 DEF AcloseStart, CallsAclose, Closes
<1>27. ASSUME NEW t \in Tasks, ReadCurrent(t) PROVE HolderInv'
  BY <1>27 DEF ReadCurrent
<1>28. ASSUME NEW t \in Tasks, DrainCurrent(t) PROVE HolderInv'
  BY <1>28 DEF DrainCurrent, Acquire, Free
<1>29. ASSUME NEW t \in Tasks, CurrentIsClosed(t) PROVE HolderInv'
  BY <1>29 DEF CurrentIsClosed, Free
<1>30. ASSUME NEW t \in Tasks, CloseGate(t) PROVE HolderInv'
  BY <1>30 DEF CloseGate, Release, GateInDrain
<1>31. ASSUME NEW t \in Tasks, ManagerClosed(t) PROVE HolderInv'
  BY <1>31 DEF ManagerClosed
<1>32. ASSUME NEW t \in Tasks, ResetClose(t) PROVE HolderInv'
  BY <1>32 DEF ResetClose, Announce, Leave
<1>33. ASSUME NEW t \in Tasks, ClearClient(t) PROVE HolderInv'
  BY <1>33 DEF ClearClient
<1>34. ASSUME NEW t \in Tasks, PublishClose(t) PROVE HolderInv'
  BY <1>34 DEF PublishClose, Announce, Leave
<1>35. CASE UNCHANGED cvars
  BY <1>35 DEF cvars, vars, clientVars, closeVars, Quiet
<1> HIDE DEF HolderInv, ControlTypes, Bound
<1>36. ASSUME NEW t \in Tasks, ManagerOps(t) PROVE HolderInv'
  BY <1>36, <1>4, <1>5, <1>6, <1>7, <1>8, <1>9, <1>10, <1>11, <1>12, <1>13, <1>14, <1>15, <1>16,
    <1>17, <1>18 DEF ManagerOps
<1>37. ASSUME NEW t \in Tasks, ClientOps(t) PROVE HolderInv'
  BY <1>37, <1>19, <1>20, <1>21, <1>22, <1>23, <1>24, <1>25, <1>26, <1>27, <1>28, <1>29, <1>30,
    <1>31, <1>32, <1>33, <1>34 DEF ClientOps
<1> QED
  BY <1>1, <1>2, <1>3, <1>35, <1>36, <1>37, ClientCases, QuietIsQuiet, GrowOpsGrow, MoveOpsMove

\* The state of a manager agrees with the calls in progress on it.
LEMMA ProgressStep ==
  ASSUME CallInv, HolderInv, ProgressInv, OneWorkerInv, [ClientNext]_cvars
  PROVE  ProgressInv'
<1>0. ControlTypes /\ Bound
  BY Controlled
<1> USE PMAssumption, <1>0 DEF PMAssumption, ControlTypes, States, ReturnInv, Bound,
  ClientLabels, Labels, Worker, Unbound, Setting, mgrVars, stopVars, gateVars, callVars,
  workVars, clientVars, closeVars, Goto, Quiet, LockHolder, HolderInv, ProgressInv
<1>1. CASE Quiet
  BY <1>1 DEF Quiet
<1>2. ASSUME NEW m \in Managers, Grows(m) PROVE ProgressInv'
  BY <1>2 DEF Grows, LoadAllowed, AfterLoad
<1>3. ASSUME NEW t \in Tasks, Moves(t) PROVE ProgressInv'
  BY <1>3 DEF Moves, Harmless
<1>4. ASSUME NEW t \in Tasks, NEW m \in Managers, NEW mode \in Setting, UNCHANGED clientVars,
      pc[t] \in {"idle", "settingUp"}, SetupBegins(t, m, mode) PROVE ProgressInv'
  BY <1>4 DEF SetupBegins, Acquire, Free, SetupAllowed, Setting
<1>5. ASSUME NEW t \in Tasks, NEW m \in Managers, UNCHANGED clientVars, Activate(t, m) PROVE
      ProgressInv'
  BY <1>5 DEF Activate, Acquire, Free
<1>6. ASSUME NEW t \in Tasks, NEW m \in Managers, UNCHANGED clientVars, ShutdownReported(t, m)
      PROVE ProgressInv'
  BY <1>6 DEF ShutdownReported, CallsShutdown, Free, Leave
<1>7. ASSUME NEW t \in Tasks, NEW m \in Managers, UNCHANGED clientVars, ShutdownJoin(t, m) PROVE
      ProgressInv'
  BY <1>7 DEF ShutdownJoin, CallsShutdown, Free
<1>8. ASSUME NEW t \in Tasks, NEW m \in Managers, UNCHANGED clientVars, ShutdownStart(t, m)
      PROVE ProgressInv'
  <2>1. /\ report[m] = "none" /\ tlock[m] = NoTask
        /\ pc' = [pc EXCEPT ![t] = "disabling"] /\ mgr' = [mgr EXCEPT ![t] = m]
        /\ started' = [started EXCEPT ![m] = TRUE] /\ state' = [state EXCEPT ![m] = "draining"]
        /\ UNCHANGED report
    BY <1>8 DEF ShutdownStart, CallsShutdown, Starts, Free
  <2>2. \A u \in Tasks : pc[u] \in LockHolder => mgr[u] # m
    BY <2>1
  <2> QED
    BY <2>1, <2>2
<1>9. ASSUME NEW t \in Tasks, UNCHANGED clientVars, SetupFail(t) PROVE ProgressInv'
  <2>1. mgr[t] \in Managers /\ tlock[mgr[t]] = t /\ state[mgr[t]] \notin {"closed", "draining"}
    BY <1>9 DEF SetupFail
  <2>2. \A u \in Tasks \ {t} : pc[u] \in LockHolder => mgr[u] # mgr[t]
    BY <2>1
  <2>3. \A u \in Tasks \ {t} : pc[u] \in Worker => mgr[u] # mgr[t]
    BY <2>1
  <2> QED
    BY <1>9, <2>1, <2>2, <2>3 DEF SetupFail, Leave
<1>10. ASSUME NEW t \in Tasks, UNCHANGED clientVars, SetupActivate(t) PROVE ProgressInv'
  BY <1>10 DEF SetupActivate
<1>11. ASSUME NEW t \in Tasks, UNCHANGED clientVars, SetupStage(t) PROVE ProgressInv'
  BY <1>11 DEF SetupStage, Release, Leave
<1>12. ASSUME NEW t \in Tasks, UNCHANGED clientVars, Enable(t) PROVE ProgressInv'
  BY <1>12 DEF Enable, Release, Leave
<1>13. ASSUME NEW t \in Tasks, UNCHANGED clientVars, Disable(t) PROVE ProgressInv'
  BY <1>13 DEF Disable, Release, GateInDrain
<1>14. ASSUME NEW t \in Tasks, UNCHANGED clientVars, DrainTimeout(t) PROVE ProgressInv'
  <2>1. mgr[t] \in Managers /\ pc[t] \in Worker
    BY <1>14 DEF DrainTimeout
  <2>2. \A u \in Tasks \ {t} : pc[u] \in Worker => mgr[u] # mgr[t]
    BY <2>1 DEF OneWorkerInv
  <2>3. \A u \in Tasks \ {t} : pc[u] \in Setting \union {"enabling"} => mgr[u] # mgr[t]
    BY <2>1
  <2> QED
    BY <1>14, <2>1, <2>2, <2>3 DEF DrainTimeout, Leave
<1>15. ASSUME NEW t \in Tasks, NEW e \in BOOLEAN, UNCHANGED clientVars, FinishShutdown(t, e)
      PROVE ProgressInv'
  <2>1. mgr[t] \in Managers /\ pc[t] \in Worker
    BY <1>15 DEF FinishShutdown
  <2>2. \A u \in Tasks \ {t} : pc[u] \in Worker => mgr[u] # mgr[t]
    BY <2>1 DEF OneWorkerInv
  <2>3. \A u \in Tasks \ {t} : pc[u] \in Setting \union {"enabling"} => mgr[u] # mgr[t]
    BY <2>1
  <2> QED
    BY <1>15, <2>1, <2>2, <2>3 DEF FinishShutdown, Leave
<1>16. ASSUME NEW t \in Tasks, UNCHANGED clientVars, WaiterReturns(t) PROVE ProgressInv'
  BY <1>16 DEF WaiterReturns, Leave
<1>17. ASSUME NEW t \in Tasks, UNCHANGED clientVars, CancelWorker(t) PROVE ProgressInv'
  <2>1. mgr[t] \in Managers /\ pc[t] \in Worker
    BY <1>17 DEF CancelWorker
  <2>2. \A u \in Tasks \ {t} : pc[u] \in Worker => mgr[u] # mgr[t]
    BY <2>1 DEF OneWorkerInv
  <2>3. \A u \in Tasks \ {t} : pc[u] \in Setting \union {"enabling"} => mgr[u] # mgr[t]
    BY <2>1
  <2> QED
    BY <1>17, <2>1, <2>2, <2>3 DEF CancelWorker, Leave
<1>18. ASSUME NEW t \in Tasks, UNCHANGED clientVars, CancelWaiter(t) PROVE ProgressInv'
  BY <1>18 DEF CancelWaiter, Leave
<1>19. ASSUME NEW t \in Tasks, NEW m \in Managers, BuildManager(t, m) PROVE ProgressInv'
  BY <1>19 DEF BuildManager
<1>20. ASSUME NEW t \in Tasks, StoreManager(t) PROVE ProgressInv'
  BY <1>20 DEF StoreManager
<1>21. ASSUME NEW t \in Tasks, LoadFolders(t) PROVE ProgressInv'
  BY <1>21 DEF LoadFolders, AddNothing, AddPlugin, AfterLoad, LoadAllowed, Free
<1>22. ASSUME NEW t \in Tasks, NEW new \in Managers, NEW exp \in Managers \union {NoManager},
      Swap(t, new, exp) PROVE ProgressInv'
  BY <1>22 DEF Swap
<1>23. ASSUME NEW t \in Tasks, NEW m \in Managers, SwapLock(t, m) PROVE ProgressInv'
  BY <1>23 DEF SwapLock, NextLock, Wanted, Held, Free, Acquire
<1>24. ASSUME NEW t \in Tasks, SwapDone(t) PROVE ProgressInv'
  <2>1. /\ pc[t] = "swapping" /\ state[mgr[t]] = "staged" /\ mgr[t] \in Managers
        /\ expected[t] # NoManager => state[expected[t]] = "active"
    BY <1>24 DEF SwapDone, SwapAllowed
  <2>2. tlock[mgr[t]] = t /\ (expected[t] # NoManager => tlock[expected[t]] = t)
    BY <1>24, <2>1 DEF SwapDone, SwapEnds, Wanted, Held
  <2>3. \A u \in Tasks : pc[u] \in LockHolder \union Worker =>
          mgr[u] \in Managers /\ mgr[u] # mgr[t] /\ mgr[u] # expected[t]
    BY <2>1, <2>2
  <2>4. state' = [m \in Managers |-> IF m = mgr[t] THEN "active"
                                     ELSE IF m = expected[t] THEN "draining" ELSE state[m]]
    BY <1>24 DEF SwapDone
  <2>5. /\ pc' = [pc EXCEPT ![t] = "idle"] /\ mgr' = [mgr EXCEPT ![t] = NoManager]
        /\ UNCHANGED <<started, report>>
    BY <1>24 DEF SwapDone, SwapEnds, Leave
  <2>6. \A m \in Managers : state'[m] = "closed" <=> report'[m] # "none"
    BY <2>1, <2>4, <2>5
  <2> QED
    BY <2>3, <2>4, <2>5, <2>6
<1>25. ASSUME NEW t \in Tasks, SwapRefused(t) PROVE ProgressInv'
  BY <1>25 DEF SwapRefused, SwapEnds, Wanted, Held, Leave
<1>26. ASSUME NEW t \in Tasks, NEW e \in BOOLEAN, AcloseStart(t, e) PROVE ProgressInv'
  BY <1>26 DEF AcloseStart, CallsAclose, Closes
<1>27. ASSUME NEW t \in Tasks, ReadCurrent(t) PROVE ProgressInv'
  BY <1>27 DEF ReadCurrent
<1>28. ASSUME NEW t \in Tasks, DrainCurrent(t) PROVE ProgressInv'
  BY <1>28 DEF DrainCurrent, Acquire, Free
<1>29. ASSUME NEW t \in Tasks, CurrentIsClosed(t) PROVE ProgressInv'
  BY <1>29 DEF CurrentIsClosed, Free
<1>30. ASSUME NEW t \in Tasks, CloseGate(t) PROVE ProgressInv'
  BY <1>30 DEF CloseGate, Release, GateInDrain
<1>31. ASSUME NEW t \in Tasks, ManagerClosed(t) PROVE ProgressInv'
  BY <1>31 DEF ManagerClosed
<1>32. ASSUME NEW t \in Tasks, ResetClose(t) PROVE ProgressInv'
  BY <1>32 DEF ResetClose, Announce, Leave
<1>33. ASSUME NEW t \in Tasks, ClearClient(t) PROVE ProgressInv'
  BY <1>33 DEF ClearClient
<1>34. ASSUME NEW t \in Tasks, PublishClose(t) PROVE ProgressInv'
  BY <1>34 DEF PublishClose, Announce, Leave
<1>35. CASE UNCHANGED cvars
  BY <1>35 DEF cvars, vars, clientVars, closeVars, Quiet
<1> HIDE DEF ProgressInv, HolderInv, ControlTypes, Bound
<1>36. ASSUME NEW t \in Tasks, ManagerOps(t) PROVE ProgressInv'
  BY <1>36, <1>4, <1>5, <1>6, <1>7, <1>8, <1>9, <1>10, <1>11, <1>12, <1>13, <1>14, <1>15, <1>16,
    <1>17, <1>18 DEF ManagerOps
<1>37. ASSUME NEW t \in Tasks, ClientOps(t) PROVE ProgressInv'
  BY <1>37, <1>19, <1>20, <1>21, <1>22, <1>23, <1>24, <1>25, <1>26, <1>27, <1>28, <1>29, <1>30,
    <1>31, <1>32, <1>33, <1>34 DEF ClientOps
<1> QED
  BY <1>1, <1>2, <1>3, <1>35, <1>36, <1>37, ClientCases, QuietIsQuiet, GrowOpsGrow, MoveOpsMove

\* A manager has at most one worker, and has one until its shutdown is over.
LEMMA OneWorkerStep ==
  ASSUME CallInv, HolderInv, ProgressInv, OneWorkerInv, [ClientNext]_cvars
  PROVE  OneWorkerInv'
<1>0. ControlTypes /\ Bound
  BY Controlled
<1> USE PMAssumption, <1>0 DEF PMAssumption, ControlTypes, States, ReturnInv, Bound,
  ClientLabels, Labels, Worker, Unbound, Setting, mgrVars, stopVars, gateVars, callVars,
  workVars, clientVars, closeVars, Goto, Quiet, LockHolder, ProgressInv, OneWorkerInv
<1>1. CASE Quiet
  BY <1>1 DEF Quiet
<1>2. ASSUME NEW m \in Managers, Grows(m) PROVE OneWorkerInv'
  BY <1>2 DEF Grows, LoadAllowed, AfterLoad
<1>3. ASSUME NEW t \in Tasks, Moves(t) PROVE OneWorkerInv'
  BY <1>3 DEF Moves, Harmless
<1>4. ASSUME NEW t \in Tasks, NEW m \in Managers, NEW mode \in Setting, UNCHANGED clientVars,
      pc[t] \in {"idle", "settingUp"}, SetupBegins(t, m, mode) PROVE OneWorkerInv'
  BY <1>4 DEF SetupBegins, Acquire, Free, SetupAllowed, Setting
<1>5. ASSUME NEW t \in Tasks, NEW m \in Managers, UNCHANGED clientVars, Activate(t, m) PROVE
      OneWorkerInv'
  BY <1>5 DEF Activate, Acquire, Free
<1>6. ASSUME NEW t \in Tasks, NEW m \in Managers, UNCHANGED clientVars, ShutdownReported(t, m)
      PROVE OneWorkerInv'
  BY <1>6 DEF ShutdownReported, CallsShutdown, Free, Leave
<1>7. ASSUME NEW t \in Tasks, NEW m \in Managers, UNCHANGED clientVars, ShutdownJoin(t, m) PROVE
      OneWorkerInv'
  BY <1>7 DEF ShutdownJoin, CallsShutdown, Free
<1>8. ASSUME NEW t \in Tasks, NEW m \in Managers, UNCHANGED clientVars, ShutdownStart(t, m)
      PROVE OneWorkerInv'
  BY <1>8 DEF ShutdownStart, CallsShutdown, Starts, Acquire, Free
<1>9. ASSUME NEW t \in Tasks, UNCHANGED clientVars, SetupFail(t) PROVE OneWorkerInv'
  BY <1>9 DEF SetupFail, Release, Leave
<1>10. ASSUME NEW t \in Tasks, UNCHANGED clientVars, SetupActivate(t) PROVE OneWorkerInv'
  BY <1>10 DEF SetupActivate
<1>11. ASSUME NEW t \in Tasks, UNCHANGED clientVars, SetupStage(t) PROVE OneWorkerInv'
  BY <1>11 DEF SetupStage, Release, Leave
<1>12. ASSUME NEW t \in Tasks, UNCHANGED clientVars, Enable(t) PROVE OneWorkerInv'
  BY <1>12 DEF Enable, Release, Leave
<1>13. ASSUME NEW t \in Tasks, UNCHANGED clientVars, Disable(t) PROVE OneWorkerInv'
  BY <1>13 DEF Disable, Release, GateInDrain
<1>14. ASSUME NEW t \in Tasks, UNCHANGED clientVars, DrainTimeout(t) PROVE OneWorkerInv'
  BY <1>14 DEF DrainTimeout, Leave
<1>15. ASSUME NEW t \in Tasks, NEW e \in BOOLEAN, UNCHANGED clientVars, FinishShutdown(t, e)
      PROVE OneWorkerInv'
  BY <1>15 DEF FinishShutdown, Leave
<1>16. ASSUME NEW t \in Tasks, UNCHANGED clientVars, WaiterReturns(t) PROVE OneWorkerInv'
  BY <1>16 DEF WaiterReturns, Leave
<1>17. ASSUME NEW t \in Tasks, UNCHANGED clientVars, CancelWorker(t) PROVE OneWorkerInv'
  <2>0. PICK m \in Managers : m = mgr[t]
    BY <1>17 DEF CancelWorker
  <2>1. mgr[t] \in Managers /\ pc[t] \in Worker /\ report[mgr[t]] = "none"
    BY <1>17, <2>0 DEF CancelWorker
  <2>2. \A u \in Tasks \ {t} : pc[u] \in Worker => mgr[u] # mgr[t]
    BY <2>1
  <2>3. ~started'[m] /\ \A x \in Managers \ {m} : started'[x] = started[x]
    <3>1. started' = [started EXCEPT ![m] = report[m] # "none"]
      BY <1>17, <2>0 DEF CancelWorker
    <3>2. started'[m] = (report[m] # "none")
      BY <3>1
    <3>3. (report[m] # "none") = FALSE
      BY <2>0, <2>1
    <3>4. started'[m] = FALSE
      BY <3>2, <3>3
    <3> QED
      BY <3>1, <3>4
  <2>4. /\ UNCHANGED report /\ pc'[t] \notin Worker
        /\ \A u \in Tasks \ {t} : pc'[u] = pc[u] /\ mgr'[u] = mgr[u]
    BY <1>17, <2>1 DEF CancelWorker, Leave
  <2> QED
    BY <2>0, <2>1, <2>2, <2>3, <2>4
<1>18. ASSUME NEW t \in Tasks, UNCHANGED clientVars, CancelWaiter(t) PROVE OneWorkerInv'
  BY <1>18 DEF CancelWaiter, Leave
<1>19. ASSUME NEW t \in Tasks, NEW m \in Managers, BuildManager(t, m) PROVE OneWorkerInv'
  BY <1>19 DEF BuildManager
<1>20. ASSUME NEW t \in Tasks, StoreManager(t) PROVE OneWorkerInv'
  BY <1>20 DEF StoreManager
<1>21. ASSUME NEW t \in Tasks, LoadFolders(t) PROVE OneWorkerInv'
  BY <1>21 DEF LoadFolders, AddNothing, AddPlugin, AfterLoad, LoadAllowed, Free
<1>22. ASSUME NEW t \in Tasks, NEW new \in Managers, NEW exp \in Managers \union {NoManager},
      Swap(t, new, exp) PROVE OneWorkerInv'
  BY <1>22 DEF Swap
<1>23. ASSUME NEW t \in Tasks, NEW m \in Managers, SwapLock(t, m) PROVE OneWorkerInv'
  BY <1>23 DEF SwapLock, NextLock, Wanted, Held, Free, Acquire
<1>24. ASSUME NEW t \in Tasks, SwapDone(t) PROVE OneWorkerInv'
  BY <1>24 DEF SwapDone, SwapAllowed, SwapEnds, Wanted, Held, Leave, GateAfterSwap
<1>25. ASSUME NEW t \in Tasks, SwapRefused(t) PROVE OneWorkerInv'
  BY <1>25 DEF SwapRefused, SwapEnds, Wanted, Held, Leave
<1>26. ASSUME NEW t \in Tasks, NEW e \in BOOLEAN, AcloseStart(t, e) PROVE OneWorkerInv'
  BY <1>26 DEF AcloseStart, CallsAclose, Closes
<1>27. ASSUME NEW t \in Tasks, ReadCurrent(t) PROVE OneWorkerInv'
  BY <1>27 DEF ReadCurrent
<1>28. ASSUME NEW t \in Tasks, DrainCurrent(t) PROVE OneWorkerInv'
  BY <1>28 DEF DrainCurrent, Acquire, Free
<1>29. ASSUME NEW t \in Tasks, CurrentIsClosed(t) PROVE OneWorkerInv'
  BY <1>29 DEF CurrentIsClosed, Free
<1>30. ASSUME NEW t \in Tasks, CloseGate(t) PROVE OneWorkerInv'
  BY <1>30 DEF CloseGate, Release, GateInDrain
<1>31. ASSUME NEW t \in Tasks, ManagerClosed(t) PROVE OneWorkerInv'
  BY <1>31 DEF ManagerClosed
<1>32. ASSUME NEW t \in Tasks, ResetClose(t) PROVE OneWorkerInv'
  BY <1>32 DEF ResetClose, Announce, Leave
<1>33. ASSUME NEW t \in Tasks, ClearClient(t) PROVE OneWorkerInv'
  BY <1>33 DEF ClearClient
<1>34. ASSUME NEW t \in Tasks, PublishClose(t) PROVE OneWorkerInv'
  BY <1>34 DEF PublishClose, Announce, Leave
<1>35. CASE UNCHANGED cvars
  BY <1>35 DEF cvars, vars, clientVars, closeVars, Quiet
<1> HIDE DEF ProgressInv, OneWorkerInv, ControlTypes, Bound
<1>36. ASSUME NEW t \in Tasks, ManagerOps(t) PROVE OneWorkerInv'
  BY <1>36, <1>4, <1>5, <1>6, <1>7, <1>8, <1>9, <1>10, <1>11, <1>12, <1>13, <1>14, <1>15, <1>16,
    <1>17, <1>18 DEF ManagerOps
<1>37. ASSUME NEW t \in Tasks, ClientOps(t) PROVE OneWorkerInv'
  BY <1>37, <1>19, <1>20, <1>21, <1>22, <1>23, <1>24, <1>25, <1>26, <1>27, <1>28, <1>29, <1>30,
    <1>31, <1>32, <1>33, <1>34 DEF ClientOps
<1> QED
  BY <1>1, <1>2, <1>3, <1>35, <1>36, <1>37, ClientCases, QuietIsQuiet, GrowOpsGrow, MoveOpsMove

\* The Client has at most one closer, the task that has started it.
LEMMA CloserStep ==
  ASSUME CallInv, CloserInv, [ClientNext]_cvars
  PROVE  CloserInv'
<1>0. ControlTypes /\ Bound
  BY Controlled
<1> USE PMAssumption, <1>0 DEF PMAssumption, ControlTypes, States, ReturnInv, Bound,
  ClientLabels, Labels, Worker, Unbound, Setting, mgrVars, stopVars, gateVars, callVars,
  workVars, clientVars, closeVars, Goto, Quiet, Closing, CloserInv
<1>1. CASE Quiet
  BY <1>1 DEF Quiet
<1>2. ASSUME NEW m \in Managers, Grows(m) PROVE CloserInv'
  BY <1>2 DEF Grows, LoadAllowed, AfterLoad
<1>3. ASSUME NEW t \in Tasks, Moves(t) PROVE CloserInv'
  BY <1>3 DEF Moves, Harmless
<1>4. ASSUME NEW t \in Tasks, NEW m \in Managers, NEW mode \in Setting, UNCHANGED clientVars,
      pc[t] \in {"idle", "settingUp"}, SetupBegins(t, m, mode) PROVE CloserInv'
  BY <1>4 DEF SetupBegins, Acquire, Free, SetupAllowed, Setting
<1>5. ASSUME NEW t \in Tasks, NEW m \in Managers, UNCHANGED clientVars, Activate(t, m) PROVE
      CloserInv'
  BY <1>5 DEF Activate, Acquire, Free
<1>6. ASSUME NEW t \in Tasks, NEW m \in Managers, UNCHANGED clientVars, ShutdownReported(t, m)
      PROVE CloserInv'
  BY <1>6 DEF ShutdownReported, CallsShutdown, Free, Leave
<1>7. ASSUME NEW t \in Tasks, NEW m \in Managers, UNCHANGED clientVars, ShutdownJoin(t, m) PROVE
      CloserInv'
  BY <1>7 DEF ShutdownJoin, CallsShutdown, Free
<1>8. ASSUME NEW t \in Tasks, NEW m \in Managers, UNCHANGED clientVars, ShutdownStart(t, m)
      PROVE CloserInv'
  BY <1>8 DEF ShutdownStart, CallsShutdown, Starts, Acquire, Free
<1>9. ASSUME NEW t \in Tasks, UNCHANGED clientVars, SetupFail(t) PROVE CloserInv'
  BY <1>9 DEF SetupFail, Release, Leave
<1>10. ASSUME NEW t \in Tasks, UNCHANGED clientVars, SetupActivate(t) PROVE CloserInv'
  BY <1>10 DEF SetupActivate
<1>11. ASSUME NEW t \in Tasks, UNCHANGED clientVars, SetupStage(t) PROVE CloserInv'
  BY <1>11 DEF SetupStage, Release, Leave
<1>12. ASSUME NEW t \in Tasks, UNCHANGED clientVars, Enable(t) PROVE CloserInv'
  BY <1>12 DEF Enable, Release, Leave
<1>13. ASSUME NEW t \in Tasks, UNCHANGED clientVars, Disable(t) PROVE CloserInv'
  BY <1>13 DEF Disable, Release, GateInDrain
<1>14. ASSUME NEW t \in Tasks, UNCHANGED clientVars, DrainTimeout(t) PROVE CloserInv'
  BY <1>14 DEF DrainTimeout, Leave
<1>15. ASSUME NEW t \in Tasks, NEW e \in BOOLEAN, UNCHANGED clientVars, FinishShutdown(t, e)
      PROVE CloserInv'
  BY <1>15 DEF FinishShutdown, Leave
<1>16. ASSUME NEW t \in Tasks, UNCHANGED clientVars, WaiterReturns(t) PROVE CloserInv'
  BY <1>16 DEF WaiterReturns, Leave
<1>17. ASSUME NEW t \in Tasks, UNCHANGED clientVars, CancelWorker(t) PROVE CloserInv'
  BY <1>17 DEF CancelWorker, Leave
<1>18. ASSUME NEW t \in Tasks, UNCHANGED clientVars, CancelWaiter(t) PROVE CloserInv'
  BY <1>18 DEF CancelWaiter, Leave
<1>19. ASSUME NEW t \in Tasks, NEW m \in Managers, BuildManager(t, m) PROVE CloserInv'
  BY <1>19 DEF BuildManager
<1>20. ASSUME NEW t \in Tasks, StoreManager(t) PROVE CloserInv'
  BY <1>20 DEF StoreManager
<1>21. ASSUME NEW t \in Tasks, LoadFolders(t) PROVE CloserInv'
  BY <1>21 DEF LoadFolders, AddNothing, AddPlugin, AfterLoad, LoadAllowed, Free
<1>22. ASSUME NEW t \in Tasks, NEW new \in Managers, NEW exp \in Managers \union {NoManager},
      Swap(t, new, exp) PROVE CloserInv'
  BY <1>22 DEF Swap
<1>23. ASSUME NEW t \in Tasks, NEW m \in Managers, SwapLock(t, m) PROVE CloserInv'
  BY <1>23 DEF SwapLock, NextLock, Wanted, Held, Free, Acquire
<1>24. ASSUME NEW t \in Tasks, SwapDone(t) PROVE CloserInv'
  BY <1>24 DEF SwapDone, SwapAllowed, SwapEnds, Wanted, Held, Leave, GateAfterSwap
<1>25. ASSUME NEW t \in Tasks, SwapRefused(t) PROVE CloserInv'
  BY <1>25 DEF SwapRefused, SwapEnds, Wanted, Held, Leave
<1>26. ASSUME NEW t \in Tasks, NEW e \in BOOLEAN, AcloseStart(t, e) PROVE CloserInv'
  BY <1>26 DEF AcloseStart, CallsAclose, Closes
<1>27. ASSUME NEW t \in Tasks, ReadCurrent(t) PROVE CloserInv'
  BY <1>27 DEF ReadCurrent
<1>28. ASSUME NEW t \in Tasks, DrainCurrent(t) PROVE CloserInv'
  BY <1>28 DEF DrainCurrent, Acquire, Free
<1>29. ASSUME NEW t \in Tasks, CurrentIsClosed(t) PROVE CloserInv'
  BY <1>29 DEF CurrentIsClosed, Free
<1>30. ASSUME NEW t \in Tasks, CloseGate(t) PROVE CloserInv'
  BY <1>30 DEF CloseGate, Release, GateInDrain
<1>31. ASSUME NEW t \in Tasks, ManagerClosed(t) PROVE CloserInv'
  BY <1>31 DEF ManagerClosed
<1>32. ASSUME NEW t \in Tasks, ResetClose(t) PROVE CloserInv'
  <2>1. Closing(t) /\ \A u \in Tasks \ {t} : ~Closing(u)
    BY <1>32 DEF ResetClose
  <2>2. closeReport = "none"
    BY <2>1
  <2>3. ~closeStarted'
    BY <1>32, <2>2 DEF ResetClose
  <2>4. \A u \in Tasks : ~Closing(u)'
    BY <1>32, <2>1 DEF ResetClose, Leave
  <2> QED
    BY <2>3, <2>4
<1>33. ASSUME NEW t \in Tasks, ClearClient(t) PROVE CloserInv'
  BY <1>33 DEF ClearClient
<1>34. ASSUME NEW t \in Tasks, PublishClose(t) PROVE CloserInv'
  BY <1>34 DEF PublishClose, Announce, Leave
<1>35. CASE UNCHANGED cvars
  BY <1>35 DEF cvars, vars, clientVars, closeVars, Quiet
<1> HIDE DEF CloserInv, ControlTypes, Bound
<1>36. ASSUME NEW t \in Tasks, ManagerOps(t) PROVE CloserInv'
  BY <1>36, <1>4, <1>5, <1>6, <1>7, <1>8, <1>9, <1>10, <1>11, <1>12, <1>13, <1>14, <1>15, <1>16,
    <1>17, <1>18 DEF ManagerOps
<1>37. ASSUME NEW t \in Tasks, ClientOps(t) PROVE CloserInv'
  BY <1>37, <1>19, <1>20, <1>21, <1>22, <1>23, <1>24, <1>25, <1>26, <1>27, <1>28, <1>29, <1>30,
    <1>31, <1>32, <1>33, <1>34 DEF ClientOps
<1> QED
  BY <1>1, <1>2, <1>3, <1>35, <1>36, <1>37, ClientCases, QuietIsQuiet, GrowOpsGrow, MoveOpsMove

\* The manager that the closer has locked stays retired.
LEMMA RetiredStep ==
  ASSUME CallInv, HolderInv, ProgressInv, CloserInv, RetiredInv, [ClientNext]_cvars
  PROVE  RetiredInv'
<1>0. ControlTypes /\ Bound
  BY Controlled
<1> USE PMAssumption, <1>0 DEF PMAssumption, ControlTypes, States, ReturnInv, Bound,
  ClientLabels, Labels, Worker, Unbound, Setting, mgrVars, stopVars, gateVars, callVars,
  workVars, clientVars, closeVars, Goto, Quiet, LockHolder, HolderInv, ProgressInv, Closing,
  RetiredInv
<1>1. CASE Quiet
  BY <1>1 DEF Quiet
<1>2. ASSUME NEW m \in Managers, Grows(m) PROVE RetiredInv'
  BY <1>2 DEF Grows, LoadAllowed, AfterLoad
<1>3. ASSUME NEW t \in Tasks, Moves(t) PROVE RetiredInv'
  BY <1>3 DEF Moves, Harmless
<1>4. ASSUME NEW t \in Tasks, NEW m \in Managers, NEW mode \in Setting, UNCHANGED clientVars,
      pc[t] \in {"idle", "settingUp"}, SetupBegins(t, m, mode) PROVE RetiredInv'
  BY <1>4 DEF SetupBegins, Acquire, Free, SetupAllowed, Setting
<1>5. ASSUME NEW t \in Tasks, NEW m \in Managers, UNCHANGED clientVars, Activate(t, m) PROVE
      RetiredInv'
  BY <1>5 DEF Activate, Acquire, Free
<1>6. ASSUME NEW t \in Tasks, NEW m \in Managers, UNCHANGED clientVars, ShutdownReported(t, m)
      PROVE RetiredInv'
  BY <1>6 DEF ShutdownReported, CallsShutdown, Free, Leave
<1>7. ASSUME NEW t \in Tasks, NEW m \in Managers, UNCHANGED clientVars, ShutdownJoin(t, m) PROVE
      RetiredInv'
  BY <1>7 DEF ShutdownJoin, CallsShutdown, Free
<1>8. ASSUME NEW t \in Tasks, NEW m \in Managers, UNCHANGED clientVars, ShutdownStart(t, m)
      PROVE RetiredInv'
  BY <1>8 DEF ShutdownStart, CallsShutdown, Starts, Acquire, Free
<1>9. ASSUME NEW t \in Tasks, UNCHANGED clientVars, SetupFail(t) PROVE RetiredInv'
  BY <1>9 DEF SetupFail, Release, Leave
<1>10. ASSUME NEW t \in Tasks, UNCHANGED clientVars, SetupActivate(t) PROVE RetiredInv'
  BY <1>10 DEF SetupActivate
<1>11. ASSUME NEW t \in Tasks, UNCHANGED clientVars, SetupStage(t) PROVE RetiredInv'
  BY <1>11 DEF SetupStage, Release, Leave
<1>12. ASSUME NEW t \in Tasks, UNCHANGED clientVars, Enable(t) PROVE RetiredInv'
  BY <1>12 DEF Enable, Release, Leave
<1>13. ASSUME NEW t \in Tasks, UNCHANGED clientVars, Disable(t) PROVE RetiredInv'
  BY <1>13 DEF Disable, Release, GateInDrain
<1>14. ASSUME NEW t \in Tasks, UNCHANGED clientVars, DrainTimeout(t) PROVE RetiredInv'
  BY <1>14 DEF DrainTimeout, Leave
<1>15. ASSUME NEW t \in Tasks, NEW e \in BOOLEAN, UNCHANGED clientVars, FinishShutdown(t, e)
      PROVE RetiredInv'
  BY <1>15 DEF FinishShutdown, Leave
<1>16. ASSUME NEW t \in Tasks, UNCHANGED clientVars, WaiterReturns(t) PROVE RetiredInv'
  BY <1>16 DEF WaiterReturns, Leave
<1>17. ASSUME NEW t \in Tasks, UNCHANGED clientVars, CancelWorker(t) PROVE RetiredInv'
  BY <1>17 DEF CancelWorker, Leave
<1>18. ASSUME NEW t \in Tasks, UNCHANGED clientVars, CancelWaiter(t) PROVE RetiredInv'
  BY <1>18 DEF CancelWaiter, Leave
<1>19. ASSUME NEW t \in Tasks, NEW m \in Managers, BuildManager(t, m) PROVE RetiredInv'
  BY <1>19 DEF BuildManager
<1>20. ASSUME NEW t \in Tasks, StoreManager(t) PROVE RetiredInv'
  BY <1>20 DEF StoreManager
<1>21. ASSUME NEW t \in Tasks, LoadFolders(t) PROVE RetiredInv'
  BY <1>21 DEF LoadFolders, AddNothing, AddPlugin, AfterLoad, LoadAllowed, Free
<1>22. ASSUME NEW t \in Tasks, NEW new \in Managers, NEW exp \in Managers \union {NoManager},
      Swap(t, new, exp) PROVE RetiredInv'
  BY <1>22 DEF Swap
<1>23. ASSUME NEW t \in Tasks, NEW m \in Managers, SwapLock(t, m) PROVE RetiredInv'
  BY <1>23 DEF SwapLock, NextLock, Wanted, Held, Free, Acquire
<1>24. ASSUME NEW t \in Tasks, SwapDone(t) PROVE RetiredInv'
  BY <1>24 DEF SwapDone, SwapAllowed, SwapEnds, Wanted, Held, Leave, GateAfterSwap
<1>25. ASSUME NEW t \in Tasks, SwapRefused(t) PROVE RetiredInv'
  BY <1>25 DEF SwapRefused, SwapEnds, Wanted, Held, Leave
<1>26. ASSUME NEW t \in Tasks, NEW e \in BOOLEAN, AcloseStart(t, e) PROVE RetiredInv'
  BY <1>26 DEF AcloseStart, CallsAclose, Closes
<1>27. ASSUME NEW t \in Tasks, ReadCurrent(t) PROVE RetiredInv'
  BY <1>27 DEF ReadCurrent
<1>28. ASSUME NEW t \in Tasks, DrainCurrent(t) PROVE RetiredInv'
  BY <1>28 DEF DrainCurrent, Acquire, Free
<1>29. ASSUME NEW t \in Tasks, CurrentIsClosed(t) PROVE RetiredInv'
  BY <1>29 DEF CurrentIsClosed, Free
<1>30. ASSUME NEW t \in Tasks, CloseGate(t) PROVE RetiredInv'
  BY <1>30 DEF CloseGate, Release, GateInDrain
<1>31. ASSUME NEW t \in Tasks, ManagerClosed(t) PROVE RetiredInv'
  BY <1>31 DEF ManagerClosed
<1>32. ASSUME NEW t \in Tasks, ResetClose(t) PROVE RetiredInv'
  BY <1>32 DEF ResetClose, Announce, Leave
<1>33. ASSUME NEW t \in Tasks, ClearClient(t) PROVE RetiredInv'
  BY <1>33 DEF ClearClient
<1>34. ASSUME NEW t \in Tasks, PublishClose(t) PROVE RetiredInv'
  BY <1>34 DEF PublishClose, Announce, Leave
<1>35. CASE UNCHANGED cvars
  BY <1>35 DEF cvars, vars, clientVars, closeVars, Quiet
<1> HIDE DEF RetiredInv, HolderInv, ProgressInv, ControlTypes, Bound
<1>36. ASSUME NEW t \in Tasks, ManagerOps(t) PROVE RetiredInv'
  BY <1>36, <1>4, <1>5, <1>6, <1>7, <1>8, <1>9, <1>10, <1>11, <1>12, <1>13, <1>14, <1>15, <1>16,
    <1>17, <1>18 DEF ManagerOps
<1>37. ASSUME NEW t \in Tasks, ClientOps(t) PROVE RetiredInv'
  BY <1>37, <1>19, <1>20, <1>21, <1>22, <1>23, <1>24, <1>25, <1>26, <1>27, <1>28, <1>29, <1>30,
    <1>31, <1>32, <1>33, <1>34 DEF ClientOps
<1> QED
  BY <1>1, <1>2, <1>3, <1>35, <1>36, <1>37, ClientCases, QuietIsQuiet, GrowOpsGrow, MoveOpsMove

\* A retired manager is never brought back.
LEMMA StateMoves ==
  ASSUME CallInv, HolderInv, ProgressInv, NEW n \in Managers, [ClientNext]_cvars
  PROVE  Retires(n)
<1>0. ControlTypes /\ Bound
  BY Controlled
<1> USE PMAssumption, <1>0 DEF PMAssumption, ControlTypes, States, ReturnInv, Bound,
  ClientLabels, Labels, Worker, Unbound, Setting, mgrVars, stopVars, gateVars, callVars,
  workVars, clientVars, closeVars, Goto, Quiet, LockHolder, HolderInv, ProgressInv, Retires
<1>1. CASE Quiet
  BY <1>1 DEF Quiet
<1>2. ASSUME NEW m \in Managers, Grows(m) PROVE Retires(n)
  BY <1>2 DEF Grows, LoadAllowed, AfterLoad
<1>3. ASSUME NEW t \in Tasks, Moves(t) PROVE Retires(n)
  BY <1>3 DEF Moves, Harmless
<1>4. ASSUME NEW t \in Tasks, NEW m \in Managers, NEW mode \in Setting, UNCHANGED clientVars,
      pc[t] \in {"idle", "settingUp"}, SetupBegins(t, m, mode) PROVE Retires(n)
  BY <1>4 DEF SetupBegins, Acquire, Free, SetupAllowed, Setting
<1>5. ASSUME NEW t \in Tasks, NEW m \in Managers, UNCHANGED clientVars, Activate(t, m) PROVE
      Retires(n)
  BY <1>5 DEF Activate, Acquire, Free
<1>6. ASSUME NEW t \in Tasks, NEW m \in Managers, UNCHANGED clientVars, ShutdownReported(t, m)
      PROVE Retires(n)
  BY <1>6 DEF ShutdownReported, CallsShutdown, Free, Leave
<1>7. ASSUME NEW t \in Tasks, NEW m \in Managers, UNCHANGED clientVars, ShutdownJoin(t, m) PROVE
      Retires(n)
  BY <1>7 DEF ShutdownJoin, CallsShutdown, Free
<1>8. ASSUME NEW t \in Tasks, NEW m \in Managers, UNCHANGED clientVars, ShutdownStart(t, m)
      PROVE Retires(n)
  <2>1. report[m] = "none" /\ state' = [state EXCEPT ![m] = "draining"]
    BY <1>8 DEF ShutdownStart, Starts
  <2> QED
    BY <2>1
<1>9. ASSUME NEW t \in Tasks, UNCHANGED clientVars, SetupFail(t) PROVE Retires(n)
  <2>1. state[mgr[t]] \in {"created", "loaded", "staged", "active"}
    BY <1>9 DEF SetupFail
  <2>2. state' = [state EXCEPT ![mgr[t]] = "failed"]
    BY <1>9 DEF SetupFail
  <2> QED
    BY <2>1, <2>2
<1>10. ASSUME NEW t \in Tasks, UNCHANGED clientVars, SetupActivate(t) PROVE Retires(n)
  BY <1>10 DEF SetupActivate
<1>11. ASSUME NEW t \in Tasks, UNCHANGED clientVars, SetupStage(t) PROVE Retires(n)
  BY <1>11 DEF SetupStage, Release, Leave
<1>12. ASSUME NEW t \in Tasks, UNCHANGED clientVars, Enable(t) PROVE Retires(n)
  BY <1>12 DEF Enable, Release, Leave
<1>13. ASSUME NEW t \in Tasks, UNCHANGED clientVars, Disable(t) PROVE Retires(n)
  BY <1>13 DEF Disable, Release, GateInDrain
<1>14. ASSUME NEW t \in Tasks, UNCHANGED clientVars, DrainTimeout(t) PROVE Retires(n)
  BY <1>14 DEF DrainTimeout, Leave
<1>15. ASSUME NEW t \in Tasks, NEW e \in BOOLEAN, UNCHANGED clientVars, FinishShutdown(t, e)
      PROVE Retires(n)
  BY <1>15 DEF FinishShutdown, Leave
<1>16. ASSUME NEW t \in Tasks, UNCHANGED clientVars, WaiterReturns(t) PROVE Retires(n)
  BY <1>16 DEF WaiterReturns, Leave
<1>17. ASSUME NEW t \in Tasks, UNCHANGED clientVars, CancelWorker(t) PROVE Retires(n)
  BY <1>17 DEF CancelWorker, Leave
<1>18. ASSUME NEW t \in Tasks, UNCHANGED clientVars, CancelWaiter(t) PROVE Retires(n)
  BY <1>18 DEF CancelWaiter, Leave
<1>19. ASSUME NEW t \in Tasks, NEW m \in Managers, BuildManager(t, m) PROVE Retires(n)
  BY <1>19 DEF BuildManager
<1>20. ASSUME NEW t \in Tasks, StoreManager(t) PROVE Retires(n)
  BY <1>20 DEF StoreManager
<1>21. ASSUME NEW t \in Tasks, LoadFolders(t) PROVE Retires(n)
  BY <1>21 DEF LoadFolders, AddNothing, AddPlugin, AfterLoad, LoadAllowed, Free
<1>22. ASSUME NEW t \in Tasks, NEW new \in Managers, NEW exp \in Managers \union {NoManager},
      Swap(t, new, exp) PROVE Retires(n)
  BY <1>22 DEF Swap
<1>23. ASSUME NEW t \in Tasks, NEW m \in Managers, SwapLock(t, m) PROVE Retires(n)
  BY <1>23 DEF SwapLock, NextLock, Wanted, Held, Free, Acquire
<1>24. ASSUME NEW t \in Tasks, SwapDone(t) PROVE Retires(n)
  BY <1>24 DEF SwapDone, SwapAllowed, SwapEnds, Wanted, Held, Leave, GateAfterSwap
<1>25. ASSUME NEW t \in Tasks, SwapRefused(t) PROVE Retires(n)
  BY <1>25 DEF SwapRefused, SwapEnds, Wanted, Held, Leave
<1>26. ASSUME NEW t \in Tasks, NEW e \in BOOLEAN, AcloseStart(t, e) PROVE Retires(n)
  BY <1>26 DEF AcloseStart, CallsAclose, Closes
<1>27. ASSUME NEW t \in Tasks, ReadCurrent(t) PROVE Retires(n)
  BY <1>27 DEF ReadCurrent
<1>28. ASSUME NEW t \in Tasks, DrainCurrent(t) PROVE Retires(n)
  BY <1>28 DEF DrainCurrent, Acquire, Free
<1>29. ASSUME NEW t \in Tasks, CurrentIsClosed(t) PROVE Retires(n)
  BY <1>29 DEF CurrentIsClosed, Free
<1>30. ASSUME NEW t \in Tasks, CloseGate(t) PROVE Retires(n)
  BY <1>30 DEF CloseGate, Release, GateInDrain
<1>31. ASSUME NEW t \in Tasks, ManagerClosed(t) PROVE Retires(n)
  BY <1>31 DEF ManagerClosed
<1>32. ASSUME NEW t \in Tasks, ResetClose(t) PROVE Retires(n)
  BY <1>32 DEF ResetClose, Announce, Leave
<1>33. ASSUME NEW t \in Tasks, ClearClient(t) PROVE Retires(n)
  BY <1>33 DEF ClearClient
<1>34. ASSUME NEW t \in Tasks, PublishClose(t) PROVE Retires(n)
  BY <1>34 DEF PublishClose, Announce, Leave
<1>35. CASE UNCHANGED cvars
  BY <1>35 DEF cvars, vars, clientVars, closeVars, Quiet
<1> HIDE DEF Retires, HolderInv, ProgressInv, ControlTypes, Bound
<1>36. ASSUME NEW t \in Tasks, ManagerOps(t) PROVE Retires(n)
  BY <1>36, <1>4, <1>5, <1>6, <1>7, <1>8, <1>9, <1>10, <1>11, <1>12, <1>13, <1>14, <1>15, <1>16,
    <1>17, <1>18 DEF ManagerOps
<1>37. ASSUME NEW t \in Tasks, ClientOps(t) PROVE Retires(n)
  BY <1>37, <1>19, <1>20, <1>21, <1>22, <1>23, <1>24, <1>25, <1>26, <1>27, <1>28, <1>29, <1>30,
    <1>31, <1>32, <1>33, <1>34 DEF ClientOps
<1> QED
  BY <1>1, <1>2, <1>3, <1>35, <1>36, <1>37, ClientCases, QuietIsQuiet, GrowOpsGrow, MoveOpsMove

\* At first no call is under way and no lock is held.
LEMMA ClientInvInit == ClientInit => ClientInv
<1> SUFFICES ASSUME ClientInit PROVE ClientInv
  OBVIOUS
<1> USE PMAssumption DEF PMAssumption, ClientInit, Init
<1>1. FieldsOK
  BY DEF FieldsOK, States
<1>2. CallInv
  BY <1>1 DEF CallInv, ClientTypeOK, ReturnInv, ClientLabels, Labels, Unbound
<1>3. HolderInv /\ ProgressInv /\ OneWorkerInv
  BY DEF HolderInv, LockHolder, Setting, ProgressInv, OneWorkerInv, Worker
<1>4. CloserInv /\ RetiredInv
  BY DEF CloserInv, RetiredInv, Closing
<1> QED
  BY <1>2, <1>3, <1>4 DEF ClientInv

-----------------------------------------------------------------------------
(* The theorems.                                                             *)

\* The layers hold in every reachable state, for every set of managers and tasks.
THEOREM ClientInvariant == ClientSpec => []ClientInv
<1>1. ClientInv /\ [ClientNext]_cvars => ClientInv'
  BY CallStep, HolderStep, ProgressStep, OneWorkerStep, CloserStep, RetiredStep DEF ClientInv
<1> QED
  BY ClientInvInit, <1>1, PTL DEF ClientSpec

\* Every field keeps its type, and a call in progress, of the Client or of a
\* manager, finds the manager it needs.
THEOREM ClientTypes == ClientSpec => []ClientTypeOK
<1>1. ClientInv => ClientTypeOK
  BY DEF ClientInv, CallInv
<1> QED
  BY ClientInvariant, <1>1, PTL

\* aclose() is single-flight: one task at most runs its worker, while it is
\* started and has no report.
THEOREM CloserIsSingle == ClientSpec => []SingleCloser
<1> DEFINE Closers == {t \in Tasks : Closing(t)}
<1>1. ASSUME CloserInv PROVE Cardinality(Closers) <= 1
  <2>1. CASE Closers = {}
    BY <2>1, FS_EmptySet
  <2>2. ASSUME NEW t \in Closers PROVE Cardinality(Closers) <= 1
    <3>1. Closers = {t}
      BY <1>1, <2>2 DEF CloserInv
    <3>2. Cardinality({t}) = 1
      BY FS_Singleton
    <3> QED
      BY <3>1, <3>2
  <2> QED
    BY <2>1, <2>2
<1>2. ClientInv => SingleCloser
  BY <1>1 DEF ClientInv, CloserInv, SingleCloser
<1> QED
  BY ClientInvariant, <1>2, PTL

\* Two calls never hold a transition lock that the other waits for: only an
\* exchange holds one lock while it waits for another, of a higher rank.
THEOREM LocksAreOrdered == ClientSpec => []NoLockCycle
<1>1. ASSUME ClientInv, NEW t \in Tasks, NEW m \in Managers, NEW n \in Managers,
             tlock[m] = t, Waits(t, n), tlock[n] # t
      PROVE  Rank[m] < Rank[n]
  <2>1. HolderInv
    BY <1>1 DEF ClientInv
  <2>2. pc[t] \notin LockHolder
    BY <1>1 DEF Waits, LockHolder, Setting
  <2>3. pc[t] = "swapping"
    BY <1>1, <2>1, <2>2 DEF HolderInv
  <2>4. n \in Wanted(t)
    BY <1>1, <2>3 DEF Waits, NextLock
  <2> QED
    BY <1>1, <2>1, <2>2, <2>4 DEF HolderInv
<1>2. ASSUME ClientInv PROVE NoLockCycle
  <2>1. SUFFICES ASSUME NEW t \in Tasks, NEW u \in Tasks, NEW m \in Managers, NEW n \in Managers,
                        t # u, tlock[m] = t, Waits(t, n), tlock[n] = u, Waits(u, m)
                 PROVE  FALSE
    BY DEF NoLockCycle
  <2>2. Rank[m] < Rank[n] /\ Rank[n] < Rank[m]
    BY <1>1, <1>2, <2>1
  <2>3. Rank[m] \in Int /\ Rank[n] \in Int
    BY CLAssumption DEF CLAssumption
  <2> QED
    BY <2>2, <2>3
<1> QED
  BY ClientInvariant, <1>2, PTL

\* shutdown() stays single-flight when aclose() calls it too, and exchanges,
\* setups and closings run meanwhile.
THEOREM ClientWorkerIsSingle == ClientSpec => []SingleWorker
<1>1. ASSUME ClientInv, NEW m \in Managers
      PROVE  Cardinality(Workers(m)) <= 1 /\ (Workers(m) # {} <=> started[m] /\ report[m] = "none")
  <2>1. Workers(m) # {} <=> started[m] /\ report[m] = "none"
    BY <1>1 DEF ClientInv, ProgressInv, OneWorkerInv, Workers
  <2>2. CASE Workers(m) = {}
    BY <2>1, <2>2, FS_EmptySet
  <2>3. ASSUME NEW t \in Workers(m) PROVE Cardinality(Workers(m)) <= 1
    <3>1. Workers(m) = {t}
      BY <1>1, <2>3 DEF ClientInv, OneWorkerInv, Workers
    <3>2. Cardinality({t}) = 1
      BY FS_Singleton
    <3> QED
      BY <3>1, <3>2
  <2> QED
    BY <2>1, <2>2, <2>3
<1>2. ClientInv => SingleWorker
  BY <1>1 DEF SingleWorker
<1> QED
  BY ClientInvariant, <1>2, PTL

\* Retirement is irreversible under the Client's calls as well: no exchange and
\* no activation that was waiting brings back a manager that aclose() drains.
THEOREM ClientRetirement == ClientSpec => Irreversible
<1>1. ClientInv /\ [ClientNext]_cvars => [\A m \in Managers : Retires(m)]_vars
  BY StateMoves DEF ClientInv
<1> QED
  BY ClientInvariant, <1>1, PTL DEF ClientSpec, Irreversible, Retires

-----------------------------------------------------------------------------
(* What a step does to Client.plugin_manager, and to the closer.             *)

\* load_plugins() overwrites the current manager; an exchange replaces only
\* one that is active.
LEMMA CurrentMoves ==
  ASSUME CallInv, [ClientNext]_cvars, current' # current, current # NoManager
  PROVE  (\E u \in Tasks : pc[u] = "creating") \/ state[current] = "active"
<1> USE DEF clientVars, closeVars
<1>1. ~Quiet /\ ~UNCHANGED cvars
  BY DEF Quiet, cvars
<1>2. ASSUME NEW t \in Tasks, (\E m \in Managers : Grows(m)) \/ Moves(t) \/ ManagerOps(t)
      PROVE FALSE
  BY <1>2 DEF Grows, Moves, ManagerOps
<1>3. ASSUME NEW t \in Tasks, ClientOps(t) PROVE StoreManager(t) \/ SwapDone(t)
  <2>1. CASE (\E m \in Managers : BuildManager(t, m) \/ SwapLock(t, m)) \/ LoadFolders(t)
             \/ SwapRefused(t)
    BY <2>1 DEF BuildManager, SwapLock, LoadFolders, SwapRefused
  <2>2. CASE \E new \in Managers, exp \in Managers \union {NoManager} : Swap(t, new, exp)
    BY <2>2 DEF Swap
  <2>3. CASE (\E e \in BOOLEAN : AcloseStart(t, e)) \/ ReadCurrent(t) \/ DrainCurrent(t)
             \/ CurrentIsClosed(t)
    BY <2>3 DEF AcloseStart, ReadCurrent, DrainCurrent, CurrentIsClosed
  <2>4. CASE CloseGate(t) \/ ManagerClosed(t) \/ ResetClose(t) \/ ClearClient(t)
             \/ PublishClose(t)
    BY <2>4 DEF CloseGate, ManagerClosed, ResetClose, ClearClient, PublishClose
  <2> QED
    BY <1>3, <2>1, <2>2, <2>3, <2>4 DEF ClientOps
<1>4. PICK t \in Tasks : StoreManager(t) \/ SwapDone(t)
  BY <1>1, <1>2, <1>3, ClientCases, QuietIsQuiet, GrowOpsGrow, MoveOpsMove
<1> QED
  BY <1>4 DEF StoreManager, SwapDone, SwapAllowed

\* Only a closer that clears the Client publishes its report.
LEMMA OnlyClearingPublishes ==
  ASSUME CallInv, [ClientNext]_cvars, NEW t \in Tasks, pc'[t] = "publishing"
  PROVE  pc[t] \in {"clearing", "publishing"}
<1>0. ControlTypes
  BY Controlled
<1> USE <1>0 DEF ControlTypes, Goto, Leave
<1>1. ASSUME Quiet \/ UNCHANGED cvars PROVE pc'[t] = pc[t]
  BY <1>1 DEF Quiet, cvars, vars
<1>2. ASSUME NEW u \in Tasks, (\E m \in Managers : Grows(m)) \/ Moves(u) PROVE pc'[t] = pc[t]
  BY <1>2 DEF Grows, Moves, Harmless
<1>3. ASSUME NEW u \in Tasks, ManagerOps(u) PROVE pc'[t] = pc[t]
  <2>1. CASE \E m \in Managers, mode \in Setting : SetupBegins(u, m, mode)
    BY <2>1 DEF SetupBegins, Setting
  <2>2. CASE \E m \in Managers : \/ Activate(u, m) \/ ShutdownReported(u, m)
                                 \/ ShutdownJoin(u, m) \/ ShutdownStart(u, m)
    BY <2>2 DEF Activate, ShutdownReported, ShutdownJoin, ShutdownStart
  <2>3. CASE SetupFail(u) \/ SetupActivate(u) \/ SetupStage(u) \/ Enable(u) \/ Disable(u)
    BY <2>3 DEF SetupFail, SetupActivate, SetupStage, Enable, Disable
  <2>4. CASE DrainTimeout(u) \/ WaiterReturns(u) \/ CancelWorker(u) \/ CancelWaiter(u)
    BY <2>4 DEF DrainTimeout, WaiterReturns, CancelWorker, CancelWaiter
  <2>5. CASE \E e \in BOOLEAN : FinishShutdown(u, e)
    BY <2>5 DEF FinishShutdown
  <2> QED
    BY <1>3, <2>1, <2>2, <2>3, <2>4, <2>5 DEF ManagerOps
<1>4. ASSUME NEW u \in Tasks, ClientOps(u) PROVE pc'[t] = pc[t] \/ pc[t] = "clearing"
  <2>1. CASE \E m \in Managers : BuildManager(u, m) \/ SwapLock(u, m)
    BY <2>1 DEF BuildManager, SwapLock
  <2>2. CASE \E new \in Managers, exp \in Managers \union {NoManager} : Swap(u, new, exp)
    BY <2>2 DEF Swap
  <2>3. CASE StoreManager(u) \/ LoadFolders(u) \/ SwapDone(u) \/ SwapRefused(u)
    BY <2>3 DEF StoreManager, LoadFolders, SwapDone, SwapRefused, SwapEnds
  <2>4. CASE (\E e \in BOOLEAN : AcloseStart(u, e)) \/ ReadCurrent(u) \/ DrainCurrent(u)
             \/ CurrentIsClosed(u)
    BY <2>4 DEF AcloseStart, ReadCurrent, DrainCurrent, CurrentIsClosed
  <2>5. CASE CloseGate(u) \/ ManagerClosed(u) \/ ResetClose(u) \/ ClearClient(u)
             \/ PublishClose(u)
    BY <2>5 DEF CloseGate, ManagerClosed, ResetClose, ClearClient, PublishClose
  <2> QED
    BY <1>4, <2>1, <2>2, <2>3, <2>4, <2>5 DEF ClientOps
<1> HIDE DEF ControlTypes, Goto, Leave
<1> QED
  BY <1>1, <1>2, <1>3, <1>4, ClientCases, QuietIsQuiet, GrowOpsGrow, MoveOpsMove

\* Once aclose() has begun to drain the current manager no reload in flight
\* exchanges it, and the Client is cleared when that manager is closed.
THEOREM CloserKeepsItsManager == ClientSpec => CloserKeepsManager
<1> DEFINE Keeps(t) ==
      (Closing(t) /\ pc[t] \notin {"reading", "locking"} /\ mgr[t] # NoManager)
        => /\ (current = mgr[t] /\ current' # current) => \E u \in Tasks : pc[u] = "creating"
           /\ pc'[t] = "publishing" => state[mgr[t]] = "closed"
<1>1. ASSUME ClientInv, [ClientNext]_cvars, NEW t \in Tasks PROVE Keeps(t)
  <2>1. SUFFICES ASSUME Closing(t), pc[t] \notin {"reading", "locking"}, mgr[t] # NoManager
                 PROVE  /\ (current = mgr[t] /\ current' # current) =>
                           \E u \in Tasks : pc[u] = "creating"
                        /\ pc'[t] = "publishing" => state[mgr[t]] = "closed"
    OBVIOUS
  <2>2. /\ state[mgr[t]] \in {"draining", "closed"}
        /\ pc[t] \in {"clearing", "publishing"} => state[mgr[t]] = "closed"
    BY <1>1, <2>1 DEF ClientInv, RetiredInv
  <2>3. CallInv
    BY <1>1 DEF ClientInv
  <2>4. ASSUME current = mgr[t], current' # current PROVE \E u \in Tasks : pc[u] = "creating"
    BY <1>1, <2>1, <2>2, <2>3, <2>4, CurrentMoves
  <2>5. ASSUME pc'[t] = "publishing" PROVE state[mgr[t]] = "closed"
    BY <1>1, <2>2, <2>3, <2>5, OnlyClearingPublishes
  <2> QED
    BY <2>4, <2>5
<1>2. ClientInv /\ [ClientNext]_cvars => [\A t \in Tasks : Keeps(t)]_cvars
  BY <1>1
<1> QED
  BY ClientInvariant, <1>2, PTL DEF ClientSpec, CloserKeepsManager
=============================================================================

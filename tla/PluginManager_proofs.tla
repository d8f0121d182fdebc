------------------------ MODULE PluginManager_proofs ------------------------
(***************************************************************************)
(* Theorems about PluginManager, for any sets of managers, plugins, tasks  *)
(* and handlers.  ControlInv is inductive for every constant; ServiceInv,  *)
(* which rests on it, when no setup hook loads a plugin.  With both the    *)
(* manager implements DrainProtocol.                                       *)
(***************************************************************************)
EXTENDS PluginManagerInv, FiniteSetTheorems, TLAPS

\* While a manager has a worker no other call on it holds the lock to set it up.
LEMMA WorkerExcludesSetup ==
  ASSUME StateInv, NEW t \in Tasks, pc[t] \in Worker
  PROVE  \A u \in Tasks : pc[u] \in Setting \union {"enabling"} => mgr[u] # mgr[t]
BY DEF StateInv, Setting, Worker

\* The only worker of m ends: m has none, the other managers keep theirs.
LEMMA OnlyWorkerEnds ==
  ASSUME NEW m \in Managers, NEW t \in Workers(m),
         \A u \in Workers(m) : u = t,
         pc'[t] = "idle",
         \A u \in Tasks \ {t} : pc'[u] = pc[u] /\ mgr'[u] = mgr[u]
  PROVE  Workers(m)' = {} /\ \A x \in Managers \ {m} : Workers(x)' = Workers(x)
<1>1. Workers(m)' = {}
  BY DEF Workers, Worker
<1>2. ASSUME NEW x \in Managers \ {m} PROVE Workers(x)' = Workers(x)
  <2>1. t \notin Workers(x) /\ t \notin Workers(x)'
    BY DEF Workers, Worker
  <2>2. \A u \in Tasks \ {t} : u \in Workers(x)' <=> u \in Workers(x)
    BY DEF Workers
  <2> QED
    BY <2>1, <2>2 DEF Workers
<1> QED
  BY <1>1, <1>2
\* What a manager has loaded changes with its load order only.
LEMMA LoadedFollowsOrder ==
  \A m \in Managers : order'[m] = order[m] => Loaded(m)' = Loaded(m)
BY DEF Loaded

\* The handlers of a manager are finite in number, and none when it is 0.
LEMMA NoneInFlight ==
  ASSUME NEW m \in Managers
  PROVE  /\ IsFiniteSet(Leases(m)) /\ IsFiniteSet(Callbacks(m))
         /\ Cardinality(Leases(m)) \in Nat /\ Cardinality(Callbacks(m)) \in Nat
         /\ Cardinality(Leases(m)) = 0 <=> Leases(m) = {}
         /\ Cardinality(Callbacks(m)) = 0 <=> Callbacks(m) = {}
<1>1. Leases(m) \subseteq Tasks /\ Callbacks(m) \subseteq Tasks
  BY DEF Leases, Callbacks
<1>2. IsFiniteSet(Leases(m)) /\ IsFiniteSet(Callbacks(m))
  BY <1>1, PMAssumption, FS_Subset DEF PMAssumption
<1> QED
  BY <1>2, FS_CardinalityType, FS_EmptySet

----------------------------------------------------------------------------
(* The initial states. *)

LEMMA ControlInit == Init => ControlInv
<1> SUFFICES ASSUME Init PROVE ControlInv
  OBVIOUS
<1>1. TypeInv
  BY PMAssumption DEF Init, TypeInv, UserCalls, TypeOK, FieldsOK, States, Labels
<1>2. LockInv /\ StateInv /\ WorkerInv /\ GateInv /\ OrderInv /\ HookInv
  BY PMAssumption DEF Init, PMAssumption, LockInv, LockHolder, Setting, StateInv, WorkerInv, Workers,
     Worker, GateInv, OrderInv, HookInv
<1> QED
  BY <1>1, <1>2 DEF ControlInv

LEMMA ServiceInit == Init => ServiceInv
<1> SUFFICES ASSUME Init PROVE ServiceInv
  OBVIOUS
<1>1. SetupInv /\ CallbackInv /\ DrainInv
  BY PMAssumption DEF Init, PMAssumption, SetupInv, Setting, CallbackInv, DrainInv
<1>2. \A m \in Managers : Leases(m) = {} /\ Callbacks(m) = {}
  BY PMAssumption DEF Init, PMAssumption, Leases, Callbacks
<1>3. \A m \in Managers : inflight[m] = 0 /\ ownerInflight[m] = 0
  BY DEF Init
<1>4. Cardinality({}) = 0
  BY FS_EmptySet
<1>5. DrainCounts
  BY <1>2, <1>3, <1>4 DEF DrainCounts
<1> QED
  BY <1>1, <1>5 DEF ServiceInv

----------------------------------------------------------------------------
(* One lemma per layer: every step keeps it. *)

\* The load order of a manager holds plugins.
LEMMA LoadedIsPlugins ==
  ASSUME FieldsOK, NEW m \in Managers
  PROVE  Loaded(m) \subseteq Plugins
BY DEF FieldsOK, Loaded

\* Every step keeps the types, and leaves no call without its manager.
LEMMA TypeStep ==
  ASSUME TypeInv, [ManagerNext]_vars
  PROVE  TypeInv'
<1> USE PMAssumption DEF TypeInv, UserCalls, TypeOK, FieldsOK, Labels, States, mgrVars, stopVars,
    gateVars, callVars, workVars, Goto
<1>1. ASSUME NEW t \in Tasks, NEW m \in Managers, AcquireDispatch(t, m) PROVE TypeInv'
  BY <1>1 DEF AcquireDispatch
<1>2. ASSUME NEW t \in Tasks, NEW m \in Managers, BeginSubscription(t, m) PROVE TypeInv'
  BY <1>2 DEF BeginSubscription
<1>3. ASSUME NEW t \in Tasks, NEW m \in Managers, LoadNothing(t, m) PROVE TypeInv'
  BY <1>3 DEF LoadNothing, AddNothing, AfterLoad
<1>4. ASSUME NEW t \in Tasks, NEW m \in Managers, NEW p \in Plugins, LoadPlugin(t, m, p) PROVE
    TypeInv'
  BY <1>4 DEF LoadPlugin, AddPlugin, AfterLoad
<1>5. ASSUME NEW t \in Tasks, NEW m \in Managers, NEW mode \in Setting, SetupClient(t, m, mode)
    PROVE TypeInv'
  <2>1. todo' \in [Tasks -> SUBSET Plugins] /\ setup' \in [Managers -> SUBSET Plugins]
    BY <1>5, LoadedIsPlugins DEF SetupClient, SetupBegins
  <2> QED
    BY <1>5, <2>1 DEF SetupClient, SetupBegins, Acquire, Setting
<1>6. ASSUME NEW t \in Tasks, NEW m \in Managers, Activate(t, m) PROVE TypeInv'
  BY <1>6 DEF Activate, Acquire
<1>7. ASSUME NEW t \in Tasks, NEW m \in Managers, ShutdownReported(t, m) PROVE TypeInv'
  BY <1>7 DEF ShutdownReported, CallsShutdown, Leave
<1>8. ASSUME NEW t \in Tasks, NEW m \in Managers, ShutdownJoin(t, m) PROVE TypeInv'
  BY <1>8 DEF ShutdownJoin, CallsShutdown
<1>9. ASSUME NEW t \in Tasks, NEW m \in Managers, ShutdownStart(t, m) PROVE TypeInv'
  BY <1>9 DEF ShutdownStart, CallsShutdown, Acquire
<1>10. ASSUME NEW t \in Tasks, StartCallback(t) PROVE TypeInv'
  BY <1>10 DEF StartCallback
<1>11. ASSUME NEW t \in Tasks, NEW p \in Plugins, SetupHook(t, p) PROVE TypeInv'
  <2>1. mgr[t] \in Managers
    BY <1>11 DEF SetupHook
  <2>2. subs' \in [Managers -> SUBSET Plugins]
    <3>1. [subs EXCEPT ![mgr[t]] = @ \union {p}] \in [Managers -> SUBSET Plugins]
      BY <2>1
    <3>2. subs' = subs \/ subs' = [subs EXCEPT ![mgr[t]] = @ \union {p}]
      BY <1>11 DEF SetupHook
    <3> QED
      BY <3>1, <3>2
  <2>3. setup' \in [Managers -> SUBSET Plugins] /\ todo' \in [Tasks -> SUBSET Plugins]
    BY <1>11, <2>1 DEF SetupHook
  <2> QED
    BY <1>11, <2>2, <2>3 DEF SetupHook
<1>12. ASSUME NEW t \in Tasks, NEW p \in Plugins, NEW q \in Plugins, SetupHookLoads(t, p, q) PROVE
    TypeInv'
  <2>1. mgr[t] \in Managers
    BY <1>12 DEF SetupHookLoads
  <2>2. order' \in [Managers -> Seq(Plugins)]
    <3>1. Append(order[mgr[t]], q) \in Seq(Plugins)
      BY <2>1
    <3> QED
      BY <1>12, <2>1, <3>1 DEF SetupHookLoads
  <2>3. setup' \in [Managers -> SUBSET Plugins] /\ todo' \in [Tasks -> SUBSET Plugins]
    BY <1>12, <2>1 DEF SetupHookLoads
  <2>4. state' \in [Managers -> States]
    BY <1>12, <2>1 DEF SetupHookLoads, AfterLoad
  <2> QED
    BY <1>12, <2>2, <2>3, <2>4 DEF SetupHookLoads
<1>13. ASSUME NEW t \in Tasks, SetupFail(t) PROVE TypeInv'
  BY <1>13 DEF SetupFail, Release, Leave
<1>14. ASSUME NEW t \in Tasks, SetupActivate(t) PROVE TypeInv'
  BY <1>14 DEF SetupActivate
<1>15. ASSUME NEW t \in Tasks, SetupStage(t) PROVE TypeInv'
  BY <1>15 DEF SetupStage, Release, Leave
<1>16. ASSUME NEW t \in Tasks, Enable(t) PROVE TypeInv'
  BY <1>16 DEF Enable, Release, Leave
<1>17. ASSUME NEW t \in Tasks, Disable(t) PROVE TypeInv'
  BY <1>17 DEF Disable, Release, GateInDrain
<1>18. ASSUME NEW t \in Tasks, Drained(t) PROVE TypeInv'
  BY <1>18 DEF Drained
<1>19. ASSUME NEW t \in Tasks, OwnerDrained(t) PROVE TypeInv'
  BY <1>19 DEF OwnerDrained, HooksLeft
<1>20. ASSUME NEW t \in Tasks, DrainTimeout(t) PROVE TypeInv'
  BY <1>20 DEF DrainTimeout, Leave
<1>21. ASSUME NEW t \in Tasks, NEW p \in Plugins, SkipHook(t, p) PROVE TypeInv'
  BY <1>21 DEF SkipHook
<1>22. ASSUME NEW t \in Tasks, NEW p \in Plugins, EnterHook(t, p) PROVE TypeInv'
  BY <1>22 DEF EnterHook
<1>23. ASSUME NEW t \in Tasks, NEW p \in Plugins, HookDone(t, p) PROVE TypeInv'
  BY <1>23 DEF HookDone
<1>24. ASSUME NEW t \in Tasks, NEW p \in Plugins, HookFails(t, p) PROVE TypeInv'
  BY <1>24 DEF HookFails
<1>25. ASSUME NEW t \in Tasks, NEW e \in BOOLEAN, FinishShutdown(t, e) PROVE TypeInv'
  BY <1>25 DEF FinishShutdown, Leave
<1>26. ASSUME NEW t \in Tasks, WaiterReturns(t) PROVE TypeInv'
  BY <1>26 DEF WaiterReturns, Leave
<1>27. ASSUME NEW t \in Tasks, ReleaseDispatch(t) PROVE TypeInv'
  BY <1>27 DEF ReleaseDispatch, Decrement
<1>28. ASSUME NEW t \in Tasks, EndSubscription(t) PROVE TypeInv'
  BY <1>28 DEF EndSubscription, Decrement
<1>29. ASSUME NEW t \in Tasks, CancelBegun(t) PROVE TypeInv'
  BY <1>29 DEF CancelBegun
<1>30. ASSUME NEW t \in Tasks, CancelWorker(t) PROVE TypeInv'
  BY <1>30 DEF CancelWorker, Leave
<1>31. ASSUME NEW t \in Tasks, CancelWaiter(t) PROVE TypeInv'
  BY <1>31 DEF CancelWaiter, Leave
<1>32. ASSUME NEW m \in Managers, NEW p \in Plugins, Subscribe(m, p) PROVE TypeInv'
  BY <1>32 DEF Subscribe
<1>33. ASSUME NEW m \in Managers, NEW p \in Plugins, Unsubscribe(m, p) PROVE TypeInv'
  BY <1>33 DEF Unsubscribe
<1>34. CASE UNCHANGED vars
  BY <1>34 DEF vars
<1> HIDE DEF TypeInv, mgrVars, stopVars, gateVars, callVars, workVars
<1> QED
  BY PMAssumption, <1>1, <1>2, <1>3, <1>4, <1>5, <1>6, <1>7, <1>8, <1>9, <1>10, <1>11, <1>12,
      <1>13, <1>14, <1>15, <1>16, <1>17, <1>18, <1>19, <1>20, <1>21, <1>22, <1>23, <1>24, <1>25,
      <1>26, <1>27, <1>28, <1>29, <1>30, <1>31, <1>32, <1>33, <1>34 DEF ManagerNext, Call, Proceed,
      Setup, ShutdownSteps, EndHandler, Cancel, Resubscribe, Setting

\* The transition lock follows the calls that hold it.
LEMMA LockStep ==
  ASSUME TypeInv, LockInv, [ManagerNext]_vars
  PROVE  LockInv'
<1> USE PMAssumption DEF TypeInv, UserCalls, TypeOK, FieldsOK, Labels, LockInv, LockHolder,
    Setting, mgrVars, stopVars, gateVars, callVars, workVars, Goto
<1>1. ASSUME NEW t \in Tasks, NEW m \in Managers, AcquireDispatch(t, m) PROVE LockInv'
  BY <1>1 DEF AcquireDispatch
<1>2. ASSUME NEW t \in Tasks, NEW m \in Managers, BeginSubscription(t, m) PROVE LockInv'
  BY <1>2 DEF BeginSubscription
<1>3. ASSUME NEW t \in Tasks, NEW m \in Managers, LoadNothing(t, m) PROVE LockInv'
  BY <1>3 DEF LoadNothing, AddNothing, Free
<1>4. ASSUME NEW t \in Tasks, NEW m \in Managers, NEW p \in Plugins, LoadPlugin(t, m, p) PROVE
    LockInv'
  BY <1>4 DEF LoadPlugin, AddPlugin, Free
<1>5. ASSUME NEW t \in Tasks, NEW m \in Managers, NEW mode \in Setting, SetupClient(t, m, mode)
    PROVE LockInv'
  BY <1>5 DEF SetupClient, SetupBegins, Acquire, Free
<1>6. ASSUME NEW t \in Tasks, NEW m \in Managers, Activate(t, m) PROVE LockInv'
  BY <1>6 DEF Activate, Acquire, Free
<1>7. ASSUME NEW t \in Tasks, NEW m \in Managers, ShutdownReported(t, m) PROVE LockInv'
  BY <1>7 DEF ShutdownReported, CallsShutdown, Leave
<1>8. ASSUME NEW t \in Tasks, NEW m \in Managers, ShutdownJoin(t, m) PROVE LockInv'
  BY <1>8 DEF ShutdownJoin, CallsShutdown
<1>9. ASSUME NEW t \in Tasks, NEW m \in Managers, ShutdownStart(t, m) PROVE LockInv'
  BY <1>9 DEF ShutdownStart, CallsShutdown, Acquire, Free
<1>10. ASSUME NEW t \in Tasks, StartCallback(t) PROVE LockInv'
  BY <1>10 DEF StartCallback
<1>11. ASSUME NEW t \in Tasks, NEW p \in Plugins, SetupHook(t, p) PROVE LockInv'
  BY <1>11 DEF SetupHook
<1>12. ASSUME NEW t \in Tasks, NEW p \in Plugins, NEW q \in Plugins, SetupHookLoads(t, p, q) PROVE
    LockInv'
  BY <1>12 DEF SetupHookLoads
<1>13. ASSUME NEW t \in Tasks, SetupFail(t) PROVE LockInv'
  BY <1>13 DEF SetupFail, Release, Leave
<1>14. ASSUME NEW t \in Tasks, SetupActivate(t) PROVE LockInv'
  BY <1>14 DEF SetupActivate
<1>15. ASSUME NEW t \in Tasks, SetupStage(t) PROVE LockInv'
  BY <1>15 DEF SetupStage, Release, Leave
<1>16. ASSUME NEW t \in Tasks, Enable(t) PROVE LockInv'
  BY <1>16 DEF Enable, Release, Leave
<1>17. ASSUME NEW t \in Tasks, Disable(t) PROVE LockInv'
  BY <1>17 DEF Disable, Release
<1>18. ASSUME NEW t \in Tasks, Drained(t) PROVE LockInv'
  BY <1>18 DEF Drained
<1>19. ASSUME NEW t \in Tasks, OwnerDrained(t) PROVE LockInv'
  BY <1>19 DEF OwnerDrained
<1>20. ASSUME NEW t \in Tasks, DrainTimeout(t) PROVE LockInv'
  BY <1>20 DEF DrainTimeout, Leave
<1>21. ASSUME NEW t \in Tasks, NEW p \in Plugins, SkipHook(t, p) PROVE LockInv'
  BY <1>21 DEF SkipHook
<1>22. ASSUME NEW t \in Tasks, NEW p \in Plugins, EnterHook(t, p) PROVE LockInv'
  BY <1>22 DEF EnterHook
<1>23. ASSUME NEW t \in Tasks, NEW p \in Plugins, HookDone(t, p) PROVE LockInv'
  BY <1>23 DEF HookDone
<1>24. ASSUME NEW t \in Tasks, NEW p \in Plugins, HookFails(t, p) PROVE LockInv'
  BY <1>24 DEF HookFails
<1>25. ASSUME NEW t \in Tasks, NEW e \in BOOLEAN, FinishShutdown(t, e) PROVE LockInv'
  BY <1>25 DEF FinishShutdown, Leave
<1>26. ASSUME NEW t \in Tasks, WaiterReturns(t) PROVE LockInv'
  BY <1>26 DEF WaiterReturns, Leave
<1>27. ASSUME NEW t \in Tasks, ReleaseDispatch(t) PROVE LockInv'
  BY <1>27 DEF ReleaseDispatch
<1>28. ASSUME NEW t \in Tasks, EndSubscription(t) PROVE LockInv'
  BY <1>28 DEF EndSubscription
<1>29. ASSUME NEW t \in Tasks, CancelBegun(t) PROVE LockInv'
  BY <1>29 DEF CancelBegun
<1>30. ASSUME NEW t \in Tasks, CancelWorker(t) PROVE LockInv'
  BY <1>30 DEF CancelWorker, Leave
<1>31. ASSUME NEW t \in Tasks, CancelWaiter(t) PROVE LockInv'
  BY <1>31 DEF CancelWaiter, Leave
<1>32. ASSUME NEW m \in Managers, NEW p \in Plugins, Subscribe(m, p) PROVE LockInv'
  BY <1>32 DEF Subscribe
<1>33. ASSUME NEW m \in Managers, NEW p \in Plugins, Unsubscribe(m, p) PROVE LockInv'
  BY <1>33 DEF Unsubscribe
<1>34. CASE UNCHANGED vars
  BY <1>34 DEF vars
<1> HIDE DEF LockInv, mgrVars, stopVars, gateVars, callVars, workVars
<1> QED
  BY PMAssumption, <1>1, <1>2, <1>3, <1>4, <1>5, <1>6, <1>7, <1>8, <1>9, <1>10, <1>11, <1>12,
      <1>13, <1>14, <1>15, <1>16, <1>17, <1>18, <1>19, <1>20, <1>21, <1>22, <1>23, <1>24, <1>25,
      <1>26, <1>27, <1>28, <1>29, <1>30, <1>31, <1>32, <1>33, <1>34 DEF ManagerNext, Call, Proceed,
      Setup, ShutdownSteps, EndHandler, Cancel, Resubscribe, Setting

\* The state of a manager agrees with the calls in progress on it.
LEMMA StateStep ==
  ASSUME TypeInv, LockInv, StateInv, WorkerInv, [ManagerNext]_vars
  PROVE  StateInv'
<1> USE PMAssumption DEF TypeInv, UserCalls, TypeOK, FieldsOK, Labels, States, LockInv, LockHolder,
    Setting, StateInv, Worker, mgrVars, stopVars, gateVars, callVars, workVars, Goto
<1>1. ASSUME NEW t \in Tasks, NEW m \in Managers, AcquireDispatch(t, m) PROVE StateInv'
  BY <1>1 DEF AcquireDispatch
<1>2. ASSUME NEW t \in Tasks, NEW m \in Managers, BeginSubscription(t, m) PROVE StateInv'
  BY <1>2 DEF BeginSubscription
<1>3. ASSUME NEW t \in Tasks, NEW m \in Managers, LoadNothing(t, m) PROVE StateInv'
  BY <1>3 DEF LoadNothing, AddNothing, Free, LoadAllowed, AfterLoad
<1>4. ASSUME NEW t \in Tasks, NEW m \in Managers, NEW p \in Plugins, LoadPlugin(t, m, p) PROVE
    StateInv'
  BY <1>4 DEF LoadPlugin, AddPlugin, Free, LoadAllowed, AfterLoad
<1>5. ASSUME NEW t \in Tasks, NEW m \in Managers, NEW mode \in Setting, SetupClient(t, m, mode)
    PROVE StateInv'
  BY <1>5 DEF SetupClient, SetupBegins, Acquire, SetupAllowed, Free
<1>6. ASSUME NEW t \in Tasks, NEW m \in Managers, Activate(t, m) PROVE StateInv'
  BY <1>6 DEF Activate, Acquire, Free
<1>7. ASSUME NEW t \in Tasks, NEW m \in Managers, ShutdownReported(t, m) PROVE StateInv'
  BY <1>7 DEF ShutdownReported, CallsShutdown, Leave
<1>8. ASSUME NEW t \in Tasks, NEW m \in Managers, ShutdownJoin(t, m) PROVE StateInv'
  BY <1>8 DEF ShutdownJoin, CallsShutdown, Starts
<1>9. ASSUME NEW t \in Tasks, NEW m \in Managers, ShutdownStart(t, m) PROVE StateInv'
  BY <1>9 DEF ShutdownStart, CallsShutdown, Acquire, Starts, Free
<1>10. ASSUME NEW t \in Tasks, StartCallback(t) PROVE StateInv'
  BY <1>10 DEF StartCallback
<1>11. ASSUME NEW t \in Tasks, NEW p \in Plugins, SetupHook(t, p) PROVE StateInv'
  BY <1>11 DEF SetupHook
<1>12. ASSUME NEW t \in Tasks, NEW p \in Plugins, NEW q \in Plugins, SetupHookLoads(t, p, q) PROVE
    StateInv'
  BY <1>12 DEF SetupHookLoads, LoadAllowed, AfterLoad
<1>13. ASSUME NEW t \in Tasks, SetupFail(t) PROVE StateInv'
  <2>1. mgr[t] \in Managers /\ tlock[mgr[t]] = t
    BY <1>13 DEF SetupFail
  <2>2. \A u \in Tasks \ {t} : pc[u] \in LockHolder => mgr[u] # mgr[t]
    BY <2>1
  <2>3. state[mgr[t]] \notin {"closed", "draining"}
    BY <1>13 DEF SetupFail
  <2> QED
    BY <1>13, <2>1, <2>2, <2>3 DEF SetupFail, Leave
<1>14. ASSUME NEW t \in Tasks, SetupActivate(t) PROVE StateInv'
  <2>1. mgr[t] \in Managers /\ tlock[mgr[t]] = t
    BY <1>14 DEF SetupActivate
  <2>2. \A u \in Tasks \ {t} : pc[u] \in LockHolder => mgr[u] # mgr[t]
    BY <2>1
  <2>3. state[mgr[t]] \notin {"closed", "draining"}
    BY <1>14 DEF SetupActivate
  <2> QED
    BY <1>14, <2>1, <2>2, <2>3 DEF SetupActivate
<1>15. ASSUME NEW t \in Tasks, SetupStage(t) PROVE StateInv'
  BY <1>15 DEF SetupStage, Leave
<1>16. ASSUME NEW t \in Tasks, Enable(t) PROVE StateInv'
  BY <1>16 DEF Enable, Leave
<1>17. ASSUME NEW t \in Tasks, Disable(t) PROVE StateInv'
  BY <1>17 DEF Disable
<1>18. ASSUME NEW t \in Tasks, Drained(t) PROVE StateInv'
  BY <1>18 DEF Drained
<1>19. ASSUME NEW t \in Tasks, OwnerDrained(t) PROVE StateInv'
  BY <1>19 DEF OwnerDrained
<1>20. ASSUME NEW t \in Tasks, DrainTimeout(t) PROVE StateInv'
  <2>1. mgr[t] \in Managers /\ pc[t] \in Worker
    BY <1>20 DEF DrainTimeout
  <2>2. \A u \in Tasks \ {t} : pc[u] \in Worker => mgr[u] # mgr[t]
    BY <2>1 DEF WorkerInv, Workers
  <2>3. \A u \in Tasks \ {t} : pc[u] \in Setting \union {"enabling"} => mgr[u] # mgr[t]
    BY <2>1, WorkerExcludesSetup
  <2> QED
    BY <1>20, <2>1, <2>2, <2>3 DEF DrainTimeout, Leave
<1>21. ASSUME NEW t \in Tasks, NEW p \in Plugins, SkipHook(t, p) PROVE StateInv'
  BY <1>21 DEF SkipHook
<1>22. ASSUME NEW t \in Tasks, NEW p \in Plugins, EnterHook(t, p) PROVE StateInv'
  BY <1>22 DEF EnterHook
<1>23. ASSUME NEW t \in Tasks, NEW p \in Plugins, HookDone(t, p) PROVE StateInv'
  BY <1>23 DEF HookDone
<1>24. ASSUME NEW t \in Tasks, NEW p \in Plugins, HookFails(t, p) PROVE StateInv'
  BY <1>24 DEF HookFails
<1>25. ASSUME NEW t \in Tasks, NEW e \in BOOLEAN, FinishShutdown(t, e) PROVE StateInv'
  <2>1. mgr[t] \in Managers /\ pc[t] \in Worker
    BY <1>25 DEF FinishShutdown
  <2>2. \A u \in Tasks \ {t} : pc[u] \in Worker => mgr[u] # mgr[t]
    BY <2>1 DEF WorkerInv, Workers
  <2>3. \A u \in Tasks \ {t} : pc[u] \in Setting \union {"enabling"} => mgr[u] # mgr[t]
    BY <2>1, WorkerExcludesSetup
  <2> QED
    BY <1>25, <2>1, <2>2, <2>3 DEF FinishShutdown, Leave
<1>26. ASSUME NEW t \in Tasks, WaiterReturns(t) PROVE StateInv'
  BY <1>26 DEF WaiterReturns, Leave
<1>27. ASSUME NEW t \in Tasks, ReleaseDispatch(t) PROVE StateInv'
  BY <1>27 DEF ReleaseDispatch
<1>28. ASSUME NEW t \in Tasks, EndSubscription(t) PROVE StateInv'
  BY <1>28 DEF EndSubscription
<1>29. ASSUME NEW t \in Tasks, CancelBegun(t) PROVE StateInv'
  BY <1>29 DEF CancelBegun
<1>30. ASSUME NEW t \in Tasks, CancelWorker(t) PROVE StateInv'
  <2>1. mgr[t] \in Managers /\ pc[t] \in Worker
    BY <1>30 DEF CancelWorker
  <2>2. \A u \in Tasks \ {t} : pc[u] \in Worker => mgr[u] # mgr[t]
    BY <2>1 DEF WorkerInv, Workers
  <2>3. \A u \in Tasks \ {t} : pc[u] \in Setting \union {"enabling"} => mgr[u] # mgr[t]
    BY <2>1, WorkerExcludesSetup
  <2> QED
    BY <1>30, <2>1, <2>2, <2>3 DEF CancelWorker, Leave
<1>31. ASSUME NEW t \in Tasks, CancelWaiter(t) PROVE StateInv'
  BY <1>31 DEF CancelWaiter, Leave
<1>32. ASSUME NEW m \in Managers, NEW p \in Plugins, Subscribe(m, p) PROVE StateInv'
  BY <1>32 DEF Subscribe
<1>33. ASSUME NEW m \in Managers, NEW p \in Plugins, Unsubscribe(m, p) PROVE StateInv'
  BY <1>33 DEF Unsubscribe
<1>34. CASE UNCHANGED vars
  BY <1>34 DEF vars
<1> HIDE DEF StateInv, mgrVars, stopVars, gateVars, callVars, workVars
<1> QED
  BY PMAssumption, <1>1, <1>2, <1>3, <1>4, <1>5, <1>6, <1>7, <1>8, <1>9, <1>10, <1>11, <1>12,
      <1>13, <1>14, <1>15, <1>16, <1>17, <1>18, <1>19, <1>20, <1>21, <1>22, <1>23, <1>24, <1>25,
      <1>26, <1>27, <1>28, <1>29, <1>30, <1>31, <1>32, <1>33, <1>34 DEF ManagerNext, Call, Proceed,
      Setup, ShutdownSteps, EndHandler, Cancel, Resubscribe, Setting

\* A manager has at most one worker, and has one until its shutdown is over.
LEMMA WorkerStep ==
  ASSUME TypeInv, LockInv, StateInv, WorkerInv, [ManagerNext]_vars
  PROVE  WorkerInv'
<1> USE PMAssumption DEF TypeInv, UserCalls, TypeOK, FieldsOK, Labels, Workers, Worker, mgrVars,
    stopVars, gateVars, callVars, workVars, Goto
<1>1. ASSUME NEW t \in Tasks, NEW m \in Managers, AcquireDispatch(t, m) PROVE WorkerInv'
  <2>1. \A x \in Managers : Workers(x)' = Workers(x)
    BY <1>1 DEF AcquireDispatch
  <2> QED
    BY <1>1, <2>1 DEF WorkerInv, AcquireDispatch
<1>2. ASSUME NEW t \in Tasks, NEW m \in Managers, BeginSubscription(t, m) PROVE WorkerInv'
  <2>1. \A x \in Managers : Workers(x)' = Workers(x)
    BY <1>2 DEF BeginSubscription
  <2> QED
    BY <1>2, <2>1 DEF WorkerInv, BeginSubscription
<1>3. ASSUME NEW t \in Tasks, NEW m \in Managers, LoadNothing(t, m) PROVE WorkerInv'
  <2>1. \A x \in Managers : Workers(x)' = Workers(x)
    BY <1>3 DEF LoadNothing, AddNothing
  <2> QED
    BY <1>3, <2>1 DEF WorkerInv, LoadNothing, AddNothing
<1>4. ASSUME NEW t \in Tasks, NEW m \in Managers, NEW p \in Plugins, LoadPlugin(t, m, p) PROVE
    WorkerInv'
  <2>1. \A x \in Managers : Workers(x)' = Workers(x)
    BY <1>4 DEF LoadPlugin, AddPlugin
  <2> QED
    BY <1>4, <2>1 DEF WorkerInv, LoadPlugin, AddPlugin
<1>5. ASSUME NEW t \in Tasks, NEW m \in Managers, NEW mode \in Setting, SetupClient(t, m, mode)
    PROVE WorkerInv'
  <2>1. \A x \in Managers : Workers(x)' = Workers(x)
    BY <1>5 DEF SetupClient, SetupBegins, Setting
  <2> QED
    BY <1>5, <2>1 DEF WorkerInv, SetupClient, SetupBegins, Setting
<1>6. ASSUME NEW t \in Tasks, NEW m \in Managers, Activate(t, m) PROVE WorkerInv'
  <2>1. \A x \in Managers : Workers(x)' = Workers(x)
    BY <1>6 DEF Activate
  <2> QED
    BY <1>6, <2>1 DEF WorkerInv, Activate
<1>7. ASSUME NEW t \in Tasks, NEW m \in Managers, ShutdownReported(t, m) PROVE WorkerInv'
  <2>1. \A x \in Managers : Workers(x)' = Workers(x)
    BY <1>7 DEF ShutdownReported, CallsShutdown, Leave
  <2> QED
    BY <1>7, <2>1 DEF WorkerInv, ShutdownReported, CallsShutdown, Leave
<1>8. ASSUME NEW t \in Tasks, NEW m \in Managers, ShutdownJoin(t, m) PROVE WorkerInv'
  <2>1. \A x \in Managers : Workers(x)' = Workers(x)
    BY <1>8 DEF ShutdownJoin, CallsShutdown
  <2> QED
    BY <1>8, <2>1 DEF WorkerInv, ShutdownJoin, CallsShutdown
<1>9. ASSUME NEW t \in Tasks, NEW m \in Managers, ShutdownStart(t, m) PROVE WorkerInv'
  <2>1. Workers(m) = {}
    BY <1>9, StateInv DEF ShutdownStart, Starts, StateInv
  <2>2. Workers(m)' = {t} /\ \A x \in Managers \ {m} : Workers(x)' = Workers(x)
    BY <1>9, <2>1 DEF ShutdownStart, CallsShutdown
  <2> QED
    BY <1>9, <2>2 DEF ShutdownStart, WorkerInv
<1>10. ASSUME NEW t \in Tasks, StartCallback(t) PROVE WorkerInv'
  <2>1. \A x \in Managers : Workers(x)' = Workers(x)
    BY <1>10 DEF StartCallback
  <2> QED
    BY <1>10, <2>1 DEF WorkerInv, StartCallback
<1>11. ASSUME NEW t \in Tasks, NEW p \in Plugins, SetupHook(t, p) PROVE WorkerInv'
  <2>1. \A x \in Managers : Workers(x)' = Workers(x)
    BY <1>11 DEF SetupHook
  <2> QED
    BY <1>11, <2>1 DEF WorkerInv, SetupHook
<1>12. ASSUME NEW t \in Tasks, NEW p \in Plugins, NEW q \in Plugins, SetupHookLoads(t, p, q) PROVE
    WorkerInv'
  <2>1. \A x \in Managers : Workers(x)' = Workers(x)
    BY <1>12 DEF SetupHookLoads
  <2> QED
    BY <1>12, <2>1 DEF WorkerInv, SetupHookLoads
<1>13. ASSUME NEW t \in Tasks, SetupFail(t) PROVE WorkerInv'
  <2>1. \A x \in Managers : Workers(x)' = Workers(x)
    BY <1>13 DEF SetupFail, Leave
  <2> QED
    BY <1>13, <2>1 DEF WorkerInv, SetupFail, Leave
<1>14. ASSUME NEW t \in Tasks, SetupActivate(t) PROVE WorkerInv'
  <2>1. \A x \in Managers : Workers(x)' = Workers(x)
    BY <1>14 DEF SetupActivate
  <2> QED
    BY <1>14, <2>1 DEF WorkerInv, SetupActivate
<1>15. ASSUME NEW t \in Tasks, SetupStage(t) PROVE WorkerInv'
  <2>1. \A x \in Managers : Workers(x)' = Workers(x)
    BY <1>15 DEF SetupStage, Leave
  <2> QED
    BY <1>15, <2>1 DEF WorkerInv, SetupStage, Leave
<1>16. ASSUME NEW t \in Tasks, Enable(t) PROVE WorkerInv'
  <2>1. \A x \in Managers : Workers(x)' = Workers(x)
    BY <1>16 DEF Enable, Leave
  <2> QED
    BY <1>16, <2>1 DEF WorkerInv, Enable, Leave
<1>17. ASSUME NEW t \in Tasks, Disable(t) PROVE WorkerInv'
  <2>1. \A x \in Managers : Workers(x)' = Workers(x)
    BY <1>17 DEF Disable
  <2> QED
    BY <1>17, <2>1 DEF WorkerInv, Disable
<1>18. ASSUME NEW t \in Tasks, Drained(t) PROVE WorkerInv'
  <2>1. \A x \in Managers : Workers(x)' = Workers(x)
    BY <1>18 DEF Drained
  <2> QED
    BY <1>18, <2>1 DEF WorkerInv, Drained
<1>19. ASSUME NEW t \in Tasks, OwnerDrained(t) PROVE WorkerInv'
  <2>1. \A x \in Managers : Workers(x)' = Workers(x)
    BY <1>19 DEF OwnerDrained
  <2> QED
    BY <1>19, <2>1 DEF WorkerInv, OwnerDrained
<1>20. ASSUME NEW t \in Tasks, DrainTimeout(t) PROVE WorkerInv'
  <2>1. PICK m \in Managers : m = mgr[t]
    BY <1>20 DEF DrainTimeout
  <2>2. t \in Workers(m) /\ pc'[t] = "idle"
        /\ \A u \in Tasks \ {t} : pc'[u] = pc[u] /\ mgr'[u] = mgr[u]
    BY <1>20, <2>1 DEF DrainTimeout, Leave
  <2>3. Workers(m)' = {} /\ \A x \in Managers \ {m} : Workers(x)' = Workers(x)
    <3>1. \A u \in Workers(m) : u = t
      BY <2>2 DEF WorkerInv
    <3> HIDE DEF Workers
    <3> QED
      BY <2>2, <3>1, OnlyWorkerEnds
  <2>4. ~started'[m]
    BY <1>20, <2>1, StateInv DEF DrainTimeout, States, StateInv
  <2>5. \A x \in Managers \ {m} : started'[x] = started[x] /\ report'[x] = report[x]
    BY <1>20, <2>1 DEF DrainTimeout
  <2> QED
    BY <2>1, <2>3, <2>4, <2>5 DEF WorkerInv
<1>21. ASSUME NEW t \in Tasks, NEW p \in Plugins, SkipHook(t, p) PROVE WorkerInv'
  <2>1. \A x \in Managers : Workers(x)' = Workers(x)
    BY <1>21 DEF SkipHook
  <2> QED
    BY <1>21, <2>1 DEF WorkerInv, SkipHook
<1>22. ASSUME NEW t \in Tasks, NEW p \in Plugins, EnterHook(t, p) PROVE WorkerInv'
  <2>1. \A x \in Managers : Workers(x)' = Workers(x)
    BY <1>22 DEF EnterHook
  <2> QED
    BY <1>22, <2>1 DEF WorkerInv, EnterHook
<1>23. ASSUME NEW t \in Tasks, NEW p \in Plugins, HookDone(t, p) PROVE WorkerInv'
  <2>1. \A x \in Managers : Workers(x)' = Workers(x)
    BY <1>23 DEF HookDone
  <2> QED
    BY <1>23, <2>1 DEF WorkerInv, HookDone
<1>24. ASSUME NEW t \in Tasks, NEW p \in Plugins, HookFails(t, p) PROVE WorkerInv'
  <2>1. \A x \in Managers : Workers(x)' = Workers(x)
    BY <1>24 DEF HookFails
  <2> QED
    BY <1>24, <2>1 DEF WorkerInv, HookFails
<1>25. ASSUME NEW t \in Tasks, NEW e \in BOOLEAN, FinishShutdown(t, e) PROVE WorkerInv'
  <2>1. PICK m \in Managers : m = mgr[t]
    BY <1>25 DEF FinishShutdown
  <2>2. t \in Workers(m) /\ pc'[t] = "idle"
        /\ \A u \in Tasks \ {t} : pc'[u] = pc[u] /\ mgr'[u] = mgr[u]
    BY <1>25, <2>1 DEF FinishShutdown, Leave
  <2>3. Workers(m)' = {} /\ \A x \in Managers \ {m} : Workers(x)' = Workers(x)
    <3>1. \A u \in Workers(m) : u = t
      BY <2>2 DEF WorkerInv
    <3> HIDE DEF Workers
    <3> QED
      BY <2>2, <3>1, OnlyWorkerEnds
  <2>4. report'[m] # "none"
    BY <1>25, <2>1, StateInv DEF FinishShutdown, States, StateInv
  <2>5. \A x \in Managers \ {m} : started'[x] = started[x] /\ report'[x] = report[x]
    BY <1>25, <2>1 DEF FinishShutdown
  <2> QED
    BY <2>1, <2>3, <2>4, <2>5 DEF WorkerInv
<1>26. ASSUME NEW t \in Tasks, WaiterReturns(t) PROVE WorkerInv'
  <2>1. \A x \in Managers : Workers(x)' = Workers(x)
    BY <1>26 DEF WaiterReturns, Leave
  <2> QED
    BY <1>26, <2>1 DEF WorkerInv, WaiterReturns, Leave
<1>27. ASSUME NEW t \in Tasks, ReleaseDispatch(t) PROVE WorkerInv'
  <2>1. \A x \in Managers : Workers(x)' = Workers(x)
    BY <1>27 DEF ReleaseDispatch
  <2> QED
    BY <1>27, <2>1 DEF WorkerInv, ReleaseDispatch
<1>28. ASSUME NEW t \in Tasks, EndSubscription(t) PROVE WorkerInv'
  <2>1. \A x \in Managers : Workers(x)' = Workers(x)
    BY <1>28 DEF EndSubscription
  <2> QED
    BY <1>28, <2>1 DEF WorkerInv, EndSubscription
<1>29. ASSUME NEW t \in Tasks, CancelBegun(t) PROVE WorkerInv'
  <2>1. \A x \in Managers : Workers(x)' = Workers(x)
    BY <1>29 DEF CancelBegun
  <2> QED
    BY <1>29, <2>1 DEF WorkerInv, CancelBegun
<1>30. ASSUME NEW t \in Tasks, CancelWorker(t) PROVE WorkerInv'
  <2>1. PICK m \in Managers : m = mgr[t]
    BY <1>30 DEF CancelWorker
  <2>2. t \in Workers(m) /\ pc'[t] = "idle"
        /\ \A u \in Tasks \ {t} : pc'[u] = pc[u] /\ mgr'[u] = mgr[u]
    BY <1>30, <2>1 DEF CancelWorker, Leave
  <2>3. Workers(m)' = {} /\ \A x \in Managers \ {m} : Workers(x)' = Workers(x)
    <3>1. \A u \in Workers(m) : u = t
      BY <2>2 DEF WorkerInv
    <3> HIDE DEF Workers
    <3> QED
      BY <2>2, <3>1, OnlyWorkerEnds
  <2>4. ~started'[m]
    BY <1>30, <2>1, StateInv DEF CancelWorker, States, StateInv
  <2>5. \A x \in Managers \ {m} : started'[x] = started[x] /\ report'[x] = report[x]
    BY <1>30, <2>1 DEF CancelWorker
  <2> QED
    BY <2>1, <2>3, <2>4, <2>5 DEF WorkerInv
<1>31. ASSUME NEW t \in Tasks, CancelWaiter(t) PROVE WorkerInv'
  <2>1. \A x \in Managers : Workers(x)' = Workers(x)
    BY <1>31 DEF CancelWaiter, Leave
  <2> QED
    BY <1>31, <2>1 DEF WorkerInv, CancelWaiter, Leave
<1>32. ASSUME NEW m \in Managers, NEW p \in Plugins, Subscribe(m, p) PROVE WorkerInv'
  <2>1. \A x \in Managers : Workers(x)' = Workers(x)
    BY <1>32 DEF Subscribe
  <2> QED
    BY <1>32, <2>1 DEF WorkerInv, Subscribe
<1>33. ASSUME NEW m \in Managers, NEW p \in Plugins, Unsubscribe(m, p) PROVE WorkerInv'
  <2>1. \A x \in Managers : Workers(x)' = Workers(x)
    BY <1>33 DEF Unsubscribe
  <2> QED
    BY <1>33, <2>1 DEF WorkerInv, Unsubscribe
<1>34. CASE UNCHANGED vars
  BY <1>34 DEF vars, WorkerInv
<1> HIDE DEF WorkerInv, mgrVars, stopVars, gateVars, callVars, workVars
<1> QED
  BY PMAssumption, <1>1, <1>2, <1>3, <1>4, <1>5, <1>6, <1>7, <1>8, <1>9, <1>10, <1>11, <1>12,
      <1>13, <1>14, <1>15, <1>16, <1>17, <1>18, <1>19, <1>20, <1>21, <1>22, <1>23, <1>24, <1>25,
      <1>26, <1>27, <1>28, <1>29, <1>30, <1>31, <1>32, <1>33, <1>34 DEF ManagerNext, Call, Proceed,
      Setup, ShutdownSteps, EndHandler, Cancel, Resubscribe, Setting

\* The gate of a manager opens and closes with it.
LEMMA GateStep ==
  ASSUME TypeInv, LockInv, StateInv, GateInv, [ManagerNext]_vars
  PROVE  GateInv'
<1> USE PMAssumption DEF TypeInv, UserCalls, TypeOK, FieldsOK, Labels, LockInv, LockHolder,
    Setting, StateInv, Worker, GateInv, mgrVars, stopVars, gateVars, callVars, workVars, Goto
<1>1. ASSUME NEW t \in Tasks, NEW m \in Managers, AcquireDispatch(t, m) PROVE GateInv'
  BY <1>1 DEF AcquireDispatch
<1>2. ASSUME NEW t \in Tasks, NEW m \in Managers, BeginSubscription(t, m) PROVE GateInv'
  BY <1>2 DEF BeginSubscription
<1>3. ASSUME NEW t \in Tasks, NEW m \in Managers, LoadNothing(t, m) PROVE GateInv'
  BY <1>3 DEF LoadNothing, AddNothing, Free, LoadAllowed, AfterLoad
<1>4. ASSUME NEW t \in Tasks, NEW m \in Managers, NEW p \in Plugins, LoadPlugin(t, m, p) PROVE
    GateInv'
  BY <1>4 DEF LoadPlugin, AddPlugin, Free, LoadAllowed, AfterLoad
<1>5. ASSUME NEW t \in Tasks, NEW m \in Managers, NEW mode \in Setting, SetupClient(t, m, mode)
    PROVE GateInv'
  BY <1>5 DEF SetupClient, SetupBegins, Acquire, SetupAllowed, Free
<1>6. ASSUME NEW t \in Tasks, NEW m \in Managers, Activate(t, m) PROVE GateInv'
  BY <1>6 DEF Activate, Acquire, Free
<1>7. ASSUME NEW t \in Tasks, NEW m \in Managers, ShutdownReported(t, m) PROVE GateInv'
  BY <1>7 DEF ShutdownReported, CallsShutdown, Leave
<1>8. ASSUME NEW t \in Tasks, NEW m \in Managers, ShutdownJoin(t, m) PROVE GateInv'
  BY <1>8 DEF ShutdownJoin, CallsShutdown, Starts
<1>9. ASSUME NEW t \in Tasks, NEW m \in Managers, ShutdownStart(t, m) PROVE GateInv'
  BY <1>9 DEF ShutdownStart, CallsShutdown, Acquire, Starts, Free
<1>10. ASSUME NEW t \in Tasks, StartCallback(t) PROVE GateInv'
  BY <1>10 DEF StartCallback
<1>11. ASSUME NEW t \in Tasks, NEW p \in Plugins, SetupHook(t, p) PROVE GateInv'
  BY <1>11 DEF SetupHook
<1>12. ASSUME NEW t \in Tasks, NEW p \in Plugins, NEW q \in Plugins, SetupHookLoads(t, p, q) PROVE
    GateInv'
  BY <1>12 DEF SetupHookLoads, LoadAllowed, AfterLoad
<1>13. ASSUME NEW t \in Tasks, SetupFail(t) PROVE GateInv'
  BY <1>13 DEF SetupFail, Release, Leave
<1>14. ASSUME NEW t \in Tasks, SetupActivate(t) PROVE GateInv'
  BY <1>14 DEF SetupActivate
<1>15. ASSUME NEW t \in Tasks, SetupStage(t) PROVE GateInv'
  BY <1>15 DEF SetupStage, Release, Leave
<1>16. ASSUME NEW t \in Tasks, Enable(t) PROVE GateInv'
  BY <1>16 DEF Enable, Release, Leave
<1>17. ASSUME NEW t \in Tasks, Disable(t) PROVE GateInv'
  <2>1. mgr[t] \in Managers /\ tlock[mgr[t]] = t
    BY <1>17 DEF Disable
  <2>2. enabled'[mgr[t]] = FALSE
    <3>1. GateInDrain(mgr[t]) = FALSE
      BY <2>1 DEF GateInDrain
    <3>2. enabled' = [enabled EXCEPT ![mgr[t]] = GateInDrain(mgr[t])]
      BY <1>17 DEF Disable
    <3> QED
      BY <2>1, <3>1, <3>2
  <2>3. \A x \in Managers \ {mgr[t]} :
          enabled'[x] = enabled[x] /\ tlock'[x] = tlock[x] /\ tlock[x] # t
    BY <1>17, <2>1 DEF Disable, Release
  <2>4. state' = state /\ attached' = attached /\ \A u \in Tasks \ {t} : pc'[u] = pc[u]
    BY <1>17 DEF Disable
  <2>5. ASSUME NEW x \in Managers \ {mgr[t]}, enabled'[x]
        PROVE  attached'[x] /\ (state'[x] = "active" \/ (state'[x] = "draining"
                 /\ tlock'[x] \in Tasks /\ pc'[tlock'[x]] = "disabling"))
    BY <2>3, <2>4, <2>5
  <2> QED
    BY <2>2, <2>5
<1>18. ASSUME NEW t \in Tasks, Drained(t) PROVE GateInv'
  BY <1>18 DEF Drained
<1>19. ASSUME NEW t \in Tasks, OwnerDrained(t) PROVE GateInv'
  BY <1>19 DEF OwnerDrained
<1>20. ASSUME NEW t \in Tasks, DrainTimeout(t) PROVE GateInv'
  BY <1>20 DEF DrainTimeout, Leave
<1>21. ASSUME NEW t \in Tasks, NEW p \in Plugins, SkipHook(t, p) PROVE GateInv'
  BY <1>21 DEF SkipHook
<1>22. ASSUME NEW t \in Tasks, NEW p \in Plugins, EnterHook(t, p) PROVE GateInv'
  BY <1>22 DEF EnterHook
<1>23. ASSUME NEW t \in Tasks, NEW p \in Plugins, HookDone(t, p) PROVE GateInv'
  BY <1>23 DEF HookDone
<1>24. ASSUME NEW t \in Tasks, NEW p \in Plugins, HookFails(t, p) PROVE GateInv'
  BY <1>24 DEF HookFails
<1>25. ASSUME NEW t \in Tasks, NEW e \in BOOLEAN, FinishShutdown(t, e) PROVE GateInv'
  BY <1>25 DEF FinishShutdown, Leave
<1>26. ASSUME NEW t \in Tasks, WaiterReturns(t) PROVE GateInv'
  BY <1>26 DEF WaiterReturns, Leave
<1>27. ASSUME NEW t \in Tasks, ReleaseDispatch(t) PROVE GateInv'
  BY <1>27 DEF ReleaseDispatch
<1>28. ASSUME NEW t \in Tasks, EndSubscription(t) PROVE GateInv'
  BY <1>28 DEF EndSubscription
<1>29. ASSUME NEW t \in Tasks, CancelBegun(t) PROVE GateInv'
  BY <1>29 DEF CancelBegun
<1>30. ASSUME NEW t \in Tasks, CancelWorker(t) PROVE GateInv'
  BY <1>30 DEF CancelWorker, Leave
<1>31. ASSUME NEW t \in Tasks, CancelWaiter(t) PROVE GateInv'
  BY <1>31 DEF CancelWaiter, Leave
<1>32. ASSUME NEW m \in Managers, NEW p \in Plugins, Subscribe(m, p) PROVE GateInv'
  BY <1>32 DEF Subscribe
<1>33. ASSUME NEW m \in Managers, NEW p \in Plugins, Unsubscribe(m, p) PROVE GateInv'
  BY <1>33 DEF Unsubscribe
<1>34. CASE UNCHANGED vars
  BY <1>34 DEF vars
<1> HIDE DEF GateInv, mgrVars, stopVars, gateVars, callVars, workVars
<1> QED
  BY PMAssumption, <1>1, <1>2, <1>3, <1>4, <1>5, <1>6, <1>7, <1>8, <1>9, <1>10, <1>11, <1>12,
      <1>13, <1>14, <1>15, <1>16, <1>17, <1>18, <1>19, <1>20, <1>21, <1>22, <1>23, <1>24, <1>25,
      <1>26, <1>27, <1>28, <1>29, <1>30, <1>31, <1>32, <1>33, <1>34 DEF ManagerNext, Call, Proceed,
      Setup, ShutdownSteps, EndHandler, Cancel, Resubscribe, Setting

\* A load order that does not change, and one that gains a new plugin.
LEMMA SameOrder == OrderInv /\ order' = order => OrderInv'
  BY DEF OrderInv

LEMMA OneMore ==
  ASSUME order \in [Managers -> Seq(Plugins)], OrderInv,
         NEW m \in Managers, NEW p \in Plugins, p \notin Loaded(m),
         order' = [order EXCEPT ![m] = Append(@, p)]
  PROVE  OrderInv'
<1>1. order'[m] = Append(order[m], p) /\ \A x \in Managers \ {m} : order'[x] = order[x]
  OBVIOUS
<1>2. ASSUME NEW i \in 1 .. Len(order'[m]), NEW j \in 1 .. Len(order'[m]),
             order'[m][i] = order'[m][j]
      PROVE  i = j
  <2>1. Len(order'[m]) = Len(order[m]) + 1 /\ order'[m][Len(order[m]) + 1] = p
        /\ \A k \in 1 .. Len(order[m]) : order'[m][k] = order[m][k]
    BY <1>1
  <2>2. \A k \in 1 .. Len(order[m]) : order[m][k] # p
    BY DEF Loaded
  <2> QED
    BY <1>2, <2>1, <2>2 DEF OrderInv
<1> QED
  BY <1>1, <1>2 DEF OrderInv

\* Every step keeps a plugin loaded at most once.
LEMMA OrderStep ==
  ASSUME TypeInv, OrderInv, [ManagerNext]_vars
  PROVE  OrderInv'
<1> USE DEF TypeInv, TypeOK, FieldsOK, mgrVars, stopVars, gateVars, callVars, workVars
<1>1. ASSUME NEW t \in Tasks, NEW m \in Managers, AcquireDispatch(t, m) PROVE OrderInv'
  BY <1>1, SameOrder DEF AcquireDispatch
<1>2. ASSUME NEW t \in Tasks, NEW m \in Managers, BeginSubscription(t, m) PROVE OrderInv'
  BY <1>2, SameOrder DEF BeginSubscription
<1>3. ASSUME NEW t \in Tasks, NEW m \in Managers, LoadNothing(t, m) PROVE OrderInv'
  BY <1>3, SameOrder DEF LoadNothing, AddNothing
<1>4. ASSUME NEW t \in Tasks, NEW m \in Managers, NEW p \in Plugins, LoadPlugin(t, m, p) PROVE
    OrderInv'
  <2>1. p \notin Loaded(m) /\ order' = [order EXCEPT ![m] = Append(@, p)]
    BY <1>4 DEF LoadPlugin, AddPlugin
  <2> QED
    BY <2>1, OneMore
<1>5. ASSUME NEW t \in Tasks, NEW m \in Managers, NEW mode \in Setting, SetupClient(t, m, mode)
    PROVE OrderInv'
  BY <1>5, SameOrder DEF SetupClient, SetupBegins
<1>6. ASSUME NEW t \in Tasks, NEW m \in Managers, Activate(t, m) PROVE OrderInv'
  BY <1>6, SameOrder DEF Activate
<1>7. ASSUME NEW t \in Tasks, NEW m \in Managers, ShutdownReported(t, m) PROVE OrderInv'
  BY <1>7, SameOrder DEF ShutdownReported, CallsShutdown
<1>8. ASSUME NEW t \in Tasks, NEW m \in Managers, ShutdownJoin(t, m) PROVE OrderInv'
  BY <1>8, SameOrder DEF ShutdownJoin, CallsShutdown
<1>9. ASSUME NEW t \in Tasks, NEW m \in Managers, ShutdownStart(t, m) PROVE OrderInv'
  BY <1>9, SameOrder DEF ShutdownStart, CallsShutdown
<1>10. ASSUME NEW t \in Tasks, StartCallback(t) PROVE OrderInv'
  BY <1>10, SameOrder DEF StartCallback
<1>11. ASSUME NEW t \in Tasks, NEW p \in Plugins, SetupHook(t, p) PROVE OrderInv'
  BY <1>11, SameOrder DEF SetupHook
<1>12. ASSUME NEW t \in Tasks, NEW p \in Plugins, NEW q \in Plugins, SetupHookLoads(t, p, q) PROVE
    OrderInv'
  <2>1. PICK m \in Managers : m = mgr[t]
    BY <1>12 DEF SetupHookLoads
  <2>2. q \notin Loaded(m) /\ order' = [order EXCEPT ![m] = Append(@, q)]
    BY <1>12, <2>1 DEF SetupHookLoads
  <2> QED
    BY <2>2, OneMore
<1>13. ASSUME NEW t \in Tasks, SetupFail(t) PROVE OrderInv'
  BY <1>13, SameOrder DEF SetupFail
<1>14. ASSUME NEW t \in Tasks, SetupActivate(t) PROVE OrderInv'
  BY <1>14, SameOrder DEF SetupActivate
<1>15. ASSUME NEW t \in Tasks, SetupStage(t) PROVE OrderInv'
  BY <1>15, SameOrder DEF SetupStage
<1>16. ASSUME NEW t \in Tasks, Enable(t) PROVE OrderInv'
  BY <1>16, SameOrder DEF Enable
<1>17. ASSUME NEW t \in Tasks, Disable(t) PROVE OrderInv'
  BY <1>17, SameOrder DEF Disable
<1>18. ASSUME NEW t \in Tasks, Drained(t) PROVE OrderInv'
  BY <1>18, SameOrder DEF Drained
<1>19. ASSUME NEW t \in Tasks, OwnerDrained(t) PROVE OrderInv'
  BY <1>19, SameOrder DEF OwnerDrained
<1>20. ASSUME NEW t \in Tasks, DrainTimeout(t) PROVE OrderInv'
  BY <1>20, SameOrder DEF DrainTimeout
<1>21. ASSUME NEW t \in Tasks, NEW p \in Plugins, SkipHook(t, p) PROVE OrderInv'
  BY <1>21, SameOrder DEF SkipHook
<1>22. ASSUME NEW t \in Tasks, NEW p \in Plugins, EnterHook(t, p) PROVE OrderInv'
  BY <1>22, SameOrder DEF EnterHook
<1>23. ASSUME NEW t \in Tasks, NEW p \in Plugins, HookDone(t, p) PROVE OrderInv'
  BY <1>23, SameOrder DEF HookDone
<1>24. ASSUME NEW t \in Tasks, NEW p \in Plugins, HookFails(t, p) PROVE OrderInv'
  BY <1>24, SameOrder DEF HookFails
<1>25. ASSUME NEW t \in Tasks, NEW e \in BOOLEAN, FinishShutdown(t, e) PROVE OrderInv'
  BY <1>25, SameOrder DEF FinishShutdown
<1>26. ASSUME NEW t \in Tasks, WaiterReturns(t) PROVE OrderInv'
  BY <1>26, SameOrder DEF WaiterReturns
<1>27. ASSUME NEW t \in Tasks, ReleaseDispatch(t) PROVE OrderInv'
  BY <1>27, SameOrder DEF ReleaseDispatch
<1>28. ASSUME NEW t \in Tasks, EndSubscription(t) PROVE OrderInv'
  BY <1>28, SameOrder DEF EndSubscription
<1>29. ASSUME NEW t \in Tasks, CancelBegun(t) PROVE OrderInv'
  BY <1>29, SameOrder DEF CancelBegun
<1>30. ASSUME NEW t \in Tasks, CancelWorker(t) PROVE OrderInv'
  BY <1>30, SameOrder DEF CancelWorker
<1>31. ASSUME NEW t \in Tasks, CancelWaiter(t) PROVE OrderInv'
  BY <1>31, SameOrder DEF CancelWaiter
<1>32. ASSUME NEW m \in Managers, NEW p \in Plugins, Subscribe(m, p) PROVE OrderInv'
  BY <1>32, SameOrder DEF Subscribe
<1>33. ASSUME NEW m \in Managers, NEW p \in Plugins, Unsubscribe(m, p) PROVE OrderInv'
  BY <1>33, SameOrder DEF Unsubscribe
<1>34. CASE UNCHANGED vars
  BY <1>34, SameOrder DEF vars
<1> HIDE DEF mgrVars, stopVars, gateVars, callVars, workVars
<1> QED
  BY PMAssumption, <1>1, <1>2, <1>3, <1>4, <1>5, <1>6, <1>7, <1>8, <1>9, <1>10, <1>11, <1>12,
      <1>13, <1>14, <1>15, <1>16, <1>17, <1>18, <1>19, <1>20, <1>21, <1>22, <1>23, <1>24, <1>25,
      <1>26, <1>27, <1>28, <1>29, <1>30, <1>31, <1>32, <1>33, <1>34 DEF ManagerNext, Call, Proceed,
      Setup, ShutdownSteps, EndHandler, Cancel, Resubscribe, Setting

\* Every step keeps what the loop over the shutdown hooks has left.
LEMMA HookStep ==
  ASSUME TypeInv, LockInv, StateInv, WorkerInv, HookInv, [ManagerNext]_vars
  PROVE  HookInv'
<1> USE PMAssumption DEF TypeInv, UserCalls, TypeOK, FieldsOK, Labels, LockInv, LockHolder,
    Setting, StateInv, Worker, HookInv, mgrVars, stopVars, gateVars, callVars, workVars, Goto
<1>1. ASSUME NEW t \in Tasks, NEW m \in Managers, AcquireDispatch(t, m) PROVE HookInv'
  BY <1>1, LoadedFollowsOrder DEF AcquireDispatch
<1>2. ASSUME NEW t \in Tasks, NEW m \in Managers, BeginSubscription(t, m) PROVE HookInv'
  BY <1>2, LoadedFollowsOrder DEF BeginSubscription
<1>3. ASSUME NEW t \in Tasks, NEW m \in Managers, LoadNothing(t, m) PROVE HookInv'
  BY <1>3, LoadedFollowsOrder DEF LoadNothing, AddNothing, Free, LoadAllowed, AfterLoad
<1>4. ASSUME NEW t \in Tasks, NEW m \in Managers, NEW p \in Plugins, LoadPlugin(t, m, p) PROVE
    HookInv'
  BY <1>4, LoadedFollowsOrder DEF LoadPlugin, AddPlugin, Free, LoadAllowed, AfterLoad
<1>5. ASSUME NEW t \in Tasks, NEW m \in Managers, NEW mode \in Setting, SetupClient(t, m, mode)
    PROVE HookInv'
  BY <1>5, LoadedFollowsOrder DEF SetupClient, SetupBegins, Acquire, SetupAllowed, Free
<1>6. ASSUME NEW t \in Tasks, NEW m \in Managers, Activate(t, m) PROVE HookInv'
  BY <1>6, LoadedFollowsOrder DEF Activate, Acquire, Free
<1>7. ASSUME NEW t \in Tasks, NEW m \in Managers, ShutdownReported(t, m) PROVE HookInv'
  BY <1>7, LoadedFollowsOrder DEF ShutdownReported, CallsShutdown, Leave
<1>8. ASSUME NEW t \in Tasks, NEW m \in Managers, ShutdownJoin(t, m) PROVE HookInv'
  BY <1>8, LoadedFollowsOrder DEF ShutdownJoin, CallsShutdown, Starts
<1>9. ASSUME NEW t \in Tasks, NEW m \in Managers, ShutdownStart(t, m) PROVE HookInv'
  BY <1>9, LoadedFollowsOrder DEF ShutdownStart, CallsShutdown, Acquire, Starts, Free
<1>10. ASSUME NEW t \in Tasks, StartCallback(t) PROVE HookInv'
  BY <1>10, LoadedFollowsOrder DEF StartCallback
<1>11. ASSUME NEW t \in Tasks, NEW p \in Plugins, SetupHook(t, p) PROVE HookInv'
  <2>1. mgr[t] \in Managers /\ setup' = [setup EXCEPT ![mgr[t]] = @ \union {p}]
    BY <1>11 DEF SetupHook
  <2>2. pc' = pc /\ mgr' = mgr /\ err' = err /\ shut' = shut /\ order' = order
        /\ todo' = [todo EXCEPT ![t] = @ \ {p}]
    BY <1>11 DEF SetupHook
  <2>3. \A u \in Tasks : pc[u] \in {"hooks", "hook"} => u # t /\ mgr[u] # mgr[t]
    <3>1. pc[t] \in Setting
      BY <1>11 DEF SetupHook
    <3>2. state[mgr[t]] # "draining" /\ pc[t] \notin {"hooks", "hook"}
      BY <3>1
    <3>3. \A u \in Tasks : pc[u] \in {"hooks", "hook"} => state[mgr[u]] = "draining"
      OBVIOUS
    <3> QED
      BY <3>2, <3>3
  <2> QED
    BY <2>1, <2>2, <2>3, LoadedFollowsOrder
<1>12. ASSUME NEW t \in Tasks, NEW p \in Plugins, NEW q \in Plugins, SetupHookLoads(t, p, q) PROVE
    HookInv'
  BY <1>12, LoadedFollowsOrder DEF SetupHookLoads, LoadAllowed, AfterLoad
<1>13. ASSUME NEW t \in Tasks, SetupFail(t) PROVE HookInv'
  BY <1>13, LoadedFollowsOrder DEF SetupFail, Release, Leave
<1>14. ASSUME NEW t \in Tasks, SetupActivate(t) PROVE HookInv'
  BY <1>14, LoadedFollowsOrder DEF SetupActivate
<1>15. ASSUME NEW t \in Tasks, SetupStage(t) PROVE HookInv'
  BY <1>15, LoadedFollowsOrder DEF SetupStage, Release, Leave
<1>16. ASSUME NEW t \in Tasks, Enable(t) PROVE HookInv'
  BY <1>16, LoadedFollowsOrder DEF Enable, Release, Leave
<1>17. ASSUME NEW t \in Tasks, Disable(t) PROVE HookInv'
  BY <1>17, LoadedFollowsOrder DEF Disable, Release, GateInDrain
<1>18. ASSUME NEW t \in Tasks, Drained(t) PROVE HookInv'
  BY <1>18, LoadedFollowsOrder DEF Drained
<1>19. ASSUME NEW t \in Tasks, OwnerDrained(t) PROVE HookInv'
  BY <1>19, LoadedFollowsOrder DEF OwnerDrained, HooksLeft
<1>20. ASSUME NEW t \in Tasks, DrainTimeout(t) PROVE HookInv'
  BY <1>20, LoadedFollowsOrder DEF DrainTimeout, Leave, WorkerInv, Workers
<1>21. ASSUME NEW t \in Tasks, NEW p \in Plugins, SkipHook(t, p) PROVE HookInv'
  BY <1>21, LoadedFollowsOrder DEF SkipHook, WorkerInv, Workers
<1>22. ASSUME NEW t \in Tasks, NEW p \in Plugins, EnterHook(t, p) PROVE HookInv'
  BY <1>22, LoadedFollowsOrder DEF EnterHook, WorkerInv, Workers
<1>23. ASSUME NEW t \in Tasks, NEW p \in Plugins, HookDone(t, p) PROVE HookInv'
  BY <1>23, LoadedFollowsOrder DEF HookDone, WorkerInv, Workers
<1>24. ASSUME NEW t \in Tasks, NEW p \in Plugins, HookFails(t, p) PROVE HookInv'
  BY <1>24, LoadedFollowsOrder DEF HookFails, WorkerInv, Workers
<1>25. ASSUME NEW t \in Tasks, NEW e \in BOOLEAN, FinishShutdown(t, e) PROVE HookInv'
  BY <1>25, LoadedFollowsOrder DEF FinishShutdown, Leave, WorkerInv, Workers
<1>26. ASSUME NEW t \in Tasks, WaiterReturns(t) PROVE HookInv'
  BY <1>26, LoadedFollowsOrder DEF WaiterReturns, Leave
<1>27. ASSUME NEW t \in Tasks, ReleaseDispatch(t) PROVE HookInv'
  BY <1>27, LoadedFollowsOrder DEF ReleaseDispatch
<1>28. ASSUME NEW t \in Tasks, EndSubscription(t) PROVE HookInv'
  BY <1>28, LoadedFollowsOrder DEF EndSubscription
<1>29. ASSUME NEW t \in Tasks, CancelBegun(t) PROVE HookInv'
  BY <1>29, LoadedFollowsOrder DEF CancelBegun
<1>30. ASSUME NEW t \in Tasks, CancelWorker(t) PROVE HookInv'
  BY <1>30, LoadedFollowsOrder DEF CancelWorker, Leave, WorkerInv, Workers
<1>31. ASSUME NEW t \in Tasks, CancelWaiter(t) PROVE HookInv'
  BY <1>31, LoadedFollowsOrder DEF CancelWaiter, Leave
<1>32. ASSUME NEW m \in Managers, NEW p \in Plugins, Subscribe(m, p) PROVE HookInv'
  BY <1>32, LoadedFollowsOrder DEF Subscribe
<1>33. ASSUME NEW m \in Managers, NEW p \in Plugins, Unsubscribe(m, p) PROVE HookInv'
  BY <1>33, LoadedFollowsOrder DEF Unsubscribe
<1>34. CASE UNCHANGED vars
  BY <1>34, LoadedFollowsOrder DEF vars
<1> HIDE DEF HookInv, mgrVars, stopVars, gateVars, callVars, workVars
<1> QED
  BY PMAssumption, <1>1, <1>2, <1>3, <1>4, <1>5, <1>6, <1>7, <1>8, <1>9, <1>10, <1>11, <1>12,
      <1>13, <1>14, <1>15, <1>16, <1>17, <1>18, <1>19, <1>20, <1>21, <1>22, <1>23, <1>24, <1>25,
      <1>26, <1>27, <1>28, <1>29, <1>30, <1>31, <1>32, <1>33, <1>34 DEF ManagerNext, Call, Proceed,
      Setup, ShutdownSteps, EndHandler, Cancel, Resubscribe, Setting

\* Setup hooks are run before a manager serves.
LEMMA SetupStep ==
  ASSUME LoadingSetup = {}, TypeInv, LockInv, StateInv, SetupInv, [ManagerNext]_vars
  PROVE  SetupInv'
<1> USE PMAssumption DEF TypeInv, UserCalls, TypeOK, FieldsOK, Labels, LockInv, LockHolder,
    Setting, StateInv, Worker, SetupInv, mgrVars, stopVars, gateVars, callVars, workVars, Goto
<1>1. ASSUME NEW t \in Tasks, NEW m \in Managers, AcquireDispatch(t, m) PROVE SetupInv'
  BY <1>1, LoadedFollowsOrder DEF AcquireDispatch
<1>2. ASSUME NEW t \in Tasks, NEW m \in Managers, BeginSubscription(t, m) PROVE SetupInv'
  BY <1>2, LoadedFollowsOrder DEF BeginSubscription
<1>3. ASSUME NEW t \in Tasks, NEW m \in Managers, LoadNothing(t, m) PROVE SetupInv'
  BY <1>3, LoadedFollowsOrder DEF LoadNothing, AddNothing, Free, LoadAllowed, AfterLoad
<1>4. ASSUME NEW t \in Tasks, NEW m \in Managers, NEW p \in Plugins, LoadPlugin(t, m, p) PROVE
    SetupInv'
  BY <1>4, LoadedFollowsOrder DEF LoadPlugin, AddPlugin, Free, LoadAllowed, AfterLoad
<1>5. ASSUME NEW t \in Tasks, NEW m \in Managers, NEW mode \in Setting, SetupClient(t, m, mode)
    PROVE SetupInv'
  BY <1>5, LoadedFollowsOrder DEF SetupClient, SetupBegins, Acquire, SetupAllowed, Free
<1>6. ASSUME NEW t \in Tasks, NEW m \in Managers, Activate(t, m) PROVE SetupInv'
  BY <1>6, LoadedFollowsOrder DEF Activate, Acquire, Free, SetupComplete
<1>7. ASSUME NEW t \in Tasks, NEW m \in Managers, ShutdownReported(t, m) PROVE SetupInv'
  BY <1>7, LoadedFollowsOrder DEF ShutdownReported, CallsShutdown, Leave
<1>8. ASSUME NEW t \in Tasks, NEW m \in Managers, ShutdownJoin(t, m) PROVE SetupInv'
  BY <1>8, LoadedFollowsOrder DEF ShutdownJoin, CallsShutdown, Starts
<1>9. ASSUME NEW t \in Tasks, NEW m \in Managers, ShutdownStart(t, m) PROVE SetupInv'
  BY <1>9, LoadedFollowsOrder DEF ShutdownStart, CallsShutdown, Acquire, Starts, Free
<1>10. ASSUME NEW t \in Tasks, StartCallback(t) PROVE SetupInv'
  BY <1>10, LoadedFollowsOrder DEF StartCallback
<1>11. ASSUME NEW t \in Tasks, NEW p \in Plugins, SetupHook(t, p) PROVE SetupInv'
  BY <1>11, LoadedFollowsOrder DEF SetupHook
<1>12. ASSUME NEW t \in Tasks, NEW p \in Plugins, NEW q \in Plugins, SetupHookLoads(t, p, q) PROVE
    SetupInv'
  BY <1>12 DEF SetupHookLoads
<1>13. ASSUME NEW t \in Tasks, SetupFail(t) PROVE SetupInv'
  BY <1>13, LoadedFollowsOrder DEF SetupFail, Release, Leave
<1>14. ASSUME NEW t \in Tasks, SetupActivate(t) PROVE SetupInv'
  BY <1>14, LoadedFollowsOrder DEF SetupActivate
<1>15. ASSUME NEW t \in Tasks, SetupStage(t) PROVE SetupInv'
  BY <1>15, LoadedFollowsOrder DEF SetupStage, Release, Leave
<1>16. ASSUME NEW t \in Tasks, Enable(t) PROVE SetupInv'
  BY <1>16, LoadedFollowsOrder DEF Enable, Release, Leave
<1>17. ASSUME NEW t \in Tasks, Disable(t) PROVE SetupInv'
  BY <1>17, LoadedFollowsOrder DEF Disable, Release, GateInDrain
<1>18. ASSUME NEW t \in Tasks, Drained(t) PROVE SetupInv'
  BY <1>18, LoadedFollowsOrder DEF Drained
<1>19. ASSUME NEW t \in Tasks, OwnerDrained(t) PROVE SetupInv'
  BY <1>19, LoadedFollowsOrder DEF OwnerDrained
<1>20. ASSUME NEW t \in Tasks, DrainTimeout(t) PROVE SetupInv'
  BY <1>20, LoadedFollowsOrder DEF DrainTimeout, Leave
<1>21. ASSUME NEW t \in Tasks, NEW p \in Plugins, SkipHook(t, p) PROVE SetupInv'
  BY <1>21, LoadedFollowsOrder DEF SkipHook
<1>22. ASSUME NEW t \in Tasks, NEW p \in Plugins, EnterHook(t, p) PROVE SetupInv'
  BY <1>22, LoadedFollowsOrder DEF EnterHook
<1>23. ASSUME NEW t \in Tasks, NEW p \in Plugins, HookDone(t, p) PROVE SetupInv'
  BY <1>23, LoadedFollowsOrder DEF HookDone
<1>24. ASSUME NEW t \in Tasks, NEW p \in Plugins, HookFails(t, p) PROVE SetupInv'
  BY <1>24, LoadedFollowsOrder DEF HookFails
<1>25. ASSUME NEW t \in Tasks, NEW e \in BOOLEAN, FinishShutdown(t, e) PROVE SetupInv'
  BY <1>25, LoadedFollowsOrder DEF FinishShutdown, Leave
<1>26. ASSUME NEW t \in Tasks, WaiterReturns(t) PROVE SetupInv'
  BY <1>26, LoadedFollowsOrder DEF WaiterReturns, Leave
<1>27. ASSUME NEW t \in Tasks, ReleaseDispatch(t) PROVE SetupInv'
  BY <1>27, LoadedFollowsOrder DEF ReleaseDispatch
<1>28. ASSUME NEW t \in Tasks, EndSubscription(t) PROVE SetupInv'
  BY <1>28, LoadedFollowsOrder DEF EndSubscription
<1>29. ASSUME NEW t \in Tasks, CancelBegun(t) PROVE SetupInv'
  BY <1>29, LoadedFollowsOrder DEF CancelBegun
<1>30. ASSUME NEW t \in Tasks, CancelWorker(t) PROVE SetupInv'
  BY <1>30, LoadedFollowsOrder DEF CancelWorker, Leave
<1>31. ASSUME NEW t \in Tasks, CancelWaiter(t) PROVE SetupInv'
  BY <1>31, LoadedFollowsOrder DEF CancelWaiter, Leave
<1>32. ASSUME NEW m \in Managers, NEW p \in Plugins, Subscribe(m, p) PROVE SetupInv'
  BY <1>32, LoadedFollowsOrder DEF Subscribe
<1>33. ASSUME NEW m \in Managers, NEW p \in Plugins, Unsubscribe(m, p) PROVE SetupInv'
  BY <1>33, LoadedFollowsOrder DEF Unsubscribe
<1>34. CASE UNCHANGED vars
  BY <1>34, LoadedFollowsOrder DEF vars
<1> HIDE DEF SetupInv, mgrVars, stopVars, gateVars, callVars, workVars
<1> QED
  BY PMAssumption, <1>1, <1>2, <1>3, <1>4, <1>5, <1>6, <1>7, <1>8, <1>9, <1>10, <1>11, <1>12,
      <1>13, <1>14, <1>15, <1>16, <1>17, <1>18, <1>19, <1>20, <1>21, <1>22, <1>23, <1>24, <1>25,
      <1>26, <1>27, <1>28, <1>29, <1>30, <1>31, <1>32, <1>33, <1>34 DEF ManagerNext, Call, Proceed,
      Setup, ShutdownSteps, EndHandler, Cancel, Resubscribe, Setting

\* A callback keeps its manager from being closed.
LEMMA CallbackStep ==
  ASSUME LoadingSetup = {}, TypeInv, LockInv, StateInv, GateInv, SetupInv, CallbackInv, DrainInv, [ManagerNext]_vars
  PROVE  CallbackInv'
<1> USE PMAssumption DEF TypeInv, UserCalls, TypeOK, FieldsOK, Labels, Setting, StateInv, Worker,
    CallbackInv, mgrVars, stopVars, gateVars, callVars, workVars, Goto
<1>1. ASSUME NEW t \in Tasks, NEW m \in Managers, AcquireDispatch(t, m) PROVE CallbackInv'
  BY <1>1 DEF AcquireDispatch
<1>2. ASSUME NEW t \in Tasks, NEW m \in Managers, BeginSubscription(t, m) PROVE CallbackInv'
  BY <1>2 DEF BeginSubscription, GateInv
<1>3. ASSUME NEW t \in Tasks, NEW m \in Managers, LoadNothing(t, m) PROVE CallbackInv'
  BY <1>3 DEF LoadNothing, AddNothing, Free, LoadAllowed, AfterLoad
<1>4. ASSUME NEW t \in Tasks, NEW m \in Managers, NEW p \in Plugins, LoadPlugin(t, m, p) PROVE
    CallbackInv'
  BY <1>4 DEF LoadPlugin, AddPlugin, Free, LoadAllowed, AfterLoad
<1>5. ASSUME NEW t \in Tasks, NEW m \in Managers, NEW mode \in Setting, SetupClient(t, m, mode)
    PROVE CallbackInv'
  BY <1>5 DEF SetupClient, SetupBegins, Acquire, SetupAllowed, Free
<1>6. ASSUME NEW t \in Tasks, NEW m \in Managers, Activate(t, m) PROVE CallbackInv'
  BY <1>6 DEF Activate, Acquire, Free
<1>7. ASSUME NEW t \in Tasks, NEW m \in Managers, ShutdownReported(t, m) PROVE CallbackInv'
  BY <1>7 DEF ShutdownReported, CallsShutdown, Leave
<1>8. ASSUME NEW t \in Tasks, NEW m \in Managers, ShutdownJoin(t, m) PROVE CallbackInv'
  BY <1>8 DEF ShutdownJoin, CallsShutdown, Starts
<1>9. ASSUME NEW t \in Tasks, NEW m \in Managers, ShutdownStart(t, m) PROVE CallbackInv'
  BY <1>9 DEF ShutdownStart, CallsShutdown, Acquire, Starts, Free
<1>10. ASSUME NEW t \in Tasks, StartCallback(t) PROVE CallbackInv'
  BY <1>10 DEF StartCallback
<1>11. ASSUME NEW t \in Tasks, NEW p \in Plugins, SetupHook(t, p) PROVE CallbackInv'
  BY <1>11 DEF SetupHook
<1>12. ASSUME NEW t \in Tasks, NEW p \in Plugins, NEW q \in Plugins, SetupHookLoads(t, p, q) PROVE
    CallbackInv'
  BY <1>12 DEF SetupHookLoads, LoadAllowed, AfterLoad
<1>13. ASSUME NEW t \in Tasks, SetupFail(t) PROVE CallbackInv'
  <2>1. state[mgr[t]] # "active" /\ mgr[t] \in Managers
    <3>1. pc[t] \in Setting /\ pc[t] # "idle" /\ todo[t] # {} /\ mgr[t] \in Managers
      BY <1>13 DEF SetupFail
    <3> QED
      BY <3>1 DEF SetupInv
  <2>2. state[mgr[t]] \in {"created", "loaded", "staged", "active"}
    BY <1>13 DEF SetupFail
  <2>3. /\ UNCHANGED <<callback, attached>>
        /\ \A m \in Managers \ {mgr[t]} : state'[m] = state[m]
    BY <1>13, <2>1 DEF SetupFail
  <2> QED
    BY <2>1, <2>2, <2>3
<1>14. ASSUME NEW t \in Tasks, SetupActivate(t) PROVE CallbackInv'
  BY <1>14 DEF SetupActivate
<1>15. ASSUME NEW t \in Tasks, SetupStage(t) PROVE CallbackInv'
  <2>1. UNCHANGED <<callback, attached>>
    BY <1>15 DEF SetupStage
  <2>2. state[mgr[t]] \in {"created", "loaded", "staged", "active"}
    BY <1>15 DEF SetupStage
  <2>3. \A m \in Managers : state'[m] = state[m] \/ (m = mgr[t] /\ state[m] # "active")
    BY <1>15 DEF SetupStage
  <2> QED
    BY <2>1, <2>2, <2>3
<1>16. ASSUME NEW t \in Tasks, Enable(t) PROVE CallbackInv'
  BY <1>16 DEF Enable, Release, Leave
<1>17. ASSUME NEW t \in Tasks, Disable(t) PROVE CallbackInv'
  BY <1>17 DEF Disable, Release, GateInDrain
<1>18. ASSUME NEW t \in Tasks, Drained(t) PROVE CallbackInv'
  BY <1>18 DEF Drained
<1>19. ASSUME NEW t \in Tasks, OwnerDrained(t) PROVE CallbackInv'
  BY <1>19 DEF OwnerDrained
<1>20. ASSUME NEW t \in Tasks, DrainTimeout(t) PROVE CallbackInv'
  BY <1>20 DEF DrainTimeout, Leave
<1>21. ASSUME NEW t \in Tasks, NEW p \in Plugins, SkipHook(t, p) PROVE CallbackInv'
  BY <1>21 DEF SkipHook
<1>22. ASSUME NEW t \in Tasks, NEW p \in Plugins, EnterHook(t, p) PROVE CallbackInv'
  BY <1>22 DEF EnterHook
<1>23. ASSUME NEW t \in Tasks, NEW p \in Plugins, HookDone(t, p) PROVE CallbackInv'
  BY <1>23 DEF HookDone
<1>24. ASSUME NEW t \in Tasks, NEW p \in Plugins, HookFails(t, p) PROVE CallbackInv'
  BY <1>24 DEF HookFails
<1>25. ASSUME NEW t \in Tasks, NEW e \in BOOLEAN, FinishShutdown(t, e) PROVE CallbackInv'
  BY <1>25 DEF FinishShutdown, Leave, DrainInv, Workers, Callbacks
<1>26. ASSUME NEW t \in Tasks, WaiterReturns(t) PROVE CallbackInv'
  BY <1>26 DEF WaiterReturns, Leave
<1>27. ASSUME NEW t \in Tasks, ReleaseDispatch(t) PROVE CallbackInv'
  BY <1>27 DEF ReleaseDispatch
<1>28. ASSUME NEW t \in Tasks, EndSubscription(t) PROVE CallbackInv'
  BY <1>28 DEF EndSubscription
<1>29. ASSUME NEW t \in Tasks, CancelBegun(t) PROVE CallbackInv'
  BY <1>29 DEF CancelBegun
<1>30. ASSUME NEW t \in Tasks, CancelWorker(t) PROVE CallbackInv'
  BY <1>30 DEF CancelWorker, Leave
<1>31. ASSUME NEW t \in Tasks, CancelWaiter(t) PROVE CallbackInv'
  BY <1>31 DEF CancelWaiter, Leave
<1>32. ASSUME NEW m \in Managers, NEW p \in Plugins, Subscribe(m, p) PROVE CallbackInv'
  BY <1>32 DEF Subscribe
<1>33. ASSUME NEW m \in Managers, NEW p \in Plugins, Unsubscribe(m, p) PROVE CallbackInv'
  BY <1>33 DEF Unsubscribe
<1>34. CASE UNCHANGED vars
  BY <1>34 DEF vars
<1> HIDE DEF CallbackInv, mgrVars, stopVars, gateVars, callVars, workVars
<1> QED
  BY PMAssumption, <1>1, <1>2, <1>3, <1>4, <1>5, <1>6, <1>7, <1>8, <1>9, <1>10, <1>11, <1>12,
      <1>13, <1>14, <1>15, <1>16, <1>17, <1>18, <1>19, <1>20, <1>21, <1>22, <1>23, <1>24, <1>25,
      <1>26, <1>27, <1>28, <1>29, <1>30, <1>31, <1>32, <1>33, <1>34 DEF ManagerNext, Call, Proceed,
      Setup, ShutdownSteps, EndHandler, Cancel, Resubscribe, Setting

\* No handler of a drained manager is in flight again.
LEMMA DrainStep ==
  ASSUME TypeInv, LockInv, StateInv, WorkerInv, GateInv, CallbackInv, DrainCounts, DrainInv, [ManagerNext]_vars
  PROVE  DrainInv'
<1> USE PMAssumption DEF TypeInv, UserCalls, TypeOK, FieldsOK, Labels, Setting, StateInv, Worker,
    DrainInv, mgrVars, stopVars, gateVars, callVars, workVars, Goto
<1>1. ASSUME NEW t \in Tasks, NEW m \in Managers, AcquireDispatch(t, m) PROVE DrainInv'
  BY <1>1 DEF AcquireDispatch, Serves
<1>2. ASSUME NEW t \in Tasks, NEW m \in Managers, BeginSubscription(t, m) PROVE DrainInv'
  <2>1. state[m] # "closed"
    BY <1>2 DEF BeginSubscription, GateInv
  <2>2. ASSUME NEW u \in Tasks, mgr[u] = m PROVE pc[u] \notin {"hooks", "hook"}
    <3>1. CASE state[m] = "active"
      BY <2>2, <3>1
    <3>2. CASE state[m] = "draining"
      <4>1. PICK v \in Tasks : v = tlock[m] /\ pc[v] = "disabling"
        BY <1>2, <3>2 DEF BeginSubscription, GateInv
      <4>2. mgr[v] = m
        BY <4>1 DEF LockInv
      <4> QED
        BY <2>2, <4>1, <4>2 DEF WorkerInv, Workers
    <3> QED
      BY <1>2, <3>1, <3>2 DEF BeginSubscription, GateInv
  <2> QED
    BY <1>2, <2>1, <2>2 DEF BeginSubscription
<1>3. ASSUME NEW t \in Tasks, NEW m \in Managers, LoadNothing(t, m) PROVE DrainInv'
  BY <1>3 DEF LoadNothing, AddNothing, Free, LoadAllowed, AfterLoad
<1>4. ASSUME NEW t \in Tasks, NEW m \in Managers, NEW p \in Plugins, LoadPlugin(t, m, p) PROVE
    DrainInv'
  BY <1>4 DEF LoadPlugin, AddPlugin, Free, LoadAllowed, AfterLoad
<1>5. ASSUME NEW t \in Tasks, NEW m \in Managers, NEW mode \in Setting, SetupClient(t, m, mode)
    PROVE DrainInv'
  BY <1>5 DEF SetupClient, SetupBegins, Acquire, SetupAllowed, Free
<1>6. ASSUME NEW t \in Tasks, NEW m \in Managers, Activate(t, m) PROVE DrainInv'
  BY <1>6 DEF Activate, Acquire, Free
<1>7. ASSUME NEW t \in Tasks, NEW m \in Managers, ShutdownReported(t, m) PROVE DrainInv'
  BY <1>7 DEF ShutdownReported, CallsShutdown, Leave
<1>8. ASSUME NEW t \in Tasks, NEW m \in Managers, ShutdownJoin(t, m) PROVE DrainInv'
  BY <1>8 DEF ShutdownJoin, CallsShutdown, Starts
<1>9. ASSUME NEW t \in Tasks, NEW m \in Managers, ShutdownStart(t, m) PROVE DrainInv'
  BY <1>9 DEF ShutdownStart, CallsShutdown, Acquire, Starts, Free
<1>10. ASSUME NEW t \in Tasks, StartCallback(t) PROVE DrainInv'
  BY <1>10 DEF StartCallback
<1>11. ASSUME NEW t \in Tasks, NEW p \in Plugins, SetupHook(t, p) PROVE DrainInv'
  BY <1>11 DEF SetupHook
<1>12. ASSUME NEW t \in Tasks, NEW p \in Plugins, NEW q \in Plugins, SetupHookLoads(t, p, q) PROVE
    DrainInv'
  BY <1>12 DEF SetupHookLoads, LoadAllowed, AfterLoad
<1>13. ASSUME NEW t \in Tasks, SetupFail(t) PROVE DrainInv'
  BY <1>13 DEF SetupFail, Release, Leave
<1>14. ASSUME NEW t \in Tasks, SetupActivate(t) PROVE DrainInv'
  BY <1>14 DEF SetupActivate
<1>15. ASSUME NEW t \in Tasks, SetupStage(t) PROVE DrainInv'
  BY <1>15 DEF SetupStage, Release, Leave
<1>16. ASSUME NEW t \in Tasks, Enable(t) PROVE DrainInv'
  BY <1>16 DEF Enable, Release, Leave
<1>17. ASSUME NEW t \in Tasks, Disable(t) PROVE DrainInv'
  BY <1>17 DEF Disable, Release, GateInDrain
<1>18. ASSUME NEW t \in Tasks, Drained(t) PROVE DrainInv'
  <2>1. mgr[t] \in Managers /\ Leases(mgr[t]) = {}
    BY <1>18, NoneInFlight DEF Drained, DrainCounts
  <2>2. \A u \in Tasks : lease[u] # mgr[t]
    BY <2>1 DEF Leases
  <2> QED
    BY <1>18, <2>1, <2>2 DEF Drained
<1>19. ASSUME NEW t \in Tasks, OwnerDrained(t) PROVE DrainInv'
  <2>1. mgr[t] \in Managers /\ Callbacks(mgr[t]) = {}
    <3>1. mgr[t] \in Managers /\ CallbacksDone(mgr[t])
      BY <1>19 DEF OwnerDrained
    <3>2. CASE attached[mgr[t]]
      BY <3>1, <3>2, NoneInFlight DEF CallbacksDone, DrainCounts
    <3>3. CASE ~attached[mgr[t]]
      BY <3>1, <3>3 DEF CallbackInv, Callbacks
    <3> QED
      BY <3>1, <3>2, <3>3
  <2>2. \A u \in Tasks : callback[u] # mgr[t]
    BY <2>1 DEF Callbacks
  <2> QED
    BY <1>19, <2>1, <2>2 DEF OwnerDrained
<1>20. ASSUME NEW t \in Tasks, DrainTimeout(t) PROVE DrainInv'
  BY <1>20 DEF DrainTimeout, Leave
<1>21. ASSUME NEW t \in Tasks, NEW p \in Plugins, SkipHook(t, p) PROVE DrainInv'
  BY <1>21 DEF SkipHook
<1>22. ASSUME NEW t \in Tasks, NEW p \in Plugins, EnterHook(t, p) PROVE DrainInv'
  BY <1>22 DEF EnterHook
<1>23. ASSUME NEW t \in Tasks, NEW p \in Plugins, HookDone(t, p) PROVE DrainInv'
  BY <1>23 DEF HookDone
<1>24. ASSUME NEW t \in Tasks, NEW p \in Plugins, HookFails(t, p) PROVE DrainInv'
  BY <1>24 DEF HookFails
<1>25. ASSUME NEW t \in Tasks, NEW e \in BOOLEAN, FinishShutdown(t, e) PROVE DrainInv'
  BY <1>25 DEF FinishShutdown, Leave
<1>26. ASSUME NEW t \in Tasks, WaiterReturns(t) PROVE DrainInv'
  BY <1>26 DEF WaiterReturns, Leave
<1>27. ASSUME NEW t \in Tasks, ReleaseDispatch(t) PROVE DrainInv'
  BY <1>27 DEF ReleaseDispatch
<1>28. ASSUME NEW t \in Tasks, EndSubscription(t) PROVE DrainInv'
  BY <1>28 DEF EndSubscription
<1>29. ASSUME NEW t \in Tasks, CancelBegun(t) PROVE DrainInv'
  BY <1>29 DEF CancelBegun
<1>30. ASSUME NEW t \in Tasks, CancelWorker(t) PROVE DrainInv'
  BY <1>30 DEF CancelWorker, Leave
<1>31. ASSUME NEW t \in Tasks, CancelWaiter(t) PROVE DrainInv'
  BY <1>31 DEF CancelWaiter, Leave
<1>32. ASSUME NEW m \in Managers, NEW p \in Plugins, Subscribe(m, p) PROVE DrainInv'
  BY <1>32 DEF Subscribe
<1>33. ASSUME NEW m \in Managers, NEW p \in Plugins, Unsubscribe(m, p) PROVE DrainInv'
  BY <1>33 DEF Unsubscribe
<1>34. CASE UNCHANGED vars
  BY <1>34 DEF vars
<1> HIDE DEF DrainInv, mgrVars, stopVars, gateVars, callVars, workVars
<1> QED
  BY PMAssumption, <1>1, <1>2, <1>3, <1>4, <1>5, <1>6, <1>7, <1>8, <1>9, <1>10, <1>11, <1>12,
      <1>13, <1>14, <1>15, <1>16, <1>17, <1>18, <1>19, <1>20, <1>21, <1>22, <1>23, <1>24, <1>25,
      <1>26, <1>27, <1>28, <1>29, <1>30, <1>31, <1>32, <1>33, <1>34 DEF ManagerNext, Call, Proceed,
      Setup, ShutdownSteps, EndHandler, Cancel, Resubscribe, Setting

\* Only the counters and the callbacks of m move, and they keep their order.
LEMMA OneMoves ==
  ASSUME DrainCounts, NEW m \in Managers,
         UNCHANGED inflight, \A x \in Managers : Leases(x)' = Leases(x),
         \A x \in Managers \ {m} : ownerInflight'[x] = ownerInflight[x] /\ Callbacks(x)' = Callbacks(x),
         ownerInflight'[m] >= Cardinality(Callbacks(m)')
  PROVE  DrainCounts'
BY DEF DrainCounts

\* Handlers and counters that do not change keep counting each other.
LEMMA Unmoved ==
  ASSUME DrainCounts, UNCHANGED <<inflight, ownerInflight, lease, callback>>
  PROVE  DrainCounts'
BY DEF DrainCounts, Leases, Callbacks

\* Every step that starts or ends a handler moves its counter.
LEMMA CountStep ==
  ASSUME LoadingSetup = {}, TypeInv, StateInv, SetupInv, CallbackInv, DrainInv, DrainCounts, [ManagerNext]_vars
  PROVE  DrainCounts'
<1> USE PMAssumption DEF TypeInv, TypeOK, FieldsOK, Labels, DrainCounts, mgrVars, stopVars,
    gateVars, callVars, workVars, Goto
<1>1. ASSUME NEW t \in Tasks, NEW m \in Managers, AcquireDispatch(t, m) PROVE DrainCounts'
  <2>1. Leases(m)' = Leases(m) \union {t} /\ t \notin Leases(m)
        /\ \A x \in Managers \ {m} : Leases(x)' = Leases(x)
    BY <1>1 DEF AcquireDispatch, Leases
  <2>2. \A x \in Managers : Callbacks(x)' = Callbacks(x)
    BY <1>1 DEF AcquireDispatch, Callbacks
  <2>3. Cardinality(Leases(m) \union {t}) = Cardinality(Leases(m)) + 1
    BY <2>1, NoneInFlight, FS_AddElement
  <2> QED
    BY <1>1, <2>1, <2>2, <2>3 DEF AcquireDispatch
<1>2. ASSUME NEW t \in Tasks, NEW m \in Managers, BeginSubscription(t, m) PROVE DrainCounts'
  <2>1. Callbacks(m)' = Callbacks(m) \union {t} /\ t \notin Callbacks(m)
        /\ \A x \in Managers \ {m} : Callbacks(x)' = Callbacks(x)
    BY <1>2 DEF BeginSubscription, Callbacks
  <2>2. \A x \in Managers : Leases(x)' = Leases(x)
    BY <1>2 DEF BeginSubscription, Leases
  <2>3. Cardinality(Callbacks(m) \union {t}) = Cardinality(Callbacks(m)) + 1
    BY <2>1, NoneInFlight, FS_AddElement
  <2>4. inflight' = inflight /\ ownerInflight'[m] = ownerInflight[m] + 1
        /\ \A x \in Managers \ {m} : ownerInflight'[x] = ownerInflight[x]
    BY <1>2 DEF BeginSubscription
  <2>5. ownerInflight'[m] >= Cardinality(Callbacks(m)')
    BY <2>1, <2>2, <2>3, <2>4, NoneInFlight
  <2> QED
    BY <2>1, <2>2, <2>3, <2>4, <2>5, OneMoves
<1>3. ASSUME NEW t \in Tasks, NEW m \in Managers, LoadNothing(t, m) PROVE DrainCounts'
  BY <1>3, Unmoved DEF LoadNothing, AddNothing
<1>4. ASSUME NEW t \in Tasks, NEW m \in Managers, NEW p \in Plugins, LoadPlugin(t, m, p) PROVE
    DrainCounts'
  BY <1>4, Unmoved DEF LoadPlugin, AddPlugin
<1>5. ASSUME NEW t \in Tasks, NEW m \in Managers, NEW mode \in Setting, SetupClient(t, m, mode)
    PROVE DrainCounts'
  BY <1>5, Unmoved DEF SetupClient, SetupBegins
<1>6. ASSUME NEW t \in Tasks, NEW m \in Managers, Activate(t, m) PROVE DrainCounts'
  BY <1>6, Unmoved DEF Activate
<1>7. ASSUME NEW t \in Tasks, NEW m \in Managers, ShutdownReported(t, m) PROVE DrainCounts'
  BY <1>7, Unmoved DEF ShutdownReported, CallsShutdown
<1>8. ASSUME NEW t \in Tasks, NEW m \in Managers, ShutdownJoin(t, m) PROVE DrainCounts'
  BY <1>8, Unmoved DEF ShutdownJoin, CallsShutdown
<1>9. ASSUME NEW t \in Tasks, NEW m \in Managers, ShutdownStart(t, m) PROVE DrainCounts'
  BY <1>9, Unmoved DEF ShutdownStart, CallsShutdown
<1>10. ASSUME NEW t \in Tasks, StartCallback(t) PROVE DrainCounts'
  BY <1>10, Unmoved DEF StartCallback
<1>11. ASSUME NEW t \in Tasks, NEW p \in Plugins, SetupHook(t, p) PROVE DrainCounts'
  BY <1>11, Unmoved DEF SetupHook
<1>12. ASSUME NEW t \in Tasks, NEW p \in Plugins, NEW q \in Plugins, SetupHookLoads(t, p, q) PROVE
    DrainCounts'
  BY <1>12, Unmoved DEF SetupHookLoads
<1>13. ASSUME NEW t \in Tasks, SetupFail(t) PROVE DrainCounts'
  <2>1. PICK m \in Managers : mgr[t] = m
    BY <1>13 DEF SetupFail
  <2>2. Callbacks(m) = {}
    <3>1. state[m] \in {"created", "loaded", "staged"}
      BY <1>13, <2>1 DEF SetupFail, StateInv, SetupInv, Setting
    <3>2. \A u \in Tasks : callback[u] # m
      BY <3>1 DEF CallbackInv
    <3> QED
      BY <3>2 DEF Callbacks
  <2>3. \A x \in Managers : Leases(x)' = Leases(x) /\ Callbacks(x)' = Callbacks(x)
    BY <1>13 DEF SetupFail, Leases, Callbacks
  <2>4. inflight' = inflight /\ ownerInflight'[m] = 0
        /\ \A x \in Managers \ {m} : ownerInflight'[x] = ownerInflight[x]
    BY <1>13, <2>1 DEF SetupFail
  <2>5. Callbacks(m)' = {} /\ Cardinality({}) = 0
    BY <2>2, <2>3, FS_EmptySet
  <2>6. ownerInflight'[m] >= Cardinality(Callbacks(m)')
    BY <2>4, <2>5
  <2> QED
    BY <2>2, <2>3, <2>4, <2>6, OneMoves
<1>14. ASSUME NEW t \in Tasks, SetupActivate(t) PROVE DrainCounts'
  BY <1>14, Unmoved DEF SetupActivate
<1>15. ASSUME NEW t \in Tasks, SetupStage(t) PROVE DrainCounts'
  BY <1>15, Unmoved DEF SetupStage
<1>16. ASSUME NEW t \in Tasks, Enable(t) PROVE DrainCounts'
  BY <1>16, Unmoved DEF Enable
<1>17. ASSUME NEW t \in Tasks, Disable(t) PROVE DrainCounts'
  BY <1>17, Unmoved DEF Disable
<1>18. ASSUME NEW t \in Tasks, Drained(t) PROVE DrainCounts'
  BY <1>18, Unmoved DEF Drained
<1>19. ASSUME NEW t \in Tasks, OwnerDrained(t) PROVE DrainCounts'
  BY <1>19, Unmoved DEF OwnerDrained
<1>20. ASSUME NEW t \in Tasks, DrainTimeout(t) PROVE DrainCounts'
  BY <1>20, Unmoved DEF DrainTimeout
<1>21. ASSUME NEW t \in Tasks, NEW p \in Plugins, SkipHook(t, p) PROVE DrainCounts'
  BY <1>21, Unmoved DEF SkipHook
<1>22. ASSUME NEW t \in Tasks, NEW p \in Plugins, EnterHook(t, p) PROVE DrainCounts'
  BY <1>22, Unmoved DEF EnterHook
<1>23. ASSUME NEW t \in Tasks, NEW p \in Plugins, HookDone(t, p) PROVE DrainCounts'
  BY <1>23, Unmoved DEF HookDone
<1>24. ASSUME NEW t \in Tasks, NEW p \in Plugins, HookFails(t, p) PROVE DrainCounts'
  BY <1>24, Unmoved DEF HookFails
<1>25. ASSUME NEW t \in Tasks, NEW e \in BOOLEAN, FinishShutdown(t, e) PROVE DrainCounts'
  <2>1. PICK m \in Managers : mgr[t] = m
    BY <1>25 DEF FinishShutdown
  <2>2. Callbacks(m) = {}
    BY <1>25, <2>1, DrainInv DEF FinishShutdown, DrainInv, Callbacks
  <2>3. \A x \in Managers : Leases(x)' = Leases(x) /\ Callbacks(x)' = Callbacks(x)
    BY <1>25 DEF FinishShutdown, Leases, Callbacks
  <2>4. inflight' = inflight
    BY <1>25 DEF FinishShutdown
  <2>5. ownerInflight' = ownerInflight \/ ownerInflight' = [ownerInflight EXCEPT ![m] = 0]
    BY <1>25, <2>1 DEF FinishShutdown
  <2>6. \A x \in Managers \ {m} : ownerInflight'[x] = ownerInflight[x]
    BY <2>5
  <2>7. ownerInflight'[m] \in Nat /\ ownerInflight'[m] >= 0
    BY <2>5
  <2> QED
    BY <2>2, <2>3, <2>4, <2>6, <2>7, NoneInFlight
<1>26. ASSUME NEW t \in Tasks, WaiterReturns(t) PROVE DrainCounts'
  BY <1>26, Unmoved DEF WaiterReturns
<1>27. ASSUME NEW t \in Tasks, ReleaseDispatch(t) PROVE DrainCounts'
  <2>1. PICK m \in Managers : lease[t] = m
    BY <1>27 DEF ReleaseDispatch
  <2>2. Leases(m)' = Leases(m) \ {t} /\ t \in Leases(m)
        /\ \A x \in Managers \ {m} : Leases(x)' = Leases(x)
    BY <1>27, <2>1 DEF ReleaseDispatch, Leases
  <2>3. \A x \in Managers : Callbacks(x)' = Callbacks(x)
    BY <1>27 DEF ReleaseDispatch, Callbacks
  <2>4. Cardinality(Leases(m) \ {t}) = Cardinality(Leases(m)) - 1 /\ Cardinality(Leases(m)) # 0
    BY <2>2, NoneInFlight, FS_RemoveElement
  <2>5. ownerInflight' = ownerInflight /\ inflight'[m] = Decrement(inflight[m])
        /\ \A x \in Managers \ {m} : inflight'[x] = inflight[x]
    BY <1>27, <2>1 DEF ReleaseDispatch
  <2>6. inflight'[m] = inflight[m] - 1
    BY <2>4, <2>5 DEF Decrement
  <2> QED
    BY <2>2, <2>3, <2>4, <2>5, <2>6, NoneInFlight
<1>28. ASSUME NEW t \in Tasks, EndSubscription(t) PROVE DrainCounts'
  <2>1. PICK m \in Managers : callback[t] = m
    BY <1>28 DEF EndSubscription
  <2>2. Callbacks(m)' = Callbacks(m) \ {t} /\ t \in Callbacks(m)
        /\ \A x \in Managers \ {m} : Callbacks(x)' = Callbacks(x)
    BY <1>28, <2>1 DEF EndSubscription, Callbacks
  <2>3. \A x \in Managers : Leases(x)' = Leases(x)
    BY <1>28 DEF EndSubscription, Leases
  <2>4. Cardinality(Callbacks(m) \ {t}) = Cardinality(Callbacks(m)) - 1
        /\ Cardinality(Callbacks(m)) # 0
    BY <2>2, NoneInFlight, FS_RemoveElement
  <2>5. inflight' = inflight /\ ownerInflight'[m] = Decrement(ownerInflight[m])
        /\ \A x \in Managers \ {m} : ownerInflight'[x] = ownerInflight[x]
    BY <1>28, <2>1 DEF EndSubscription
  <2>6. ownerInflight'[m] = ownerInflight[m] - 1
    BY <2>4, <2>5, NoneInFlight DEF Decrement
  <2>7. ownerInflight'[m] >= Cardinality(Callbacks(m)')
    BY <2>2, <2>3, <2>4, <2>5, <2>6, NoneInFlight
  <2> QED
    BY <2>2, <2>3, <2>4, <2>5, <2>6, <2>7, OneMoves
<1>29. ASSUME NEW t \in Tasks, CancelBegun(t) PROVE DrainCounts'
  <2>1. CASE callback[t] = NoManager
    <3>1. callback' = callback
      BY <1>29, <2>1 DEF CancelBegun
    <3> QED
      BY <1>29, <3>1, Unmoved DEF CancelBegun
  <2>2. CASE callback[t] # NoManager
    <3>1. PICK m \in Managers : callback[t] = m
      BY <2>2
    <3>2. Callbacks(m)' = Callbacks(m) \ {t} /\ t \in Callbacks(m)
          /\ \A x \in Managers \ {m} : Callbacks(x)' = Callbacks(x)
      BY <1>29, <3>1 DEF CancelBegun, Callbacks
    <3>3. \A x \in Managers : Leases(x)' = Leases(x)
      BY <1>29 DEF CancelBegun, Leases
    <3>4. Cardinality(Callbacks(m) \ {t}) = Cardinality(Callbacks(m)) - 1
          /\ Cardinality(Callbacks(m)) # 0
      BY <3>2, NoneInFlight, FS_RemoveElement
    <3>5. inflight' = inflight /\ ownerInflight' = ownerInflight
      BY <1>29 DEF CancelBegun
    <3>6. ownerInflight'[m] >= Cardinality(Callbacks(m)')
      BY <3>2, <3>3, <3>4, <3>5, NoneInFlight
    <3> QED
      BY <3>2, <3>3, <3>4, <3>5, <3>6, OneMoves
  <2> QED
    BY <2>1, <2>2
<1>30. ASSUME NEW t \in Tasks, CancelWorker(t) PROVE DrainCounts'
  BY <1>30, Unmoved DEF CancelWorker
<1>31. ASSUME NEW t \in Tasks, CancelWaiter(t) PROVE DrainCounts'
  BY <1>31, Unmoved DEF CancelWaiter
<1>32. ASSUME NEW m \in Managers, NEW p \in Plugins, Subscribe(m, p) PROVE DrainCounts'
  BY <1>32, Unmoved DEF Subscribe
<1>33. ASSUME NEW m \in Managers, NEW p \in Plugins, Unsubscribe(m, p) PROVE DrainCounts'
  BY <1>33, Unmoved DEF Unsubscribe
<1>34. CASE UNCHANGED vars
  BY <1>34, Unmoved DEF vars
<1> HIDE DEF DrainCounts, mgrVars, stopVars, gateVars, callVars, workVars
<1> QED
  BY PMAssumption, <1>1, <1>2, <1>3, <1>4, <1>5, <1>6, <1>7, <1>8, <1>9, <1>10, <1>11, <1>12,
      <1>13, <1>14, <1>15, <1>16, <1>17, <1>18, <1>19, <1>20, <1>21, <1>22, <1>23, <1>24, <1>25,
      <1>26, <1>27, <1>28, <1>29, <1>30, <1>31, <1>32, <1>33, <1>34 DEF ManagerNext, Call, Proceed,
      Setup, ShutdownSteps, EndHandler, Cancel, Resubscribe, Setting

\* A manager leaves the end of its life only towards its closing.
LEMMA StateMoves ==
  ASSUME TypeInv, StateInv, NEW m \in Managers, [ManagerNext]_vars
  PROVE  /\ state[m] = "draining" => state'[m] \in {"draining", "closed"}
         /\ state[m] = "failed" => state'[m] \in {"failed", "draining"}
         /\ state[m] = "closed" => state'[m] = "closed"
<1> DEFINE Goal == /\ state[m] = "draining" => state'[m] \in {"draining", "closed"}
                   /\ state[m] = "failed" => state'[m] \in {"failed", "draining"}
                   /\ state[m] = "closed" => state'[m] = "closed"
<1> USE DEF TypeInv, TypeOK, FieldsOK, States, StateInv, Setting, Worker, mgrVars, stopVars,
    gateVars, callVars, workVars
<1>1. ASSUME NEW t \in Tasks, NEW n \in Managers, AcquireDispatch(t, n) PROVE Goal
  BY <1>1 DEF AcquireDispatch
<1>2. ASSUME NEW t \in Tasks, NEW n \in Managers, BeginSubscription(t, n) PROVE Goal
  BY <1>2 DEF BeginSubscription
<1>3. ASSUME NEW t \in Tasks, NEW n \in Managers, LoadNothing(t, n) PROVE Goal
  BY <1>3 DEF LoadNothing, AddNothing, Free, LoadAllowed, AfterLoad
<1>4. ASSUME NEW t \in Tasks, NEW n \in Managers, NEW p \in Plugins, LoadPlugin(t, n, p) PROVE Goal
  BY <1>4 DEF LoadPlugin, AddPlugin, Free, LoadAllowed, AfterLoad
<1>5. ASSUME NEW t \in Tasks, NEW n \in Managers, NEW mode \in Setting, SetupClient(t, n, mode)
    PROVE Goal
  BY <1>5 DEF SetupClient, SetupBegins
<1>6. ASSUME NEW t \in Tasks, NEW n \in Managers, Activate(t, n) PROVE Goal
  BY <1>6 DEF Activate, Acquire, Free
<1>7. ASSUME NEW t \in Tasks, NEW n \in Managers, ShutdownReported(t, n) PROVE Goal
  BY <1>7 DEF ShutdownReported, CallsShutdown
<1>8. ASSUME NEW t \in Tasks, NEW n \in Managers, ShutdownJoin(t, n) PROVE Goal
  BY <1>8 DEF ShutdownJoin, CallsShutdown
<1>9. ASSUME NEW t \in Tasks, NEW n \in Managers, ShutdownStart(t, n) PROVE Goal
  BY <1>9 DEF ShutdownStart, CallsShutdown, Acquire, Starts, Free
<1>10. ASSUME NEW t \in Tasks, StartCallback(t) PROVE Goal
  BY <1>10 DEF StartCallback
<1>11. ASSUME NEW t \in Tasks, NEW p \in Plugins, SetupHook(t, p) PROVE Goal
  BY <1>11 DEF SetupHook
<1>12. ASSUME NEW t \in Tasks, NEW p \in Plugins, NEW q \in Plugins, SetupHookLoads(t, p, q) PROVE
    Goal
  BY <1>12 DEF SetupHookLoads, LoadAllowed, AfterLoad
<1>13. ASSUME NEW t \in Tasks, SetupFail(t) PROVE Goal
  BY <1>13 DEF SetupFail
<1>14. ASSUME NEW t \in Tasks, SetupActivate(t) PROVE Goal
  BY <1>14 DEF SetupActivate
<1>15. ASSUME NEW t \in Tasks, SetupStage(t) PROVE Goal
  BY <1>15 DEF SetupStage
<1>16. ASSUME NEW t \in Tasks, Enable(t) PROVE Goal
  BY <1>16 DEF Enable
<1>17. ASSUME NEW t \in Tasks, Disable(t) PROVE Goal
  BY <1>17 DEF Disable
<1>18. ASSUME NEW t \in Tasks, Drained(t) PROVE Goal
  BY <1>18 DEF Drained
<1>19. ASSUME NEW t \in Tasks, OwnerDrained(t) PROVE Goal
  BY <1>19 DEF OwnerDrained
<1>20. ASSUME NEW t \in Tasks, DrainTimeout(t) PROVE Goal
  BY <1>20 DEF DrainTimeout
<1>21. ASSUME NEW t \in Tasks, NEW p \in Plugins, SkipHook(t, p) PROVE Goal
  BY <1>21 DEF SkipHook
<1>22. ASSUME NEW t \in Tasks, NEW p \in Plugins, EnterHook(t, p) PROVE Goal
  BY <1>22 DEF EnterHook
<1>23. ASSUME NEW t \in Tasks, NEW p \in Plugins, HookDone(t, p) PROVE Goal
  BY <1>23 DEF HookDone
<1>24. ASSUME NEW t \in Tasks, NEW p \in Plugins, HookFails(t, p) PROVE Goal
  BY <1>24 DEF HookFails
<1>25. ASSUME NEW t \in Tasks, NEW e \in BOOLEAN, FinishShutdown(t, e) PROVE Goal
  BY <1>25 DEF FinishShutdown
<1>26. ASSUME NEW t \in Tasks, WaiterReturns(t) PROVE Goal
  BY <1>26 DEF WaiterReturns
<1>27. ASSUME NEW t \in Tasks, ReleaseDispatch(t) PROVE Goal
  BY <1>27 DEF ReleaseDispatch
<1>28. ASSUME NEW t \in Tasks, EndSubscription(t) PROVE Goal
  BY <1>28 DEF EndSubscription
<1>29. ASSUME NEW t \in Tasks, CancelBegun(t) PROVE Goal
  BY <1>29 DEF CancelBegun
<1>30. ASSUME NEW t \in Tasks, CancelWorker(t) PROVE Goal
  BY <1>30 DEF CancelWorker
<1>31. ASSUME NEW t \in Tasks, CancelWaiter(t) PROVE Goal
  BY <1>31 DEF CancelWaiter
<1>32. ASSUME NEW n \in Managers, NEW p \in Plugins, Subscribe(n, p) PROVE Goal
  BY <1>32 DEF Subscribe
<1>33. ASSUME NEW n \in Managers, NEW p \in Plugins, Unsubscribe(n, p) PROVE Goal
  BY <1>33 DEF Unsubscribe
<1>34. CASE UNCHANGED vars
  BY <1>34 DEF vars
<1> HIDE DEF TypeInv, TypeOK, FieldsOK, States, StateInv, Worker, mgrVars, stopVars,
    gateVars, callVars, workVars
<1>35. Goal
  BY PMAssumption, <1>1, <1>2, <1>3, <1>4, <1>5, <1>6, <1>7, <1>8, <1>9, <1>10, <1>11, <1>12,
      <1>13, <1>14, <1>15, <1>16, <1>17, <1>18, <1>19, <1>20, <1>21, <1>22, <1>23, <1>24, <1>25,
      <1>26, <1>27, <1>28, <1>29, <1>30, <1>31, <1>32, <1>33, <1>34 DEF ManagerNext, Call, Proceed,
      Setup, ShutdownSteps, EndHandler, Cancel, Resubscribe, Setting
<1> QED
  BY <1>35 DEF Goal

\* Only the worker of a manager that has no report publishes one.
LEMMA ReportMoves ==
  ASSUME TypeInv, StateInv, NEW m \in Managers, [ManagerNext]_vars
  PROVE  report[m] # "none" => report'[m] = report[m]
<1> DEFINE Goal == report[m] # "none" => report'[m] = report[m]
<1> USE DEF TypeInv, TypeOK, FieldsOK, States, StateInv, Setting, Worker, mgrVars, stopVars,
    gateVars, callVars, workVars
<1>1. ASSUME NEW t \in Tasks, NEW n \in Managers, AcquireDispatch(t, n) PROVE Goal
  BY <1>1 DEF AcquireDispatch
<1>2. ASSUME NEW t \in Tasks, NEW n \in Managers, BeginSubscription(t, n) PROVE Goal
  BY <1>2 DEF BeginSubscription
<1>3. ASSUME NEW t \in Tasks, NEW n \in Managers, LoadNothing(t, n) PROVE Goal
  BY <1>3 DEF LoadNothing, AddNothing, Free, LoadAllowed, AfterLoad
<1>4. ASSUME NEW t \in Tasks, NEW n \in Managers, NEW p \in Plugins, LoadPlugin(t, n, p) PROVE Goal
  BY <1>4 DEF LoadPlugin, AddPlugin, Free, LoadAllowed, AfterLoad
<1>5. ASSUME NEW t \in Tasks, NEW n \in Managers, NEW mode \in Setting, SetupClient(t, n, mode)
    PROVE Goal
  BY <1>5 DEF SetupClient, SetupBegins
<1>6. ASSUME NEW t \in Tasks, NEW n \in Managers, Activate(t, n) PROVE Goal
  BY <1>6 DEF Activate, Acquire, Free
<1>7. ASSUME NEW t \in Tasks, NEW n \in Managers, ShutdownReported(t, n) PROVE Goal
  BY <1>7 DEF ShutdownReported, CallsShutdown
<1>8. ASSUME NEW t \in Tasks, NEW n \in Managers, ShutdownJoin(t, n) PROVE Goal
  BY <1>8 DEF ShutdownJoin, CallsShutdown
<1>9. ASSUME NEW t \in Tasks, NEW n \in Managers, ShutdownStart(t, n) PROVE Goal
  BY <1>9 DEF ShutdownStart, CallsShutdown, Acquire, Starts, Free
<1>10. ASSUME NEW t \in Tasks, StartCallback(t) PROVE Goal
  BY <1>10 DEF StartCallback
<1>11. ASSUME NEW t \in Tasks, NEW p \in Plugins, SetupHook(t, p) PROVE Goal
  BY <1>11 DEF SetupHook
<1>12. ASSUME NEW t \in Tasks, NEW p \in Plugins, NEW q \in Plugins, SetupHookLoads(t, p, q) PROVE
    Goal
  BY <1>12 DEF SetupHookLoads, LoadAllowed, AfterLoad
<1>13. ASSUME NEW t \in Tasks, SetupFail(t) PROVE Goal
  BY <1>13 DEF SetupFail
<1>14. ASSUME NEW t \in Tasks, SetupActivate(t) PROVE Goal
  BY <1>14 DEF SetupActivate
<1>15. ASSUME NEW t \in Tasks, SetupStage(t) PROVE Goal
  BY <1>15 DEF SetupStage
<1>16. ASSUME NEW t \in Tasks, Enable(t) PROVE Goal
  BY <1>16 DEF Enable
<1>17. ASSUME NEW t \in Tasks, Disable(t) PROVE Goal
  BY <1>17 DEF Disable
<1>18. ASSUME NEW t \in Tasks, Drained(t) PROVE Goal
  BY <1>18 DEF Drained
<1>19. ASSUME NEW t \in Tasks, OwnerDrained(t) PROVE Goal
  BY <1>19 DEF OwnerDrained
<1>20. ASSUME NEW t \in Tasks, DrainTimeout(t) PROVE Goal
  BY <1>20 DEF DrainTimeout
<1>21. ASSUME NEW t \in Tasks, NEW p \in Plugins, SkipHook(t, p) PROVE Goal
  BY <1>21 DEF SkipHook
<1>22. ASSUME NEW t \in Tasks, NEW p \in Plugins, EnterHook(t, p) PROVE Goal
  BY <1>22 DEF EnterHook
<1>23. ASSUME NEW t \in Tasks, NEW p \in Plugins, HookDone(t, p) PROVE Goal
  BY <1>23 DEF HookDone
<1>24. ASSUME NEW t \in Tasks, NEW p \in Plugins, HookFails(t, p) PROVE Goal
  BY <1>24 DEF HookFails
<1>25. ASSUME NEW t \in Tasks, NEW e \in BOOLEAN, FinishShutdown(t, e) PROVE Goal
  BY <1>25 DEF FinishShutdown
<1>26. ASSUME NEW t \in Tasks, WaiterReturns(t) PROVE Goal
  BY <1>26 DEF WaiterReturns
<1>27. ASSUME NEW t \in Tasks, ReleaseDispatch(t) PROVE Goal
  BY <1>27 DEF ReleaseDispatch
<1>28. ASSUME NEW t \in Tasks, EndSubscription(t) PROVE Goal
  BY <1>28 DEF EndSubscription
<1>29. ASSUME NEW t \in Tasks, CancelBegun(t) PROVE Goal
  BY <1>29 DEF CancelBegun
<1>30. ASSUME NEW t \in Tasks, CancelWorker(t) PROVE Goal
  BY <1>30 DEF CancelWorker
<1>31. ASSUME NEW t \in Tasks, CancelWaiter(t) PROVE Goal
  BY <1>31 DEF CancelWaiter
<1>32. ASSUME NEW n \in Managers, NEW p \in Plugins, Subscribe(n, p) PROVE Goal
  BY <1>32 DEF Subscribe
<1>33. ASSUME NEW n \in Managers, NEW p \in Plugins, Unsubscribe(n, p) PROVE Goal
  BY <1>33 DEF Unsubscribe
<1>34. CASE UNCHANGED vars
  BY <1>34 DEF vars
<1> HIDE DEF TypeInv, TypeOK, FieldsOK, States, StateInv, Worker, mgrVars, stopVars,
    gateVars, callVars, workVars
<1>35. Goal
  BY PMAssumption, <1>1, <1>2, <1>3, <1>4, <1>5, <1>6, <1>7, <1>8, <1>9, <1>10, <1>11, <1>12,
      <1>13, <1>14, <1>15, <1>16, <1>17, <1>18, <1>19, <1>20, <1>21, <1>22, <1>23, <1>24, <1>25,
      <1>26, <1>27, <1>28, <1>29, <1>30, <1>31, <1>32, <1>33, <1>34 DEF ManagerNext, Call, Proceed,
      Setup, ShutdownSteps, EndHandler, Cancel, Resubscribe, Setting
<1> QED
  BY <1>35 DEF Goal

----------------------------------------------------------------------------
(* The theorems. *)

\* The control layers hold in every behaviour: types, the transition lock, the
\* state against the calls in progress, the single worker, the gate.
THEOREM ControlInvariant == Spec => []ControlInv
<1>1. ControlInv /\ [ManagerNext]_vars => ControlInv'
  BY TypeStep, LockStep, StateStep, WorkerStep, GateStep, OrderStep, HookStep
     DEF ControlInv
<1> QED
  BY ControlInit, <1>1, PTL DEF Spec

\* The service layers hold when no setup hook loads a plugin: setup before
\* service, counters that count, and drained managers that stay drained.
THEOREM ServiceInvariant ==
  ASSUME LoadingSetup = {}
  PROVE  Spec => []ServiceInv
<1>1. ControlInv /\ ServiceInv /\ [ManagerNext]_vars => ServiceInv'
  BY SetupStep, CallbackStep, CountStep, DrainStep DEF ControlInv, ServiceInv
<1> QED
  BY ControlInvariant, ServiceInit, <1>1, PTL DEF Spec

\* Every field of the managers, the Client and the tasks keeps its type, and
\* _inflight and the owner counter never fall below 0.
THEOREM TypeCorrect == Spec => []TypeOK
<1>1. ControlInv => TypeOK
  BY DEF ControlInv, TypeInv
<1> QED
  BY ControlInvariant, <1>1, PTL

\* shutdown() is single-flight: a manager has one worker while its shutdown is
\* started and not reported, and none otherwise.
THEOREM WorkerIsSingle == Spec => []SingleWorker
<1>1. ASSUME ControlInv, NEW m \in Managers
      PROVE  Cardinality(Workers(m)) <= 1 /\ (Workers(m) # {} <=> started[m] /\ report[m] = "none")
  <2>1. Workers(m) # {} <=> started[m] /\ report[m] = "none"
    BY <1>1 DEF ControlInv, StateInv, WorkerInv, Workers
  <2>2. CASE Workers(m) = {}
    BY <2>1, <2>2, FS_EmptySet
  <2>3. CASE Workers(m) # {}
    <3>1. PICK t \in Workers(m) : TRUE
      BY <2>3
    <3>2. Workers(m) = {t}
      BY <1>1, <3>1 DEF ControlInv, WorkerInv
    <3>3. Cardinality({t}) = 1
      BY FS_Singleton
    <3> QED
      BY <2>1, <3>2, <3>3
  <2> QED
    BY <2>2, <2>3
<1>2. ControlInv => SingleWorker
  BY <1>1 DEF SingleWorker
<1> QED
  BY ControlInvariant, <1>2, PTL

\* The Client delivers to a manager's subscriptions only while it is active, or
\* between the two halves of _begin_draining().
THEOREM GateIsSafe == Spec => []GateFollowsState
<1>1. ControlInv => GateFollowsState
  BY PMAssumption DEF ControlInv, GateInv, GateFollowsState, Disabling, PMAssumption
<1> QED
  BY ControlInvariant, <1>1, PTL

\* Retirement is irreversible.
THEOREM RetirementIsIrreversible == Spec => Irreversible
<1>1. ControlInv /\ [ManagerNext]_vars
        => [\A m \in Managers :
             /\ state[m] = "draining" => state'[m] \in {"draining", "closed"}
             /\ state[m] = "failed" => state'[m] \in {"failed", "draining"}
             /\ state[m] = "closed" => state'[m] = "closed"]_vars
  BY StateMoves DEF ControlInv
<1> QED
  BY ControlInvariant, <1>1, PTL DEF Spec, Irreversible

\* A final report is final.
THEOREM ReportIsFinal == Spec => FinalReport
<1>1. ControlInv /\ [ManagerNext]_vars
        => [\A m \in Managers : report[m] # "none" => report'[m] = report[m]]_vars
  BY ReportMoves DEF ControlInv
<1> QED
  BY ControlInvariant, <1>1, PTL DEF Spec, FinalReport

\* A shutdown hook that has completed is never started again, whatever
\* timeouts and cancellations make the caller retry.
THEOREM CompletedHooksRest == Spec => CompletedHookNotRepeated
<1>1. ControlInv => \A t \in Tasks, m \in Managers, p \in Plugins :
                      pc[t] = "hooks" /\ mgr[t] = m /\ LastOf(m, p, todo[t]) => p \notin shut[m]
  BY DEF ControlInv, HookInv, LastOf
<1>2. ControlInv /\ [ManagerNext]_vars
        => [\A t \in Tasks, m \in Managers, p \in Plugins :
              /\ pc[t] = "hooks" /\ pc'[t] = "hook" /\ mgr[t] = m
              /\ LastOf(m, p, todo[t])
              => p \notin shut[m]]_vars
  BY <1>1
<1> QED
  BY ControlInvariant, <1>2, PTL DEF Spec, CompletedHookNotRepeated

\* Shutdown hooks start in the reverse of the load order.
THEOREM HooksRunInReverse == Spec => ReverseOrder
<1>1. ASSUME ControlInv, NEW t \in Tasks, NEW m \in Managers, NEW p \in Plugins, NEW q \in Plugins,
             pc[t] = "hooks", mgr[t] = m, LastOf(m, p, todo[t]), Precedes(m, p, q), q \in setup[m]
      PROVE  q \in shut[m] \/ err[t]
  <2>1. q \in Loaded(m)
    BY <1>1 DEF Precedes, Loaded
  <2>2. q # p
    BY <1>1 DEF Precedes, ControlInv, OrderInv
  <2>3. q \notin todo[t]
    <3>1. SUFFICES ASSUME q \in todo[t] PROVE FALSE
      OBVIOUS
    <3>2. PICK i \in 1 .. Len(order[m]), j \in 1 .. Len(order[m]) :
            i < j /\ order[m][i] = q /\ order[m][j] = p
      BY <1>1, <2>2, <3>1 DEF LastOf, Precedes
    <3>3. PICK k \in 1 .. Len(order[m]), l \in 1 .. Len(order[m]) :
            k < l /\ order[m][k] = p /\ order[m][l] = q
      BY <1>1 DEF Precedes
    <3>4. i = l /\ j = k
      BY <1>1, <3>2, <3>3 DEF ControlInv, OrderInv
    <3>5. order[m] \in Seq(Plugins)
      BY <1>1 DEF ControlInv, TypeInv, TypeOK, FieldsOK
    <3>6. i \in Nat /\ j \in Nat
      BY <3>5
    <3> QED
      BY <3>2, <3>3, <3>4, <3>6
  <2> QED
    BY <1>1, <2>1, <2>3 DEF ControlInv, HookInv
<1>2. ControlInv /\ [ManagerNext]_vars
        => [\A t \in Tasks, m \in Managers, p, q \in Plugins :
              /\ pc[t] = "hooks" /\ pc'[t] = "hook" /\ mgr[t] = m
              /\ LastOf(m, p, todo[t]) /\ Precedes(m, p, q) /\ q \in setup[m]
              => q \in shut[m] \/ err[t]]_vars
  BY <1>1
<1> QED
  BY ControlInvariant, <1>2, PTL DEF Spec, ReverseOrder

\* A manager that serves has run every setup hook.
THEOREM SetupComesFirst ==
  ASSUME LoadingSetup = {}
  PROVE  Spec => []ActiveIsSetUp
<1>1. ServiceInv => ActiveIsSetUp
  BY DEF ServiceInv, SetupInv, ActiveIsSetUp
<1> QED
  BY ServiceInvariant, <1>1, PTL

\* The counters that a drain waits for never fall below the running handlers.
THEOREM CountersCount ==
  ASSUME LoadingSetup = {}
  PROVE  Spec => []DrainCounts
<1>1. ServiceInv => DrainCounts
  BY DEF ServiceInv
<1> QED
  BY ServiceInvariant, <1>1, PTL

\* Shutdown hooks run, and managers close, only when no handler is in flight.
THEOREM HooksFollowDrain ==
  ASSUME LoadingSetup = {}
  PROVE  Spec => []HooksAfterDrain
<1>1. ServiceInv => HooksAfterDrain
  BY DEF ServiceInv, DrainInv, HooksAfterDrain, Workers, Leases, Callbacks
<1> QED
  BY ServiceInvariant, <1>1, PTL

----------------------------------------------------------------------------
(* PluginManager implements DrainProtocol: its initial states map to        *)
(* initial states, and every step to a step of the protocol or to none.     *)

\* While the hooks of a manager run it is sealed and has nothing in flight.
LEMMA SealedForHooks ==
  ASSUME ControlInv, DrainInv, NEW t \in Tasks, NEW m \in Managers, m = mgr[t], pc[t] \in {"hooks", "hook"}
  PROVE  Phase(m) = "sealed" /\ InFlight(m) = {}
<1>1. state[m] = "draining"
  BY DEF ControlInv, StateInv, Worker
<1>2. ~enabled[m]
  <2>1. SUFFICES ASSUME enabled[m] PROVE FALSE
    OBVIOUS
  <2>2. PICK u \in Tasks : u = tlock[m] /\ pc[u] = "disabling"
    BY <1>1, <2>1 DEF ControlInv, GateInv
  <2>3. mgr[u] = m
    BY <2>2 DEF ControlInv, LockInv
  <2> QED
    BY <2>2, <2>3 DEF ControlInv, WorkerInv, Workers, Worker
<1>3. Leases(m) = {} /\ Callbacks(m) = {}
  BY DEF DrainInv, Leases, Callbacks
<1> QED
  BY <1>1, <1>2, <1>3 DEF Phase, InFlight

\* A step that moves neither phases nor handlers nor stopped plugins.
LEMMA PhaseStays ==
  ASSUME \A m \in Managers : Phase(m)' = Phase(m), UNCHANGED <<lease, callback, shut>>
  PROVE  UNCHANGED Drain!dvars
BY DEF Drain!dvars, InFlight, Leases, Callbacks

LEMMA NothingMoves ==
  ASSUME UNCHANGED <<state, enabled, lease, callback, shut>>
  PROVE  UNCHANGED Drain!dvars
BY PhaseStays DEF Phase

\* A step of the worker that may seal m.
LEMMA SealOrStay ==
  ASSUME NEW m \in Managers, UNCHANGED <<lease, callback, shut>>,
         \A x \in Managers \ {m} : Phase(x)' = Phase(x),
         Phase(m) \in {"open", "sealed"}, Phase(m)' \in {"open", "sealed"},
         Phase(m) = "sealed" => Phase(m)' = "sealed"
  PROVE  [Drain!DNext]_Drain!dvars
<1>1. CASE Phase(m) = Phase(m)'
  BY <1>1, PhaseStays
<1>2. CASE Phase(m) = "open" /\ Phase(m)' = "sealed"
  <2>1. \A x \in Managers : InFlight(x)' = InFlight(x)
    BY DEF InFlight, Leases, Callbacks
  <2>2. Drain!Seal(m)
    BY <1>2, <2>1 DEF Drain!Seal
  <2> QED
    BY <2>2 DEF Drain!DNext
<1> QED
  BY <1>1, <1>2

\* Every step of the tasks is a step of the drain protocol or none.
LEMMA DrainNext ==
  ASSUME ControlInv, ServiceInv, [ManagerNext]_vars
  PROVE  [Drain!DNext]_Drain!dvars
<1> USE DEF ControlInv, ServiceInv, TypeInv, TypeOK, FieldsOK, Labels, mgrVars, stopVars, gateVars, workVars
<1>1. ASSUME NEW t \in Tasks, NEW m \in Managers, AcquireDispatch(t, m) PROVE
    [Drain!DNext]_Drain!dvars
  <2>1. Phase(m) = "open"
    BY <1>1, GateInv DEF AcquireDispatch, Serves, GateInv, Phase
  <2>2. <<t, "lease">> \notin InFlight(m)
    BY <1>1, PMAssumption DEF AcquireDispatch, PMAssumption, InFlight, Leases, Callbacks
  <2>3. InFlight(m)' = InFlight(m) \union {<<t, "lease">>}
        /\ \A x \in Managers \ {m} : InFlight(x)' = InFlight(x)
    BY <1>1, PMAssumption DEF AcquireDispatch, PMAssumption, InFlight, Leases, Callbacks
  <2>4. shut' = shut /\ \A x \in Managers : Phase(x)' = Phase(x)
    BY <1>1 DEF AcquireDispatch, Phase
  <2>5. Drain!Admit(m, <<t, "lease">>)
    BY <2>1, <2>2, <2>3, <2>4 DEF Drain!Admit
  <2> QED
    BY <2>5 DEF Drain!DNext
<1>2. ASSUME NEW t \in Tasks, NEW m \in Managers, BeginSubscription(t, m) PROVE
    [Drain!DNext]_Drain!dvars
  <2>1. Phase(m) = "open"
    BY <1>2, GateInv DEF BeginSubscription, Serves, GateInv, Phase
  <2>2. <<t, "callback">> \notin InFlight(m)
    BY <1>2, PMAssumption DEF BeginSubscription, PMAssumption, InFlight, Leases, Callbacks
  <2>3. InFlight(m)' = InFlight(m) \union {<<t, "callback">>}
        /\ \A x \in Managers \ {m} : InFlight(x)' = InFlight(x)
    BY <1>2, PMAssumption DEF BeginSubscription, PMAssumption, InFlight, Leases, Callbacks
  <2>4. shut' = shut /\ \A x \in Managers : Phase(x)' = Phase(x)
    BY <1>2 DEF BeginSubscription, Phase
  <2>5. Drain!Admit(m, <<t, "callback">>)
    BY <2>1, <2>2, <2>3, <2>4 DEF Drain!Admit
  <2> QED
    BY <2>5 DEF Drain!DNext
<1>3. ASSUME NEW t \in Tasks, NEW m \in Managers, LoadNothing(t, m) PROVE [Drain!DNext]_Drain!dvars
  <2>1. \A x \in Managers : Phase(x)' = Phase(x)
    BY <1>3, StateInv DEF LoadNothing, AddNothing, LoadAllowed, AfterLoad, StateInv, Setting, Phase
  <2> QED
    BY <1>3, <2>1, PhaseStays DEF LoadNothing, AddNothing
<1>4. ASSUME NEW t \in Tasks, NEW m \in Managers, NEW p \in Plugins, LoadPlugin(t, m, p) PROVE
    [Drain!DNext]_Drain!dvars
  <2>1. \A x \in Managers : Phase(x)' = Phase(x)
    BY <1>4, StateInv DEF LoadPlugin, AddPlugin, LoadAllowed, AfterLoad, StateInv, Setting, Phase
  <2> QED
    BY <1>4, <2>1, PhaseStays DEF LoadPlugin, AddPlugin
<1>5. ASSUME NEW t \in Tasks, NEW m \in Managers, NEW mode \in Setting, SetupClient(t, m, mode)
    PROVE [Drain!DNext]_Drain!dvars
  <2>1. \A x \in Managers : Phase(x)' = Phase(x)
    BY <1>5, StateInv DEF SetupClient, SetupBegins, SetupAllowed, StateInv, Setting, Phase
  <2> QED
    BY <1>5, <2>1, PhaseStays DEF SetupClient, SetupBegins
<1>6. ASSUME NEW t \in Tasks, NEW m \in Managers, Activate(t, m) PROVE [Drain!DNext]_Drain!dvars
  <2>1. \A x \in Managers : Phase(x)' = Phase(x)
    BY <1>6, StateInv DEF Activate, StateInv, Setting, Phase
  <2> QED
    BY <1>6, <2>1, PhaseStays DEF Activate
<1>7. ASSUME NEW t \in Tasks, NEW m \in Managers, ShutdownReported(t, m) PROVE
    [Drain!DNext]_Drain!dvars
  BY <1>7, NothingMoves DEF ShutdownReported, CallsShutdown
<1>8. ASSUME NEW t \in Tasks, NEW m \in Managers, ShutdownJoin(t, m) PROVE
    [Drain!DNext]_Drain!dvars
  BY <1>8, NothingMoves DEF ShutdownJoin, CallsShutdown
<1>9. ASSUME NEW t \in Tasks, NEW m \in Managers, ShutdownStart(t, m) PROVE
    [Drain!DNext]_Drain!dvars
  <2>1. state[m] \notin {"closed"} /\ Phase(m) \in {"open", "sealed"} /\ Phase(m)' \in {"open", "sealed"}
    BY <1>9, StateInv DEF ShutdownStart, Starts, StateInv, Phase
  <2>2. Phase(m) = "sealed" => Phase(m)' = "sealed"
    BY <1>9 DEF ShutdownStart, Phase
  <2>3. \A x \in Managers \ {m} : Phase(x)' = Phase(x)
    BY <1>9 DEF ShutdownStart, Phase
  <2> QED
    BY <1>9, <2>1, <2>2, <2>3, SealOrStay DEF ShutdownStart
<1>10. ASSUME NEW t \in Tasks, StartCallback(t) PROVE [Drain!DNext]_Drain!dvars
  BY <1>10, NothingMoves DEF StartCallback
<1>11. ASSUME NEW t \in Tasks, NEW p \in Plugins, SetupHook(t, p) PROVE [Drain!DNext]_Drain!dvars
  BY <1>11, NothingMoves DEF SetupHook
<1>12. ASSUME NEW t \in Tasks, NEW p \in Plugins, NEW q \in Plugins, SetupHookLoads(t, p, q) PROVE
    [Drain!DNext]_Drain!dvars
  <2>1. \A x \in Managers : Phase(x)' = Phase(x)
    BY <1>12, StateInv DEF SetupHookLoads, LoadAllowed, AfterLoad, StateInv, Setting, Phase
  <2> QED
    BY <1>12, <2>1, PhaseStays DEF SetupHookLoads
<1>13. ASSUME NEW t \in Tasks, SetupFail(t) PROVE [Drain!DNext]_Drain!dvars
  <2>1. \A x \in Managers : Phase(x)' = Phase(x)
    BY <1>13, StateInv DEF SetupFail, StateInv, Setting, Phase
  <2> QED
    BY <1>13, <2>1, PhaseStays DEF SetupFail
<1>14. ASSUME NEW t \in Tasks, SetupActivate(t) PROVE [Drain!DNext]_Drain!dvars
  <2>1. \A x \in Managers : Phase(x)' = Phase(x)
    BY <1>14, StateInv DEF SetupActivate, StateInv, Setting, Phase
  <2> QED
    BY <1>14, <2>1, PhaseStays DEF SetupActivate
<1>15. ASSUME NEW t \in Tasks, SetupStage(t) PROVE [Drain!DNext]_Drain!dvars
  <2>1. \A x \in Managers : Phase(x)' = Phase(x)
    BY <1>15, StateInv DEF SetupStage, StateInv, Setting, Phase
  <2> QED
    BY <1>15, <2>1, PhaseStays DEF SetupStage
<1>16. ASSUME NEW t \in Tasks, Enable(t) PROVE [Drain!DNext]_Drain!dvars
  <2>1. \A x \in Managers : Phase(x)' = Phase(x)
    BY <1>16, StateInv DEF Enable, StateInv, Setting, Phase
  <2> QED
    BY <1>16, <2>1, PhaseStays DEF Enable
<1>17. ASSUME NEW t \in Tasks, Disable(t) PROVE [Drain!DNext]_Drain!dvars
  <2>1. PICK m \in Managers : m = mgr[t]
    BY <1>17 DEF Disable
  <2>2. state[m] = "draining" /\ attached[m] = attached[m]
    BY <1>17, <2>1, StateInv DEF Disable, StateInv, Worker
  <2>3. Phase(m) \in {"open", "sealed"} /\ Phase(m)' \in {"open", "sealed"}
    BY <1>17, <2>1, <2>2 DEF Disable, Phase
  <2>4. Phase(m) = "sealed" => Phase(m)' = "sealed"
    BY <1>17, <2>1, <2>2 DEF Disable, GateInDrain, Phase
  <2>5. \A x \in Managers \ {m} : Phase(x)' = Phase(x)
    BY <1>17, <2>1 DEF Disable, Phase
  <2> QED
    BY <1>17, <2>3, <2>4, <2>5, SealOrStay DEF Disable
<1>18. ASSUME NEW t \in Tasks, Drained(t) PROVE [Drain!DNext]_Drain!dvars
  BY <1>18, NothingMoves DEF Drained
<1>19. ASSUME NEW t \in Tasks, OwnerDrained(t) PROVE [Drain!DNext]_Drain!dvars
  BY <1>19, NothingMoves DEF OwnerDrained
<1>20. ASSUME NEW t \in Tasks, DrainTimeout(t) PROVE [Drain!DNext]_Drain!dvars
  BY <1>20, NothingMoves DEF DrainTimeout
<1>21. ASSUME NEW t \in Tasks, NEW p \in Plugins, SkipHook(t, p) PROVE [Drain!DNext]_Drain!dvars
  <2>1. PICK m \in Managers : m = mgr[t]
    BY <1>21 DEF SkipHook
  <2>2. Phase(m) = "sealed" /\ InFlight(m) = {}
    BY <1>21, <2>1, SealedForHooks DEF SkipHook
  <2>3. p \notin shut[m]
    BY <1>21, <2>1, HookInv DEF SkipHook, HookInv, LastOf
  <2>4. shut' = [shut EXCEPT ![m] = @ \union {p}]
    BY <1>21, <2>1 DEF SkipHook
  <2>5. \A x \in Managers : Phase(x)' = Phase(x) /\ InFlight(x)' = InFlight(x)
    BY <1>21 DEF SkipHook, Phase, InFlight, Leases, Callbacks
  <2>6. Drain!Stop(m, p)
    BY <2>2, <2>3, <2>4, <2>5 DEF Drain!Stop
  <2> QED
    BY <2>6 DEF Drain!DNext
<1>22. ASSUME NEW t \in Tasks, NEW p \in Plugins, EnterHook(t, p) PROVE [Drain!DNext]_Drain!dvars
  BY <1>22, NothingMoves DEF EnterHook
<1>23. ASSUME NEW t \in Tasks, NEW p \in Plugins, HookDone(t, p) PROVE [Drain!DNext]_Drain!dvars
  <2>1. PICK m \in Managers : m = mgr[t]
    BY <1>23 DEF HookDone
  <2>2. Phase(m) = "sealed" /\ InFlight(m) = {}
    BY <1>23, <2>1, SealedForHooks DEF HookDone
  <2>3. p \notin shut[m]
    BY <1>23, <2>1, HookInv DEF HookDone, HookInv, LastOf
  <2>4. shut' = [shut EXCEPT ![m] = @ \union {p}]
    BY <1>23, <2>1 DEF HookDone
  <2>5. \A x \in Managers : Phase(x)' = Phase(x) /\ InFlight(x)' = InFlight(x)
    BY <1>23 DEF HookDone, Phase, InFlight, Leases, Callbacks
  <2>6. Drain!Stop(m, p)
    BY <2>2, <2>3, <2>4, <2>5 DEF Drain!Stop
  <2> QED
    BY <2>6 DEF Drain!DNext
<1>24. ASSUME NEW t \in Tasks, NEW p \in Plugins, HookFails(t, p) PROVE [Drain!DNext]_Drain!dvars
  BY <1>24, NothingMoves DEF HookFails
<1>25. ASSUME NEW t \in Tasks, NEW e \in BOOLEAN, FinishShutdown(t, e) PROVE
    [Drain!DNext]_Drain!dvars
  <2>1. PICK m \in Managers : m = mgr[t]
    BY <1>25 DEF FinishShutdown
  <2>2. Phase(m) = "sealed" /\ InFlight(m) = {}
    BY <1>25, <2>1, SealedForHooks DEF FinishShutdown
  <2>3. Phase(m)' = "closed" /\ \A x \in Managers \ {m} : Phase(x)' = Phase(x)
    BY <1>25, <2>1 DEF FinishShutdown, Phase
  <2>4. shut' = shut /\ \A x \in Managers : InFlight(x)' = InFlight(x)
    BY <1>25 DEF FinishShutdown, InFlight, Leases, Callbacks
  <2>5. Drain!Close(m)
    BY <2>2, <2>3, <2>4 DEF Drain!Close
  <2> QED
    BY <2>5 DEF Drain!DNext
<1>26. ASSUME NEW t \in Tasks, WaiterReturns(t) PROVE [Drain!DNext]_Drain!dvars
  BY <1>26, NothingMoves DEF WaiterReturns
<1>27. ASSUME NEW t \in Tasks, ReleaseDispatch(t) PROVE [Drain!DNext]_Drain!dvars
  <2>1. PICK m \in Managers : m = lease[t]
    BY <1>27 DEF ReleaseDispatch
  <2>2. <<t, "lease">> \in InFlight(m)
    BY <2>1 DEF InFlight, Leases, Callbacks
  <2>3. InFlight(m)' = InFlight(m) \ {<<t, "lease">>}
        /\ \A x \in Managers \ {m} : InFlight(x)' = InFlight(x)
    BY <1>27, <2>1, PMAssumption DEF ReleaseDispatch, PMAssumption, InFlight, Leases, Callbacks
  <2>4. shut' = shut /\ \A x \in Managers : Phase(x)' = Phase(x)
    BY <1>27 DEF ReleaseDispatch, Phase
  <2>5. Drain!Complete(m, <<t, "lease">>)
    BY <2>2, <2>3, <2>4 DEF Drain!Complete
  <2> QED
    BY <2>5 DEF Drain!DNext
<1>28. ASSUME NEW t \in Tasks, EndSubscription(t) PROVE [Drain!DNext]_Drain!dvars
  <2>1. PICK m \in Managers : m = callback[t]
    BY <1>28 DEF EndSubscription
  <2>2. <<t, "callback">> \in InFlight(m)
    BY <2>1 DEF InFlight, Leases, Callbacks
  <2>3. InFlight(m)' = InFlight(m) \ {<<t, "callback">>}
        /\ \A x \in Managers \ {m} : InFlight(x)' = InFlight(x)
    BY <1>28, <2>1, PMAssumption DEF EndSubscription, PMAssumption, InFlight, Leases, Callbacks
  <2>4. shut' = shut /\ \A x \in Managers : Phase(x)' = Phase(x)
    BY <1>28 DEF EndSubscription, Phase
  <2>5. Drain!Complete(m, <<t, "callback">>)
    BY <2>2, <2>3, <2>4 DEF Drain!Complete
  <2> QED
    BY <2>5 DEF Drain!DNext
<1>29. ASSUME NEW t \in Tasks, CancelBegun(t) PROVE [Drain!DNext]_Drain!dvars
  <2>1. CASE callback[t] = NoManager
    <3>1. callback' = callback
      BY <1>29, <2>1 DEF CancelBegun
    <3> QED
      BY <1>29, <3>1, NothingMoves DEF CancelBegun
  <2>2. CASE callback[t] # NoManager
    <3>1. PICK m \in Managers : m = callback[t]
      BY <2>2
    <3>2. <<t, "callback">> \in InFlight(m)
      BY <3>1 DEF InFlight, Leases, Callbacks
    <3>3. InFlight(m)' = InFlight(m) \ {<<t, "callback">>}
          /\ \A x \in Managers \ {m} : InFlight(x)' = InFlight(x)
      BY <1>29, <3>1, PMAssumption DEF CancelBegun, PMAssumption, InFlight, Leases, Callbacks
    <3>4. shut' = shut /\ \A x \in Managers : Phase(x)' = Phase(x)
      BY <1>29 DEF CancelBegun, Phase
    <3>5. Drain!Complete(m, <<t, "callback">>)
      BY <3>2, <3>3, <3>4 DEF Drain!Complete
    <3> QED
      BY <3>5 DEF Drain!DNext
  <2> QED
    BY <2>1, <2>2
<1>30. ASSUME NEW t \in Tasks, CancelWorker(t) PROVE [Drain!DNext]_Drain!dvars
  BY <1>30, NothingMoves DEF CancelWorker
<1>31. ASSUME NEW t \in Tasks, CancelWaiter(t) PROVE [Drain!DNext]_Drain!dvars
  BY <1>31, NothingMoves DEF CancelWaiter
<1>32. ASSUME NEW m \in Managers, NEW p \in Plugins, Subscribe(m, p) PROVE
    [Drain!DNext]_Drain!dvars
  BY <1>32, NothingMoves DEF Subscribe
<1>33. ASSUME NEW m \in Managers, NEW p \in Plugins, Unsubscribe(m, p) PROVE
    [Drain!DNext]_Drain!dvars
  BY <1>33, NothingMoves DEF Unsubscribe
<1>34. CASE UNCHANGED vars
  BY <1>34, NothingMoves DEF vars
<1> HIDE DEF ControlInv, ServiceInv, TypeInv, TypeOK, FieldsOK, mgrVars, stopVars, gateVars, workVars
<1> QED
  BY PMAssumption, <1>1, <1>2, <1>3, <1>4, <1>5, <1>6, <1>7, <1>8, <1>9, <1>10, <1>11, <1>12,
      <1>13, <1>14, <1>15, <1>16, <1>17, <1>18, <1>19, <1>20, <1>21, <1>22, <1>23, <1>24, <1>25,
      <1>26, <1>27, <1>28, <1>29, <1>30, <1>31, <1>32, <1>33, <1>34 DEF ManagerNext, Call, Proceed,
      Setup, ShutdownSteps, EndHandler, Cancel, Resubscribe, Setting

\* The plugin manager keeps the promise of the drain protocol: plugins stop and
\* managers close, once, only when they are sealed and nothing is in flight.
THEOREM DrainRefinement ==
  ASSUME LoadingSetup = {}
  PROVE  Spec => ImplementsDrain
<1>1. Init => Drain!DInit
  BY PMAssumption DEF Init, PMAssumption, Drain!DInit, Phase, InFlight, Leases, Callbacks
<1>2. ControlInv /\ ServiceInv /\ [ManagerNext]_vars => [Drain!DNext]_Drain!dvars
  BY DrainNext
<1> QED
  BY <1>1, <1>2, ControlInvariant, ServiceInvariant, PTL DEF Spec, ImplementsDrain, Drain!DSpec
=============================================================================

------------------------------ MODULE KeyQueue ------------------------------
(***************************************************************************)
(* KeyQueue of jianer/utils/logic.py: the mailbox in which a protocol      *)
(* adapter leaves the answers to its calls.  put() runs on the listener's  *)
(* threads; get() blocks a thread on the condition variable; get_async()   *)
(* awaits a future that put() completes through the waiter's event loop.   *)
(*                                                                         *)
(* A getter is one call of get() or get_async().  Each section under _cond *)
(* is a step; what an event loop does for a getter is a step of its own.   *)
(***************************************************************************)
EXTENDS Integers, FiniteSets

CONSTANTS
  Keys,          \* echoes
  Values,        \* objects, each put once: a value stands for its put
  Getters,       \* calls of get() and get_async()
  AsyncGetters,  \* those of get_async()
  Impatient,     \* those with a timeout
  NoValue, NoKey

ASSUME KQAssumption ==
  /\ AsyncGetters \subseteq Getters /\ Impatient \subseteq Getters
  /\ NoValue \notin Values /\ NoKey \notin Keys

VARIABLES
  contents,      \* [Keys -> Values or NoValue]
  stale,         \* keys whose time stamp is older than ttl
  waiters,       \* _async_waiters: [Keys -> SUBSET AsyncGetters]
  scheduled,     \* getters whose loop has a _wake of their future to run
  unput,         \* values still to be put
  pc, key,       \* per getter: position, and the key it asks for
  got            \* per getter: the value it has returned, or NoValue

qvars == <<contents, stale, waiters, scheduled, unput, pc, key, got>>

\* "waiting": in the wait set, or at the await of the future; "woken":
\* notified, or the future is done; "late": the timeout of get() is over.
GetterLabels == {"idle", "waiting", "woken", "checking", "late", "returned", "timedOut", "cancelled"}
Stopped == {"returned", "timedOut", "cancelled"}

QInit ==
  /\ contents = [k \in Keys |-> NoValue]
  /\ stale = {}
  /\ waiters = [k \in Keys |-> {}]
  /\ scheduled = {}
  /\ unput = Values
  /\ pc = [g \in Getters |-> "idle"]
  /\ key = [g \in Getters |-> NoKey]
  /\ got = [g \in Getters |-> NoValue]

Has(k) == contents[k] # NoValue

(***************************************************************************)
(* put(key, obj)                                                           *)
(***************************************************************************)
Expired == [k \in Keys |-> IF k \in stale THEN NoValue ELSE contents[k]]

\* The getters a put wakes: notify_all() is for all keys, the futures for one.
OneOf(S) == {g \in S : g = CHOOSE h \in S : TRUE}
InWaitSet == {g \in Getters \ AsyncGetters : pc[g] = "waiting"}
Notified == InWaitSet
WakeOne(k) == OneOf(waiters[k])
Woken(k) == waiters[k]

Put(k, v) ==
  /\ contents' = [Expired EXCEPT ![k] = v]
  /\ stale' = {}
  /\ pc' = [g \in Getters |-> IF g \in Notified THEN "woken" ELSE pc[g]]
  /\ scheduled' = scheduled \union Woken(k)
  /\ UNCHANGED <<waiters, key, got>>

PutNew(k, v) ==
  /\ v \in unput
  /\ unput' = unput \ {v}
  /\ Put(k, v)

\* Time passes: the value at k becomes older than ttl.
Age(k) ==
  /\ Has(k) /\ k \notin stale
  /\ stale' = stale \union {k}
  /\ UNCHANGED <<contents, waiters, scheduled, unput, pc, key, got>>

(***************************************************************************)
(* get(key, timeout) and get_async(key, timeout)                           *)
(***************************************************************************)
\* _pop() and return.
Pop(k) ==
  /\ contents' = [contents EXCEPT ![k] = NoValue]
  /\ stale' = stale \ {k}

Return(g, k) ==
  /\ Has(k)
  /\ Pop(k)
  /\ got' = [got EXCEPT ![g] = contents[k]]
  /\ pc' = [pc EXCEPT ![g] = "returned"]
  /\ UNCHANGED <<waiters, scheduled, unput>>

\* The key is missing: wait on the condition, or register a new future.
Register(g, k) == waiters' = [waiters EXCEPT ![k] = @ \union {g}]
Wait(g, k) ==
  /\ ~Has(k)
  /\ IF g \in AsyncGetters THEN Register(g, k) ELSE UNCHANGED waiters
  /\ pc' = [pc EXCEPT ![g] = "waiting"]
  /\ UNCHANGED <<contents, stale, scheduled, unput, got>>

Get(g, k) ==
  /\ pc[g] = "idle"
  /\ key' = [key EXCEPT ![g] = k]
  /\ Return(g, k) \/ Wait(g, k)

\* The lock is taken again: by wait_for() after a notification, or by
\* get_async() at the top of its loop.
CheckAgain(g) ==
  /\ pc[g] = IF g \in AsyncGetters THEN "checking" ELSE "woken"
  /\ Return(g, key[g]) \/ Wait(g, key[g])
  /\ UNCHANGED key

\* The loop of an asyncio getter runs _wake, ...
Wake(g) ==
  /\ g \in scheduled
  /\ scheduled' = scheduled \ {g}
  /\ pc' = [pc EXCEPT ![g] = "woken"]
  /\ UNCHANGED <<contents, stale, waiters, unput, key, got>>

\* ... and the getter's finally clause, which drops the future: what was
\* scheduled for it has no effect any more.
StayRegistered(g) == UNCHANGED waiters /\ scheduled' = scheduled \ {g}
Unregister(g) ==
  /\ waiters' = [waiters EXCEPT ![key[g]] = @ \ {g}]
  /\ scheduled' = scheduled \ {g}

Resume(g) ==
  /\ g \in AsyncGetters /\ pc[g] = "woken"
  /\ Unregister(g)
  /\ pc' = [pc EXCEPT ![g] = "checking"]
  /\ UNCHANGED <<contents, stale, unput, key, got>>

\* wait_for() raises at the deadline, or the task is cancelled, even when the
\* future has just been completed.
StopWaiting(g, label) ==
  /\ g \in AsyncGetters /\ pc[g] \in {"waiting", "woken"}
  /\ label = "timedOut" => g \in Impatient
  /\ Unregister(g)
  /\ pc' = [pc EXCEPT ![g] = label]
  /\ UNCHANGED <<contents, stale, unput, key, got>>

\* The timeout of get() ends the wait; wait_for() looks once more ...
SyncTimeout(g) ==
  /\ g \in Impatient \ AsyncGetters /\ pc[g] = "waiting"
  /\ pc' = [pc EXCEPT ![g] = "late"]
  /\ UNCHANGED <<contents, stale, waiters, scheduled, unput, key, got>>

\* ... under the lock, and get() raises TimeoutError when there is nothing.
LastLook(g) ==
  /\ pc[g] = "late"
  /\ \/ Return(g, key[g])
     \/ /\ ~Has(key[g])
        /\ pc' = [pc EXCEPT ![g] = "timedOut"]
        /\ UNCHANGED <<contents, stale, waiters, scheduled, unput, got>>
  /\ UNCHANGED key

----------------------------------------------------------------------------
Deliver(g) == Wake(g) \/ Resume(g) \/ CheckAgain(g) \/ LastLook(g)

QNext ==
  \/ \E k \in Keys : Age(k) \/ \E v \in Values : PutNew(k, v)
  \/ \E g \in Getters :
       \/ \E k \in Keys : Get(g, k)
       \/ Deliver(g) \/ SyncTimeout(g)
       \/ \E label \in {"timedOut", "cancelled"} : StopWaiting(g, label)

QSpec == QInit /\ [][QNext]_qvars

\* Threads and event loops that can take a step do.
QFairness == \A g \in Getters : WF_qvars(Deliver(g))

----------------------------------------------------------------------------
Fields ==
  /\ contents \in [Keys -> Values \union {NoValue}]
  /\ stale \in SUBSET Keys
  /\ waiters \in [Keys -> SUBSET AsyncGetters]
  /\ scheduled \in SUBSET AsyncGetters
  /\ unput \in SUBSET Values
  /\ pc \in [Getters -> GetterLabels]
  /\ key \in [Getters -> Keys \union {NoKey}]
  /\ got \in [Getters -> Values \union {NoValue}]
  /\ \A g \in Getters : key[g] = NoKey <=> pc[g] = "idle"

Registered ==
  /\ \A g \in AsyncGetters, k \in Keys :
       g \in waiters[k] <=> key[g] = k /\ pc[g] \in {"waiting", "woken"}
  /\ \A g \in scheduled : pc[g] \in {"waiting", "woken"}

\* Every variable has its type; an asyncio getter is registered, under its own
\* key, exactly while it awaits a future ("assert not queue._async_waiters"
\* when all have left), and only then can its future be completed.
QTypeOK == Fields /\ Registered

\* No lost wakeup: while a value is there, every getter of its key that still
\* waits has been told, whatever values, timeouts and other getters came before.
NoLostWakeup ==
  \A g \in Getters : pc[g] = "waiting" /\ Has(key[g]) => g \in scheduled

\* "Each value is consumed by exactly one get": no two calls return the same
\* value, and a returned value is not in the queue any more.
ConsumedOnce ==
  \A g \in Getters : got[g] # NoValue =>
    /\ \A h \in Getters \ {g} : got[h] # got[g]
    /\ \A k \in Keys : contents[k] # got[g]

\* A getter that waits for a key whose value is there returns, unless another
\* getter takes the value, it expires, or the getter is cancelled.
WaiterIsServed ==
  \A g \in Getters, k \in Keys :
    pc[g] = "waiting" /\ key[g] = k /\ Has(k) ~> pc[g] \in Stopped \/ ~Has(k)
=============================================================================

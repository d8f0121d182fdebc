-------------------------- MODULE PluginManagerInv --------------------------
(***************************************************************************)
(* The inductive invariant behind the safety of PluginManager, in layers:  *)
(* each layer is preserved by every step given the layers above it.        *)
(***************************************************************************)
EXTENDS PluginManager

Setting == {"activating", "staging"}
LockHolder == Setting \union {"enabling", "disabling"}

\* No aclose() is in progress: shutdown() is called by user code only.
UserCalls == \A t \in Tasks : ret[t] = "idle"

TypeInv == TypeOK /\ UserCalls

\* The transition lock is held exactly by the task inside a locked section.
LockInv ==
  \A m \in Managers, t \in Tasks :
    tlock[m] = t <=> mgr[t] = m /\ pc[t] \in LockHolder

\* What the state of a manager is while a call on it is in progress, and who
\* may be its worker.
StateInv ==
  /\ \A m \in Managers : state[m] = "closed" <=> report[m] # "none"
  /\ \A t \in Tasks :
       /\ pc[t] \in Setting => state[mgr[t]] \in {"created", "loaded", "staged", "active"}
       /\ pc[t] = "enabling" => state[mgr[t]] = "active"
       /\ pc[t] \in Worker => started[mgr[t]] /\ state[mgr[t]] = "draining"

WorkerInv ==
  \A m \in Managers :
    /\ \A t, u \in Workers(m) : t = u
    /\ started[m] /\ report[m] = "none" => Workers(m) # {}

\* An open gate is the gate of an attached manager that is active or whose
\* worker is between the two halves of _begin_draining().
GateInv ==
  \A m \in Managers : enabled[m] =>
    /\ attached[m]
    /\ \/ state[m] = "active"
       \/ /\ state[m] = "draining" /\ tlock[m] \in Tasks
          /\ pc[tlock[m]] = "disabling"

\* A plugin is loaded once.
OrderInv ==
  \A m \in Managers : \A i, j \in 1 .. Len(order[m]) : order[m][i] = order[m][j] => i = j

\* The loop over the shutdown hooks: no plugin is left that is shut down, and
\* every other plugin that is set up is left, or has failed.
HookInv ==
  \A m \in Managers, t \in Tasks : pc[t] \in {"hooks", "hook"} /\ mgr[t] = m =>
    /\ todo[t] \intersect shut[m] = {}
    /\ err[t] \/ (Loaded(m) \intersect setup[m]) \ shut[m] \subseteq todo[t]

\* The loop over the setup hooks: what is neither left nor set up is nothing.
SetupInv ==
  \A m \in Managers :
    /\ state[m] = "active" => Loaded(m) \subseteq setup[m]
    /\ \A t \in Tasks : pc[t] \in Setting /\ mgr[t] = m =>
         /\ Loaded(m) \ todo[t] \subseteq setup[m]
         /\ state[m] = "active" => todo[t] = {}

\* A callback runs only for an attached manager that serves or drains.
CallbackInv ==
  \A t \in Tasks : callback[t] \in Managers =>
    attached[callback[t]] /\ state[callback[t]] \in {"active", "draining"}

\* What the worker has waited for stays true.
DrainInv ==
  \A m \in Managers, u \in Tasks :
    /\ lease[u] = m =>
         /\ state[m] # "closed"
         /\ \A t \in Tasks : mgr[t] = m => pc[t] \notin {"ownerDraining", "hooks", "hook"}
    /\ callback[u] = m =>
         /\ state[m] # "closed"
         /\ \A t \in Tasks : mgr[t] = m => pc[t] \notin {"hooks", "hook"}

\* The layers that hold whatever the setup hooks do, and all of them, which
\* need that no setup hook loads a plugin.
ControlInv == TypeInv /\ LockInv /\ StateInv /\ WorkerInv /\ GateInv /\ OrderInv /\ HookInv
ServiceInv == SetupInv /\ CallbackInv /\ DrainCounts /\ DrainInv
=============================================================================

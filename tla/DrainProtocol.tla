---------------------------- MODULE DrainProtocol ----------------------------
(***************************************************************************)
(* What a plugin manager promises its plugins, whatever the tasks that     *)
(* call it do: work is admitted while the manager is open; once it is      *)
(* sealed it stays so and admits nothing; plugins are stopped, each at     *)
(* most once, and the manager is closed, only when no work is left.        *)
(* (documents/lifecycle-and-adapter-contracts.md, "setup and shutdown".)   *)
(***************************************************************************)
CONSTANTS Managers, Plugins, Work
VARIABLES
  phase,    \* [Managers -> {"open", "sealed", "closed"}]
  active,   \* [Managers -> SUBSET Work]: the handlers in flight
  stopped   \* [Managers -> SUBSET Plugins]: plugins shut down

dvars == <<phase, active, stopped>>

DInit ==
  /\ phase = [m \in Managers |-> "open"]
  /\ active = [m \in Managers |-> {}]
  /\ stopped = [m \in Managers |-> {}]

Admit(m, w) ==
  /\ phase[m] = "open" /\ w \notin active[m]
  /\ active' = [active EXCEPT ![m] = @ \union {w}]
  /\ UNCHANGED <<phase, stopped>>

Complete(m, w) ==
  /\ w \in active[m]
  /\ active' = [active EXCEPT ![m] = @ \ {w}]
  /\ UNCHANGED <<phase, stopped>>

Seal(m) ==
  /\ phase[m] = "open"
  /\ phase' = [phase EXCEPT ![m] = "sealed"]
  /\ UNCHANGED <<active, stopped>>

Stop(m, p) ==
  /\ phase[m] = "sealed" /\ active[m] = {} /\ p \notin stopped[m]
  /\ stopped' = [stopped EXCEPT ![m] = @ \union {p}]
  /\ UNCHANGED <<phase, active>>

Close(m) ==
  /\ phase[m] = "sealed" /\ active[m] = {}
  /\ phase' = [phase EXCEPT ![m] = "closed"]
  /\ UNCHANGED <<active, stopped>>

DNext ==
  \E m \in Managers :
    \/ \E w \in Work : Admit(m, w) \/ Complete(m, w)
    \/ \E p \in Plugins : Stop(m, p)
    \/ Seal(m) \/ Close(m)

DSpec == DInit /\ [][DNext]_dvars
=============================================================================

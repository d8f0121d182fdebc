------------------------------ MODULE MCPlugins ------------------------------
(* The resolution of plugins, the old loader and the command matchers share *)
(* no state: `moving` says which of them runs, the others rest.             *)
EXTENDS PluginLoading, LegacyLoader, MatcherRegistry

CONSTANTS p1, p2, p3, f1, f2, c1, c2, m1, m2, x1, x2, t1
VARIABLE moving

Components == {"loading", "legacy", "matchers"}
allVars == <<moving, pvars, legacyVars, matchVars>>

PRest == requires = [p \in Plugins |-> {}] /\ PInit
LegacyRest == kindOf = [e \in Entries |-> "cache"] /\ feishu = FALSE /\ LegacyInit
\* Nothing tells the managers apart: the task's events are m1's, or nobody's.
MatchHere == MatchInit /\ \A t \in EventTasks : scope[t] # m2
MatchRest == scope = [t \in EventTasks |-> Nobody] /\ MatchInit

HInit ==
  /\ moving \in Components
  /\ IF moving = "loading" THEN PInit ELSE PRest
  /\ IF moving = "legacy" THEN LegacyInit ELSE LegacyRest
  /\ IF moving = "matchers" THEN MatchHere ELSE MatchRest

HNext ==
  /\ UNCHANGED moving
  /\ \/ moving = "loading" /\ PNext /\ UNCHANGED <<legacyVars, matchVars>>
     \/ moving = "legacy" /\ LegacyNext /\ UNCHANGED <<pvars, matchVars>>
     \/ moving = "matchers" /\ MatchNext /\ UNCHANGED <<pvars, legacyVars>>

HSpec == HInit /\ [][HNext]_allVars /\ PFairness

\* The types of the component that runs.
PluginTypesOK ==
  CASE moving = "loading" -> PTypeOK
    [] moving = "legacy" -> LegacyTypeOK
    [] moving = "matchers" -> MatchTypeOK
=============================================================================

-------------------------- MODULE MCModulesAndCalls --------------------------
(* The modules of plugins, the start of an adapter, its API calls and the   *)
(* downloads share no state: `moving` says which of them runs, the others   *)
(* rest at their beginnings.  Nothing tells the generations of a plugin     *)
(* apart, and no liveness is checked here: symmetry is sound.               *)
EXTENDS ModuleOwnership, Startup, ApiCalls, Download

CONSTANTS g1, g2, pkg, helper, x1, x2
VARIABLE moving

GenerationSymmetry == Permutations(Generations)
SectionEntry(key, mode) == [key |-> key, mode |-> mode]
SectionsHere == {<<SectionEntry("onebot", "FWS"), SectionEntry("onebot11", "HTTPC")>>,
                 <<SectionEntry("lark", ""), SectionEntry("feishu", "FWS")>>}
Components == {"ownership", "startup", "apiCalls", "download"}
allVars == <<moving, ovars, startVars, apiVars, downVars>>

OwnRest == bare = {} /\ OInit
ApiRest == api = "milky" /\ ApiInit
DownRest == length = 0 /\ threads = 0 /\ silent = TRUE /\ DownInit

HInit ==
  /\ moving \in Components
  /\ IF moving = "ownership" THEN OInit ELSE OwnRest
  /\ StartInit
  /\ IF moving = "apiCalls" THEN ApiInit ELSE ApiRest
  /\ IF moving = "download" THEN DownInit ELSE DownRest

HNext ==
  /\ UNCHANGED moving
  /\ \/ moving = "ownership" /\ ONext /\ UNCHANGED <<startVars, apiVars, downVars>>
     \/ moving = "startup" /\ StartNext /\ UNCHANGED <<ovars, apiVars, downVars>>
     \/ moving = "apiCalls" /\ ApiNext /\ UNCHANGED <<ovars, startVars, downVars>>
     \/ moving = "download" /\ DownNext /\ UNCHANGED <<ovars, startVars, apiVars>>

HSpec == HInit /\ [][HNext]_allVars

\* The types of the component that runs.
CallTypesOK ==
  CASE moving = "ownership" -> OTypeOK
    [] moving = "startup" -> StartTypeOK
    [] moving = "apiCalls" -> ApiTypeOK
    [] moving = "download" -> DownTypeOK
=============================================================================

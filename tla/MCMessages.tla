----------------------------- MODULE MCMessages -----------------------------
(* The queue of answers, the events, and the messages and media a message   *)
(* refers to share no state: `moving` says which of them runs, the others   *)
(* rest at their ends.                                                      *)
EXTENDS KeyQueue, References, MediaResolution, EventTranslation

CONSTANTS k1, k2, v1, v2, a1, a2, s1, s2, o1, o2
VARIABLE moving

Message(kind, peer, seq) == [kind |-> kind, peer |-> peer, seq |-> seq]
MessagesHere == {Message("private", 1, 1), Message("group", 1, 1), Message("group", 1, 3)}
Components == {"keyQueue", "references", "media", "events"}
allVars == <<moving, qvars, refVars, mediaVars, eventVars>>

RefRest == /\ adapter = "onebot"
           /\ request = [protocol |-> FALSE, timeout |-> TRUE, id |-> 0, kind |-> "group", peer |-> 1]
           /\ RefInit
MediaRest == /\ source = "adapter" /\ origin = o1 /\ content = 0 /\ quality = "good"
             /\ lookup = [o \in Origins |-> "public"]
             /\ mpc = "done" /\ hops = 0 /\ size = 0 /\ clock = 0 /\ contacted = {}
             /\ pinned = [o \in Origins |-> "none"]
             /\ outcome = Failure("unsupported", "capability_unavailable")
EventRest == /\ protocol = "milky" /\ lacks = {"segments"}
             /\ fact = CHOOSE f \in Facts("milky") : f.what = "message"
             /\ epc = "dropped" /\ data = {} /\ event = {}
             /\ replies = {} /\ accepted = {} /\ sought = {}

HInit ==
  /\ moving \in Components
  /\ QInit
  /\ IF moving = "references" THEN RefInit ELSE RefRest
  /\ IF moving = "media" THEN MediaInit ELSE MediaRest
  /\ IF moving = "events" THEN EventInit ELSE EventRest

HNext ==
  /\ UNCHANGED moving
  /\ \/ moving = "keyQueue" /\ QNext /\ UNCHANGED <<refVars, mediaVars, eventVars>>
     \/ moving = "references" /\ RefNext /\ UNCHANGED <<qvars, mediaVars, eventVars>>
     \/ moving = "media" /\ MediaNext /\ UNCHANGED <<qvars, refVars, eventVars>>
     \/ moving = "events" /\ EventNext /\ UNCHANGED <<qvars, refVars, mediaVars>>

HSpec == HInit /\ [][HNext]_allVars /\ QFairness /\ MediaFairness

\* The types of the component that runs.
MessageTypesOK ==
  CASE moving = "keyQueue" -> QTypeOK
    [] moving = "references" -> RefTypeOK
    [] moving = "media" -> MediaTypeOK
    [] moving = "events" -> EventTypeOK

\* A getter's call ends once its answer is there or its deadline has passed, and
\* a resolution of media ends, whatever the servers do.
GettersEnd == WaiterIsServed /\ MediaEnds
=============================================================================

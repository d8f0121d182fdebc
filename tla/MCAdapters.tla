----------------------------- MODULE MCAdapters -----------------------------
(* The components of the OneBot, Milky and Feishu adapters, which share no  *)
(* state: `moving` says which of them runs, the others rest at their ends.  *)
EXTENDS OneBotListener, MilkySend, MilkyListener, FeishuEvents, FeishuToken, FeishuSend

CONSTANTS c1, e1, f1, f2, d1, d2, d3, r1, r2
VARIABLE moving

TextsHere == {<<>>, <<3>>, <<2, 4>>, <<1, 6>>}
Components ==
  {"oneBotListener", "milkySend", "milkyListener", "feishuEvents", "feishuToken", "feishuSend"}
allVars == <<moving, lvars, svars, mlvars, fvars, tvars, uvars>>

SRest == /\ msg = [text |-> <<>>, replies |-> 0, others |-> 1] /\ spc = "refused"
         /\ plan = "first" /\ rest = <<>> /\ packet = 0 /\ attempt = 1 /\ res = NoAnswer.res
         /\ adopted = NoAnswer /\ reports = {} /\ received = <<>> /\ faults = 0
FRest == FInit /\ mode = "webhook"
URest == parts = <<>> /\ UInit

HInit ==
  /\ moving \in Components
  /\ LInit /\ (moving # "oneBotListener" => transport = "FWS")
  /\ IF moving = "milkySend" THEN SInit ELSE SRest
  /\ MLInit
  /\ IF moving = "feishuEvents" THEN FInit ELSE FRest
  /\ KInit
  /\ IF moving = "feishuSend" THEN UInit ELSE URest

HNext ==
  /\ UNCHANGED moving
  /\ \/ moving = "oneBotListener" /\ LNext /\ UNCHANGED <<svars, mlvars, fvars, tvars, uvars>>
     \/ moving = "milkySend" /\ SNext /\ UNCHANGED <<lvars, mlvars, fvars, tvars, uvars>>
     \/ moving = "milkyListener" /\ MLNext /\ UNCHANGED <<lvars, svars, fvars, tvars, uvars>>
     \/ moving = "feishuEvents" /\ FNext /\ UNCHANGED <<lvars, svars, mlvars, tvars, uvars>>
     \/ moving = "feishuToken" /\ KNext /\ UNCHANGED <<lvars, svars, mlvars, fvars, uvars>>
     \/ moving = "feishuSend" /\ UNext /\ UNCHANGED <<lvars, svars, mlvars, fvars, tvars>>

HSpec ==
  HInit /\ [][HNext]_allVars /\ LFairness /\ SFairness /\ MLFairness /\ FFairness

\* The types of the component that runs.
AdapterTypesOK ==
  CASE moving = "oneBotListener" -> LTypeOK
    [] moving = "milkySend" -> STypeOK
    [] moving = "milkyListener" -> MLTypeOK
    [] moving = "feishuEvents" -> FTypeOK
    [] moving = "feishuToken" -> KTypeOK
    [] moving = "feishuSend" -> UTypeOK

Stopping ==
  \/ moving = "oneBotListener" /\ LStopping
  \/ moving = "milkyListener" /\ MLStopping
  \/ moving = "feishuEvents" /\ FStopping
Ended ==
  \/ moving = "oneBotListener" /\ LEnded
  \/ moving = "milkyListener" /\ MLEnded
  \/ moving = "feishuEvents" /\ FEnded

\* The listener of OneBot gives up only after its retries in a row; and stop()
\* ends run() of every adapter, wherever it is: blocked in a websocket's
\* recv(), at an empty queue of Feishu, waiting to connect again, or just making
\* another connection.  Only run() of OneBot over HTTP that waits for a report
\* goes on doing so; it ends when one comes.
RunsEndDuly == []GivesUpAfterRetries /\ (Stopping ~> Ended)

\* No call of OneBot and no send() of Milky waits for ever, whatever is lost.
CallsEnd == CallsAnswered /\ SendEnds

\* What the recipient of a text sees has no gaps; and when send() returns, all
\* of the message is there, in Milky's chunks or in Feishu's parts.
SendsWhole == NoGaps /\ Delivered /\ EachPartShown
=============================================================================

---------------------------- MODULE MilkyListener ----------------------------
(***************************************************************************)
(* The listener of the Milky adapter: run() and stop() of Milky.py, the    *)
(* websocket and recv() of MilkyHttpConnection.  A frame of the event      *)
(* stream is an event, noise that recv() passes over, an empty frame that  *)
(* ends the stream, or poison: the bot is offline or a number of the event *)
(* is none, which raises an exception run() does not catch.  A handler     *)
(* thread is started for each event; like OneBot's it reads run()'s        *)
(* variable late, and what it does is not followed here.                   *)
(***************************************************************************)
EXTENDS Naturals, Sequences

CONSTANTS ConnectRetries,   \* conn_config.retries
          MaxFrames         \* bound: frames on the wire

ASSUME MilkyListenerAssumption == ConnectRetries \in Nat /\ MaxFrames \in Nat

VARIABLES
  listening,   \* listener_ran
  runAt,       \* where run() is
  tries,       \* retried
  link,        \* the global `connection`: none, "new", "up", "broken" or "closed"
  frames,      \* what the server has sent on it and recv() has not read
  stopAt       \* where stop() is

mlvars == <<listening, runAt, tries, link, frames, stopAt>>

FrameKinds == {"event", "noise", "empty", "poison"}
Over == {"ended", "gaveUp", "raised"}

MLInit ==
  /\ listening = FALSE /\ runAt = "off" /\ tries = 0
  /\ link = "none" /\ frames = <<>> /\ stopAt = "none"

RunGoes(from, to) == runAt = from /\ runAt' = to
Closed == link' = "closed" /\ frames' = <<>>

RunBegins ==
  /\ RunGoes("off", "outer") /\ listening' = TRUE
  /\ UNCHANGED <<tries, link, frames, stopAt>>

OuterTest ==
  /\ RunGoes("outer", IF listening THEN "making" ELSE "ended")
  /\ UNCHANGED <<listening, tries, link, frames, stopAt>>

MakeConnection ==
  /\ RunGoes("making", "connecting")
  /\ link' = "new" /\ frames' = <<>>
  /\ UNCHANGED <<listening, tries, stopAt>>

ConnectWorks ==
  /\ RunGoes("connecting", "inner")
  /\ link' = "up" /\ tries' = 0
  /\ UNCHANGED <<listening, frames, stopAt>>

\* An OSError or a WebSocketException: closed, counted, and after three seconds
\* tried again with a new connection.
ConnectFails ==
  /\ RunGoes("connecting", IF tries >= ConnectRetries THEN "gaveUp" ELSE "sleeping")
  /\ tries' = IF tries >= ConnectRetries THEN tries ELSE tries + 1
  /\ Closed /\ UNCHANGED <<listening, stopAt>>

Wake ==
  /\ RunGoes("sleeping", "outer")
  /\ UNCHANGED <<listening, tries, link, frames, stopAt>>

InnerTest ==
  /\ RunGoes("inner", IF listening THEN "receiving" ELSE "leaving")
  /\ UNCHANGED <<listening, tries, link, frames, stopAt>>

NextFrame(kind) == runAt = "receiving" /\ frames # <<>> /\ Head(frames) = kind
Read == frames' = Tail(frames) /\ UNCHANGED <<listening, tries, link, stopAt>>

Event  == NextFrame("event")  /\ RunGoes("receiving", "inner") /\ Read
Noise  == NextFrame("noise")  /\ RunGoes("receiving", "receiving") /\ Read
Empty  == NextFrame("empty")  /\ RunGoes("receiving", "leaving") /\ Read
Poison == NextFrame("poison") /\ RunGoes("receiving", "raised") /\ Read

\* recv() on a broken or closed connection raises.
RecvRaises ==
  /\ RunGoes("receiving", "leaving")
  /\ link \in {"broken", "closed"} /\ frames = <<>>
  /\ UNCHANGED <<listening, tries, link, frames, stopAt>>

CloseOwn ==
  /\ RunGoes("leaving", "outer")
  /\ Closed /\ UNCHANGED <<listening, tries, stopAt>>

Interrupt ==   \* Ctrl+C on the thread of run(), anywhere in it
  /\ runAt \notin Over \cup {"off"} /\ link # "none"
  /\ runAt' = "raised"
  /\ Closed /\ UNCHANGED <<listening, tries, stopAt>>

-----------------------------------------------------------------------------
(* stop(), on another thread: the flag, then the connection that is global *)
(* by then; closing one that is not connected yet does nothing.            *)

StopListening ==
  /\ stopAt = "none" /\ runAt # "off"
  /\ stopAt' = "closing" /\ listening' = FALSE
  /\ UNCHANGED <<runAt, tries, link, frames>>

LinkStopped == IF link \in {"up", "broken"} THEN Closed ELSE UNCHANGED <<link, frames>>

StopCloses ==
  /\ stopAt = "closing" /\ stopAt' = "stopped"
  /\ LinkStopped /\ UNCHANGED <<listening, runAt, tries>>

-----------------------------------------------------------------------------
ServerSendsFrame(kind) ==
  /\ link = "up" /\ Len(frames) < MaxFrames
  /\ frames' = Append(frames, kind)
  /\ UNCHANGED <<listening, runAt, tries, link, stopAt>>

LinkBreaks ==
  /\ link = "up" /\ link' = "broken"
  /\ UNCHANGED <<listening, runAt, tries, frames, stopAt>>

RunStep ==
  \/ OuterTest \/ MakeConnection \/ ConnectWorks \/ ConnectFails \/ Wake
  \/ InnerTest \/ Event \/ Noise \/ Empty \/ Poison \/ RecvRaises \/ CloseOwn

MLNext ==
  \/ RunBegins \/ RunStep \/ Interrupt \/ StopListening \/ StopCloses \/ LinkBreaks
  \/ \E kind \in FrameKinds : ServerSendsFrame(kind)

\* The threads of run() and stop() are scheduled, connect() returns or raises;
\* a server need not send anything.
MLFairness == WF_mlvars(RunStep) /\ WF_mlvars(StopCloses)
MLSpec == MLInit /\ [][MLNext]_mlvars /\ MLFairness

-----------------------------------------------------------------------------
MLTypeOK ==
  /\ listening \in BOOLEAN
  /\ runAt \in Over \cup {"off", "outer", "making", "connecting", "sleeping", "inner",
                          "receiving", "leaving"}
  /\ tries \in 0..ConnectRetries
  /\ link \in {"none", "new", "up", "broken", "closed"}
  /\ frames \in Seq(FrameKinds)
  /\ stopAt \in {"none", "closing", "stopped"}

\* stop() is under way, and run() has ended with no connection left open, which
\* run() itself must see to if it was just making one when stop() looked.
MLStopping == stopAt = "closing"
MLEnded == runAt \in Over /\ link \notin {"up", "broken"}
=============================================================================

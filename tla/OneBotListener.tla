--------------------------- MODULE OneBotListener ---------------------------
(***************************************************************************)
(* The listener of the OneBot adapter, over a websocket or HTTP, and the   *)
(* calls that wait for their answers from it (LecAdapters/OneBot.py,       *)
(* OneBotLib, network.py).                                                 *)
(*                                                                         *)
(* run() is one thread.  It receives frames into its local variable `data` *)
(* and starts a handler thread for each, whose lambda reads that variable  *)
(* when the thread runs: `cell` is the variable, shared by all of them.    *)
(* An answer is put into the mailbox (KeyQueue) under its echo; an event   *)
(* goes to the registered handler.  Frames the server sends are well       *)
(* formed, and a call's echo is a fresh uuid: the call itself.             *)
(*                                                                         *)
(* Over HTTP the frames come from a queue: of what the server posts to a   *)
(* Flask thread, and of the answers, which the caller puts there itself.   *)
(* Nothing closes that queue.                                              *)
(***************************************************************************)
EXTENDS Integers, Sequences, FiniteSets

CONSTANTS
  Calls,       \* calls of the OneBot API; also their echoes and their answers
  Events,      \* event frames of the server
  Retries,     \* connections.OneBot.retries
  MaxThreads,  \* bound: handler threads alive at a time
  Started,     \* the HyperListenerStartNotify
  NoValue, NoKey

Frames == Calls \union Events \union {Started}

ASSUME OLAssumption ==
  /\ Retries \in Nat /\ MaxThreads \in Nat
  /\ NoValue \notin Frames /\ NoKey \notin Calls
  /\ Calls \intersect Events = {} /\ Started \notin Calls \union Events

VARIABLES
  contents, stale, waiters, scheduled, unput, pc, key, got,   \* KeyQueue
  sent,      \* calls whose packet was sent
  pending,   \* frames the server may still send
  ran,       \* listener_ran
  lpc,       \* where run() is
  retried,   \* consecutive refusals counted by run()
  transport, \* connections.OneBot.mode: "FWS" (websocket) or "HTTPC"
  up,        \* whether the websocket is connected, or the Flask thread started
  wire,      \* frames sent and not yet received; HTTPConnection.reports
  cell,      \* `data`
  starting,  \* handler threads that have not read `data` yet
  taken,     \* [Frames -> Nat]: handler threads that hold the frame
  handled,   \* history: how often a frame was handled; 2 means more than once
  arrived,   \* history: frames received
  refused    \* history: consecutive refusals

Q == INSTANCE KeyQueue WITH
  Keys <- Calls, Values <- Calls, Getters <- Calls, AsyncGetters <- Calls, Impatient <- Calls

queueVars == <<contents, stale, waiters, scheduled, unput, pc, key, got>>
callVars == <<sent, pending>>
runVars == <<ran, lpc, retried, refused>>
linkVars == <<transport, up, wire>>
workVars == <<cell, starting, taken, handled, arrived>>
lvars == <<queueVars, callVars, runVars, linkVars, workVars>>

LInit ==
  /\ Q!QInit
  /\ sent = {} /\ pending = Events
  /\ ran = FALSE /\ lpc = "off" /\ retried = 0 /\ refused = 0
  /\ transport \in {"FWS", "HTTPC"} /\ up = FALSE /\ wire = <<>>
  /\ cell = NoValue /\ starting = 0
  /\ taken = [f \in Frames |-> 0]
  /\ handled = [f \in Frames |-> 0]
  /\ arrived = {}

\* The handler threads that hold a frame; all that are alive.
Holders == UNION {{f} \X (1 .. taken[f]) : f \in Frames}
Busy == starting + Cardinality(Holders)

(***************************************************************************)
(* A call: its packet is sent, then get_async(echo, RESPONSE_TIMEOUT).     *)
(* Over HTTP the POST brings the answer.                                   *)
(***************************************************************************)
Send(c) ==
  /\ c \notin sent /\ up
  /\ sent' = sent \union {c}
  /\ IF transport = "FWS"
     THEN pending' = pending \union {c} /\ UNCHANGED wire
     ELSE wire' = Append(wire, c) /\ UNCHANGED pending
  /\ UNCHANGED <<queueVars, runVars, transport, up, workVars>>

AwaitAnswer(c) ==
  /\ c \in sent
  /\ Q!Get(c, c)
  /\ UNCHANGED <<callVars, runVars, linkVars, workVars>>

GetsAnswer(c) ==
  /\ Q!Deliver(c)
  /\ UNCHANGED <<callVars, runVars, linkVars, workVars>>

NeverGivesUp(c) == FALSE /\ UNCHANGED lvars
GivesUp(c) ==
  /\ Q!StopWaiting(c, "timedOut")
  /\ UNCHANGED <<callVars, runVars, linkVars, workVars>>

(***************************************************************************)
(* The server and the network.                                             *)
(***************************************************************************)
ServerSends(f) ==
  /\ up /\ f \in pending
  /\ pending' = pending \ {f}
  /\ wire' = Append(wire, f)
  /\ UNCHANGED <<queueVars, sent, runVars, transport, up, workVars>>

ConnectionLost ==
  /\ up /\ transport = "FWS"
  /\ up' = FALSE /\ wire' = <<>>
  /\ UNCHANGED <<queueVars, callVars, runVars, transport, workVars>>

(***************************************************************************)
(* run()                                                                   *)
(***************************************************************************)
Goto(label) == lpc' = label

\* Without a handler or a connection of a known mode run() raises at once.
Run ==
  /\ lpc = "off"
  /\ ran' = TRUE
  /\ Goto("looping") \/ Goto("raised")
  /\ UNCHANGED <<queueVars, callVars, retried, refused, linkVars, workVars>>

OuterLoop ==
  /\ lpc = "looping"
  /\ Goto(IF ran THEN "connecting" ELSE "ended")
  /\ UNCHANGED <<queueVars, callVars, ran, retried, refused, linkVars, workVars>>

StartThread(f) ==
  /\ cell' = f
  /\ starting' = starting + 1
  /\ UNCHANGED <<taken, handled>>

ResetCount == retried' = 0

\* connect() succeeds (over HTTP, the Flask thread is started and the server
\* answers a POST): the start notification is the first frame.
Connect ==
  /\ lpc = "connecting" /\ Busy < MaxThreads
  /\ up' = TRUE
  /\ ResetCount /\ refused' = 0
  /\ StartThread(Started)
  /\ Goto("checking")
  /\ UNCHANGED <<queueVars, callVars, ran, transport, wire, arrived>>

RetriesOffByOne == retried > Retries
OutOfRetries == retried >= Retries

\* connect() raises ConnectionRefusedError, which httpx never does.
Refused ==
  /\ lpc = "connecting" /\ transport = "FWS"
  /\ refused' = refused + 1
  /\ IF OutOfRetries
     THEN Goto("gaveUp") /\ UNCHANGED retried
     ELSE Goto("looping") /\ retried' = retried + 1
  /\ UNCHANGED <<queueVars, callVars, ran, linkVars, workVars>>

\* connect() raises TimeoutError, or an error of httpx: `except
\* ConnectionRefusedError or TimeoutError` catches the first of the two only.
ConnectRaises ==
  /\ lpc = "connecting"
  /\ Goto("raised")
  /\ UNCHANGED <<queueVars, callVars, ran, retried, refused, linkVars, workVars>>

InnerLoop ==
  /\ lpc = "checking"
  /\ Goto(IF ran THEN "receiving" ELSE "looping")
  /\ UNCHANGED <<queueVars, callVars, ran, retried, refused, linkVars, workVars>>

Receive ==
  /\ lpc = "receiving" /\ wire # <<>> /\ Busy < MaxThreads
  /\ StartThread(Head(wire))
  /\ wire' = Tail(wire)
  /\ arrived' = arrived \union {Head(wire)}
  /\ Goto("checking")
  /\ UNCHANGED <<queueVars, callVars, ran, retried, refused, transport, up>>

\* recv() on a lost or closed websocket raises: ConnectionResetError leads to a
\* new connection, any other error leaves run().  Queue.get() goes on waiting.
ReceiveFails(label) ==
  /\ lpc = "receiving" /\ ~up
  /\ Goto(label)
  /\ UNCHANGED <<queueVars, callVars, ran, retried, refused, linkVars, workVars>>

\* stop(), on any thread.  HTTPConnection.close() asks flask for the request it
\* is in; there is none, and stop() swallows the RuntimeError.
StopAndClose ==
  /\ ran' = FALSE /\ UNCHANGED transport
  /\ IF transport = "FWS" THEN up' = FALSE /\ wire' = <<>> ELSE UNCHANGED <<up, wire>>

Stop ==
  /\ StopAndClose
  /\ UNCHANGED <<queueVars, callVars, lpc, retried, refused, workVars>>

(***************************************************************************)
(* A handler thread: the lambda reads `data`, __handler() works on it.     *)
(***************************************************************************)
ReadCell ==
  /\ starting > 0
  /\ starting' = starting - 1
  /\ taken' = [taken EXCEPT ![cell] = @ + 1]
  /\ UNCHANGED <<queueVars, callVars, runVars, linkVars, cell, handled, arrived>>

Finish(f) ==
  /\ taken[f] > 0
  /\ taken' = [taken EXCEPT ![f] = @ - 1]
  /\ handled' = [handled EXCEPT ![f] = IF @ < 2 THEN @ + 1 ELSE @]
  /\ UNCHANGED <<callVars, runVars, linkVars, cell, starting, arrived>>

PutLatest(c) == Q!Put(c, cell)
PutAnswer(c) == Q!Put(c, c)

HandleAnswer(c) == PutAnswer(c) /\ UNCHANGED unput /\ Finish(c)
HandleEvent(e) == Finish(e) /\ UNCHANGED queueVars

----------------------------------------------------------------------------
Listener ==
  \/ OuterLoop \/ Connect \/ Refused \/ ConnectRaises \/ InnerLoop \/ Receive
  \/ \E label \in {"looping", "raised"} : ReceiveFails(label)

Handler ==
  \/ ReadCell
  \/ \E c \in Calls : HandleAnswer(c)
  \/ \E e \in Events \union {Started} : HandleEvent(e)

Network == ConnectionLost \/ \E f \in Calls \union Events : ServerSends(f)

LNext ==
  \/ Run \/ Listener \/ Stop \/ Handler \/ Network
  \/ \E c \in Calls : Send(c) \/ AwaitAnswer(c) \/ GetsAnswer(c) \/ GivesUp(c)

LSpec == LInit /\ [][LNext]_lvars

\* Threads run, handlers return, and asyncio timeouts expire; neither the
\* server nor the network need do anything.
LFairness ==
  /\ WF_lvars(Listener) /\ WF_lvars(Handler)
  /\ \A c \in Calls : WF_lvars(AwaitAnswer(c)) /\ WF_lvars(GetsAnswer(c)) /\ WF_lvars(GivesUp(c))

----------------------------------------------------------------------------
\* Types; handler threads exist only after run() has set `data`.
LTypeOK ==
  /\ Q!QTypeOK
  /\ sent \subseteq Calls /\ pending \subseteq Calls \union Events
  /\ ran \in BOOLEAN /\ up \in BOOLEAN /\ transport \in {"FWS", "HTTPC"}
  /\ lpc \in {"off", "looping", "connecting", "checking", "receiving", "ended", "gaveUp", "raised"}
  /\ retried \in 0 .. Retries /\ refused \in 0 .. Retries + 1
  /\ wire \in Seq(Calls \union Events)
  /\ cell \in Frames \union {NoValue} /\ (starting > 0 => cell # NoValue)
  /\ starting \in 0 .. MaxThreads
  /\ taken \in [Frames -> 0 .. MaxThreads]
  /\ handled \in [Frames -> 0 .. 2] /\ arrived \subseteq Calls \union Events

\* A call returns the answer to its own echo or none, although the handler
\* threads share one variable and may put an answer twice.
OwnAnswer == \A c \in Calls : got[c] \in {c, NoValue} /\ contents[c] \in {c, NoValue}

\* The listener gives up only after `retries` retries in a row have failed:
\* a connection that was made in between starts the count again.
GivesUpAfterRetries == lpc = "gaveUp" => refused = Retries + 1

\* Over HTTP recv() blocks until a report comes.
LBlocked == transport = "HTTPC" /\ lpc = "receiving" /\ wire = <<>>

\* A listener that was told to stop, which may be blocked in a websocket's
\* recv(), but not at HTTP's queue; and one that has ended.
LStopping ==
  lpc \in {"looping", "connecting", "checking", "receiving"} /\ ~ran /\ ~LBlocked
LEnded == lpc \in {"ended", "gaveUp", "raised"}

\* No call waits for ever, whatever is lost: its answer, the connection, or
\* the listener itself.
CallsAnswered ==
  \A c \in Calls : pc[c] \in {"waiting", "woken", "checking"} ~> pc[c] \in Q!Stopped

\* Every frame received is handled, once: the adapter is "responsible for
\* connecting to OneBot implementations, receiving and distributing events".
FramesHandledOnce ==
  \A f \in Calls \union Events :
    /\ handled[f] < 2
    /\ f \in arrived /\ Busy = 0 => handled[f] = 1

\* "connections.OneBot.retries: the maximum number of retries after a failure
\* to connect": no failure of connect() ends run() before they are used up.
FailuresAreRetried ==
  [][lpc = "connecting" /\ lpc' \in {"gaveUp", "raised"} => retried = Retries]_lvars
=============================================================================

---------------------------- MODULE AsyncioRunner ----------------------------
(***************************************************************************)
(* The event loop that all adapters share (asyncio_runner.py).             *)
(*                                                                         *)
(* A listener thread hands a coroutine to run_awaitable() and waits for    *)
(* its result; the runner's own thread runs it.  shutdown_dispatch_runner()*)
(* may be called by any thread meanwhile, request_shutdown() also by a     *)
(* coroutine.  After a shutdown the next event creates another runner.     *)
(*                                                                         *)
(* `queue` is the loop's list of ready callbacks.  A call's coroutine      *)
(* becomes a task when its callback runs; the end of a task schedules the  *)
(* callback that completes the caller's future.                            *)
(***************************************************************************)
EXTENDS Naturals, Sequences, SequencesExt

CONSTANTS
  Runners,   \* bound: the AsyncioRunner objects that may be created
  Threads,   \* the threads that call the module's functions
  Exiting,   \* threads whose coroutine may raise SystemExit
  Asking,    \* threads whose coroutine may call request_shutdown()
  NoRunner, NoThread

ASSUME RunnerAssumption ==
  Exiting \subseteq Threads /\ Asking \subseteq Threads
  /\ NoRunner \notin Runners /\ NoThread \notin Threads

VARIABLES
  dispatch,  \* _DISPATCH_RUNNER
  created,   \* the runners that exist
  phase,     \* [Runners -> where _thread_main() is]
  loop,      \* [Runners -> BOOLEAN]: _loop is not None
  ready, stopped, closing, closed,  \* [Runners -> BOOLEAN]: the attributes
  failed,    \* [Runners -> BOOLEAN]: _startup_error is not None
  queue,     \* [Runners -> Seq(Callback)]
  pc,        \* [Threads -> where the thread is]
  on,        \* [Threads -> the runner of its call]
  task,      \* [Threads -> the state of its coroutine]
  asked,     \* [Threads -> BOOLEAN]: its coroutine's end will stop the loop
  late       \* history: its coroutine was submitted after the loop's stop

runnerVars == <<dispatch, created, loop, ready, stopped, closing, closed, failed>>
callVars == <<pc, on, late>>
rvars == <<dispatch, created, phase, loop, ready, stopped, closing, closed,
           failed, queue, pc, on, task, asked, late>>

StopCall == [kind |-> "stop", of |-> NoThread]
LastCall == [kind |-> "last", of |-> NoThread]
Callback == {StopCall, LastCall} \union [kind : {"start", "done"}, of : Threads]

RInit ==
  /\ dispatch = NoRunner /\ created = {}
  /\ phase = [r \in Runners |-> "none"]
  /\ loop = [r \in Runners |-> FALSE]
  /\ ready = [r \in Runners |-> FALSE] /\ stopped = [r \in Runners |-> FALSE]
  /\ closing = [r \in Runners |-> FALSE] /\ closed = [r \in Runners |-> FALSE]
  /\ failed = [r \in Runners |-> FALSE]
  /\ queue = [r \in Runners |-> <<>>]
  /\ pc = [t \in Threads |-> "idle"] /\ on = [t \in Threads |-> NoRunner]
  /\ task = [t \in Threads |-> "none"]
  /\ asked = [t \in Threads |-> FALSE] /\ late = [t \in Threads |-> FALSE]

Goes(t, label) == pc' = [pc EXCEPT ![t] = label]

\* The call returns or raises; which of them, and what, is left out.
Returns(t) == Goes(t, "idle")

----------------------------------------------------------------------------
(* run_awaitable(): get_dispatch_runner(), start(), and the result.  While  *)
(* the runner is closing and not closed it raises, and nothing changes.     *)

Uses(t, r) ==
  /\ on' = [on EXCEPT ![t] = r]
  /\ task' = [task EXCEPT ![t] = "none"]
  /\ late' = [late EXCEPT ![t] = FALSE]
  /\ asked' = [asked EXCEPT ![t] = FALSE]

ReplaceClosing == dispatch # NoRunner => closing[dispatch]
MustReplace == dispatch # NoRunner => closed[dispatch]

NewRunner(t) ==
  /\ pc[t] = "idle" /\ MustReplace
  /\ \E r \in Runners \ created :
       /\ dispatch' = r /\ created' = created \union {r}
       /\ Uses(t, r)
  /\ Goes(t, "start")
  /\ UNCHANGED <<phase, loop, ready, stopped, closing, closed, failed, queue>>

UseRunner(t) ==
  /\ pc[t] = "idle" /\ ~MustReplace /\ ~closing[dispatch]
  /\ Uses(t, dispatch)
  /\ Goes(t, "start")
  /\ UNCHANGED <<runnerVars, phase, queue>>

Start(t) ==
  LET r == on[t] IN
  /\ pc[t] = "start"
  /\ CASE closing[r] \/ closed[r] -> Returns(t) /\ UNCHANGED phase
       [] loop[r] /\ ~closing[r] /\ ~closed[r] -> Goes(t, "submit") /\ UNCHANGED phase
       [] OTHER ->
            /\ Goes(t, "ready")
            /\ phase' = [phase EXCEPT ![r] = IF @ = "none" THEN "starting" ELSE @]
  /\ UNCHANGED <<runnerVars, queue, on, task, asked, late>>

Ready(t) ==
  /\ pc[t] = "ready" /\ ready[on[t]]
  /\ IF failed[on[t]] \/ ~loop[on[t]] THEN Returns(t) ELSE Goes(t, "submit")
  /\ UNCHANGED <<runnerVars, phase, queue, on, task, asked, late>>

LoopClosed(r) == phase[r] \in {"closed", "done"}
Calls(r, callback) == queue' = [queue EXCEPT ![r] = Append(@, callback)]

\* run_coroutine_threadsafe() with the loop start() returned.
Submit(t) ==
  LET r == on[t] IN
  /\ pc[t] = "submit"
  /\ IF LoopClosed(r)
     THEN Returns(t) /\ UNCHANGED <<queue, task, late>>
     ELSE /\ Goes(t, "result")
          /\ Calls(r, [kind |-> "start", of |-> t])
          /\ task' = [task EXCEPT ![t] = "submitted"]
          /\ late' = [late EXCEPT ![t] = phase[r] # "running" \/ Contains(queue[r], StopCall)]
  /\ UNCHANGED <<runnerVars, phase, on, asked>>

Result(t) ==
  /\ pc[t] = "result" /\ task[t] \in {"returned", "cancelled", "exited"}
  /\ Returns(t)
  /\ UNCHANGED <<runnerVars, phase, queue, on, task, asked, late>>

----------------------------------------------------------------------------
(* shutdown_dispatch_runner() and request_shutdown() of a thread.           *)

Shutdown(t) ==
  /\ pc[t] = "idle" /\ dispatch # NoRunner
  /\ Goes(t, "request")
  /\ Uses(t, dispatch)
  /\ UNCHANGED <<runnerVars, phase, queue>>

Request(t) ==
  LET r == on[t] IN
  /\ pc[t] = "request"
  /\ IF closed[r] \/ closing[r]
     THEN Goes(t, "waiting") /\ UNCHANGED closing
     ELSE /\ closing' = [closing EXCEPT ![r] = TRUE]
          /\ Goes(t, IF loop[r] THEN "stop" ELSE "mark")
  /\ UNCHANGED <<dispatch, created, phase, loop, ready, stopped, closed, failed,
                 queue, on, task, asked, late>>

CloseUnnoticed(r) == closed' = [closed EXCEPT ![r] = TRUE] /\ UNCHANGED stopped
CloseUnstarted(r) ==
  closed' = [closed EXCEPT ![r] = TRUE] /\ stopped' = [stopped EXCEPT ![r] = TRUE]

\* There was no loop when `closing` was set.
MarkClosed(t) ==
  /\ pc[t] = "mark"
  /\ CloseUnstarted(on[t])
  /\ Goes(t, "waiting")
  /\ UNCHANGED <<dispatch, created, phase, loop, ready, closing, failed,
                 queue, on, task, asked, late>>

CallStop(t) ==
  /\ pc[t] = "stop"
  /\ IF LoopClosed(on[t])
     THEN Returns(t) /\ UNCHANGED queue
     ELSE Goes(t, "waiting") /\ Calls(on[t], StopCall)
  /\ UNCHANGED <<runnerVars, phase, on, task, asked, late>>

Stopped(t) ==
  /\ pc[t] = "waiting" /\ stopped[on[t]]
  /\ Returns(t)
  /\ UNCHANGED <<runnerVars, phase, queue, on, task, asked, late>>

\* The timeout of shutdown(), 10 seconds by default.
TimesOut(t) ==
  /\ pc[t] = "waiting" /\ ~stopped[on[t]]
  /\ Returns(t)
  /\ UNCHANGED <<runnerVars, phase, queue, on, task, asked, late>>

----------------------------------------------------------------------------
(* Coroutines on the loop.                                                  *)

Running == {"running", "ending", "cancelling", "closing", "drained"}
AtWork == {"running", "cancelling"}   \* a task that has not ended

DeferStop(t) == asked' = [asked EXCEPT ![t] = TRUE] /\ UNCHANGED queue

\* request_shutdown() of the runner by a coroutine that runs on it.
Ask(t) ==
  /\ t \in Asking /\ task[t] \in AtWork /\ phase[on[t]] \in Running
  /\ ~closing[on[t]] /\ ~closed[on[t]]
  /\ closing' = [closing EXCEPT ![on[t]] = TRUE]
  /\ DeferStop(t)
  /\ UNCHANGED <<dispatch, created, phase, loop, ready, stopped, closed, failed,
                 task, callVars>>

\* The callbacks of a task that ends: first the one that completes the
\* caller's future, then the one request_shutdown() has added.
EndCallbacks(t) ==
  queue' = [queue EXCEPT ![on[t]] =
              @ \o <<[kind |-> "done", of |-> t]>> \o (IF asked[t] THEN <<StopCall>> ELSE <<>>)]

TaskEnds(t) ==
  /\ task[t] \in AtWork /\ phase[on[t]] \in Running
  /\ \E how \in {"ended"} \union (IF task[t] = "cancelling" THEN {"dropped"} ELSE {}) :
       task' = [task EXCEPT ![t] = how]
  /\ EndCallbacks(t)
  /\ UNCHANGED <<runnerVars, phase, callVars, asked>>

\* SystemExit leaves run_forever(), and _cancel_remaining_tasks() too.
TaskExits(t) ==
  LET r == on[t] IN
  /\ t \in Exiting /\ task[t] \in AtWork /\ phase[r] \in Running
  /\ task' = [task EXCEPT ![t] = "exiting"]
  /\ EndCallbacks(t)
  /\ phase' = [phase EXCEPT ![r] = CASE @ \in {"running", "ending"} -> "left"
                                     [] @ = "cancelling" -> "crashed"
                                     [] OTHER -> @]
  /\ failed' = [failed EXCEPT ![r] = @ \/ phase[r] \in {"running", "ending"}]
  /\ ready' = [ready EXCEPT ![r] = @ \/ phase[r] \in {"running", "ending"}]
  /\ UNCHANGED <<dispatch, created, loop, stopped, closing, closed, callVars, asked>>

----------------------------------------------------------------------------
(* The runner's thread: _thread_main().                                     *)

LoopStarts(r) ==
  /\ phase[r] = "starting"
  /\ phase' = [phase EXCEPT ![r] = "running"]
  /\ loop' = [loop EXCEPT ![r] = TRUE]
  /\ ready' = [ready EXCEPT ![r] = TRUE]
  /\ UNCHANGED <<dispatch, created, stopped, closing, closed, failed, queue, callVars, task, asked>>

FailSilently(r) == failed' = [failed EXCEPT ![r] = TRUE] /\ UNCHANGED ready
ReportFailure(r) == failed' = [failed EXCEPT ![r] = TRUE] /\ ready' = [ready EXCEPT ![r] = TRUE]

\* new_event_loop() raises.
LoopFails(r) ==
  /\ phase[r] = "starting"
  /\ phase' = [phase EXCEPT ![r] = "closed"]
  /\ ReportFailure(r)
  /\ UNCHANGED <<dispatch, created, loop, stopped, closing, closed, queue, callVars, task, asked>>

Runs(r, kind) ==
  /\ phase[r] \in Running /\ queue[r] # <<>> /\ Head(queue[r]).kind = kind
  /\ queue' = [queue EXCEPT ![r] = Tail(@)]

StartTask(r) ==
  /\ Runs(r, "start")
  /\ task' = [task EXCEPT ![Head(queue[r]).of] = "running"]
  /\ UNCHANGED <<runnerVars, phase, callVars, asked>>

Outcome(state) ==
  CASE state = "ended" -> "returned" [] state = "dropped" -> "cancelled" [] OTHER -> "exited"

CompleteFuture(r) ==
  /\ Runs(r, "done")
  /\ task' = [task EXCEPT ![Head(queue[r]).of] = Outcome(@)]
  /\ UNCHANGED <<runnerVars, phase, callVars, asked>>

Unfinished(r) == {t \in Threads : on[t] = r /\ task[t] = "cancelling"}

\* loop.stop(): run_forever() returns after the callbacks of this iteration;
\* run_until_complete(gather(...)) raises unless the tasks have ended.
StopLoop(r) ==
  /\ Runs(r, "stop")
  /\ phase' = [phase EXCEPT ![r] = CASE @ = "running" -> "ending"
                                     [] @ = "cancelling" /\ Unfinished(r) # {} -> "crashed"
                                     [] OTHER -> @]
  /\ UNCHANGED <<runnerVars, callVars, task, asked>>

CancelNone(r) == UNCHANGED task
CancelAll(r) ==
  task' = [t \in Threads |->
             IF on[t] = r /\ task[t] = "running" THEN "cancelling" ELSE task[t]]

CancelTasks(r) ==
  /\ phase[r] \in {"ending", "left"}
  /\ CancelAll(r)
  /\ phase' = [phase EXCEPT ![r] = "cancelling"]
  /\ UNCHANGED <<runnerVars, queue, callVars, asked>>

\* The loop runs on for shutdown_asyncgens(): once more at least.
TasksCancelled(r) ==
  /\ phase[r] = "cancelling" /\ Unfinished(r) = {}
  /\ phase' = [phase EXCEPT ![r] = "closing"]
  /\ Calls(r, LastCall)
  /\ UNCHANGED <<runnerVars, callVars, task, asked>>

LastIteration(r) ==
  /\ Runs(r, "last")
  /\ phase' = [phase EXCEPT ![r] = "drained"]
  /\ UNCHANGED <<runnerVars, callVars, task, asked>>

CloseLoop(r) ==
  /\ phase[r] = "drained"
  /\ phase' = [phase EXCEPT ![r] = "closed"]
  /\ queue' = [queue EXCEPT ![r] = <<>>]
  /\ UNCHANGED <<runnerVars, callVars, task, asked>>

ForgetLoop(r) == loop' = [loop EXCEPT ![r] = FALSE]

ThreadEnds(r) ==
  /\ phase[r] = "closed"
  /\ phase' = [phase EXCEPT ![r] = "done"]
  /\ ForgetLoop(r)
  /\ closing' = [closing EXCEPT ![r] = TRUE]
  /\ closed' = [closed EXCEPT ![r] = TRUE]
  /\ stopped' = [stopped EXCEPT ![r] = TRUE]
  /\ UNCHANGED <<dispatch, created, ready, failed, queue, callVars, task, asked>>

----------------------------------------------------------------------------
Caller(t) ==
  \/ NewRunner(t) \/ UseRunner(t)
  \/ Start(t) \/ Ready(t) \/ Submit(t) \/ Result(t)
  \/ Shutdown(t) \/ Request(t) \/ MarkClosed(t) \/ CallStop(t) \/ Stopped(t) \/ TimesOut(t)

Coroutine(t) == Ask(t) \/ TaskEnds(t) \/ TaskExits(t)

LoopThread(r) ==
  \/ LoopStarts(r) \/ LoopFails(r)
  \/ StartTask(r) \/ CompleteFuture(r) \/ StopLoop(r) \/ LastIteration(r)
  \/ CancelTasks(r) \/ TasksCancelled(r) \/ CloseLoop(r) \/ ThreadEnds(r)

RNext ==
  \/ \E t \in Threads : Caller(t) \/ Coroutine(t)
  \/ \E r \in Runners : LoopThread(r)

RSpec == RInit /\ [][RNext]_rvars

\* Threads run; a coroutine ends, and at the latest when it is cancelled.
\* Nobody has to call anything.
RFairSpec ==
  /\ RSpec
  /\ \A r \in Runners : WF_rvars(LoopThread(r))
  /\ \A t \in Threads :
       /\ WF_rvars(Start(t) \/ Ready(t) \/ Submit(t) \/ Result(t))
       /\ WF_rvars(Request(t) \/ MarkClosed(t) \/ CallStop(t) \/ Stopped(t))
       /\ WF_rvars(TaskEnds(t))
----------------------------------------------------------------------------
HasLoop(r) == phase[r] \in Running \union {"left", "crashed"}

\* Types; a runner has a loop only while its thread lives.
RTypeOK ==
  /\ dispatch \in created \union {NoRunner} /\ created \subseteq Runners
  /\ phase \in [Runners -> Running \union {"none", "starting", "left", "crashed", "closed", "done"}]
  /\ loop \in [Runners -> BOOLEAN]
  /\ \A r \in Runners : loop[r] => HasLoop(r) \/ phase[r] = "closed"
  /\ ready \in [Runners -> BOOLEAN]
  /\ stopped \in [Runners -> BOOLEAN] /\ closing \in [Runners -> BOOLEAN]
  /\ closed \in [Runners -> BOOLEAN] /\ failed \in [Runners -> BOOLEAN]
  /\ queue \in [Runners -> Seq(Callback)]
  /\ pc \in [Threads -> {"idle", "start", "ready", "submit", "result",
                         "request", "mark", "stop", "waiting"}]
  /\ on \in [Threads -> Runners \union {NoRunner}]
  /\ \A t \in Threads : pc[t] # "idle" => on[t] \in created
  /\ task \in [Threads -> {"none", "submitted", "running", "cancelling", "ended", "dropped",
                           "exiting", "returned", "cancelled", "exited"}]
  /\ asked \in [Threads -> BOOLEAN] /\ late \in [Threads -> BOOLEAN]

\* A runner that was closed before its thread had a loop: see ShutdownReclaims.
Leaked(r) == closed[r] /\ phase[r] # "done"

\* Two event loops never run side by side, so that the locks and queues of
\* the plugins stay usable: a runner is replaced only after its loop is gone.
OneLiveLoop ==
  \A r, s \in Runners : HasLoop(r) /\ HasLoop(s) => r = s \/ Leaked(r) \/ Leaked(s)

\* A coroutine that was submitted before the loop was told to stop has ended,
\* and its caller's future is complete, when the loop is closed.
AcceptedIsServed ==
  \A t \in Threads :
    pc[t] = "result" /\ ~late[t] /\ LoopClosed(on[t]) /\ ~failed[on[t]]
      => task[t] \in {"returned", "cancelled"}

\* "shutdown is deferred until that coroutine has returned so its synchronous
\* submitter can receive the result": also when other threads shut down.
AskerIsServed ==
  \A t \in Threads :
    asked[t] /\ phase[on[t]] # "running" /\ ~failed[on[t]] => task[t] = "returned"

\* No coroutine that was accepted is forgotten, whoever shuts the runner down
\* and wherever its loop is then: neither another's nor the asker's own.
NothingForgotten == AcceptedIsServed /\ AskerIsServed

\* SystemExit broke off the cancellation of the tasks: the thread is dead,
\* and nothing it had still to do is done.
BrokenOff(r) == phase[r] = "crashed"

\* No listener thread waits for ever: not for the loop to start, and not for
\* the result of a coroutine that reached the loop before it was stopped,
\* unless a SystemExit of another coroutine has ended the loop.
CallerReturns ==
  \A t \in Threads :
    /\ pc[t] = "ready" ~> pc[t] \in {"submit", "idle"}
    /\ pc[t] = "result" /\ ~late[t] ~> pc[t] = "idle" \/ failed[on[t]] \/ BrokenOff(on[t])

\* A runner that began to close does close: the next event gets a new one.
\* "Close the shared runner and wait for all loop resources to be reclaimed."
ShutdownCompletes == \A r \in Runners : closing[r] ~> stopped[r] \/ BrokenOff(r)

\* "Stop the runner, cancel remaining tasks, and join its thread": when
\* shutdown() reports success the thread has ended or was never started.
ShutdownReclaims == \A r \in Runners : stopped[r] => phase[r] \in {"none", "done"}

\* "cancel remaining tasks": a coroutine that the loop accepted has ended
\* when the loop is closed, or its caller would wait for ever.
NoCoroutineStranded ==
  \A t \in Threads :
    pc[t] = "result" /\ LoopClosed(on[t]) => task[t] \in {"returned", "cancelled", "exited"}
=============================================================================

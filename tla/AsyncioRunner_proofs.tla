------------------------ MODULE AsyncioRunner_proofs ------------------------
(***************************************************************************)
(* Proofs about AsyncioRunner: for any threads and runners, event loops    *)
(* never run side by side (OneLiveLoop), and no coroutine that reached the *)
(* loop in time is forgotten (NothingForgotten).                           *)
(*                                                                         *)
(* The callbacks of a loop matter only by what is among them, how often,   *)
(* and what comes before what.  The first lemmas say how the operations on *)
(* a queue change that; the second ones give the effect of each step in    *)
(* these terms; then each part of the invariant is preserved.              *)
(***************************************************************************)
EXTENDS AsyncioRunner, TLAPS

\* c is among the callbacks; at most once; before every d.
In(q, c) == \E i \in 1 .. Len(q) : q[i] = c
Once(q, c) == \A i, j \in 1 .. Len(q) : q[i] = c /\ q[j] = c => i = j
Ahead(q, c, d) == \A i \in 1 .. Len(q) : q[i] = d => \E j \in 1 .. i - 1 : q[j] = c

StartOf(t) == [kind |-> "start", of |-> t]
DoneOf(t) == [kind |-> "done", of |-> t]

\* What is in a queue, once and in which order, after call_soon() has added e.
LEMMA Appending ==
  ASSUME NEW q \in Seq(Callback), NEW e \in Callback, NEW c, NEW d
  PROVE  /\ Append(q, e) \in Seq(Callback)
         /\ In(Append(q, e), c) <=> In(q, c) \/ c = e
         /\ Once(q, c) /\ (c # e \/ ~In(q, c)) => Once(Append(q, e), c)
         /\ Ahead(q, c, d) /\ (d # e \/ In(q, c)) => Ahead(Append(q, e), c, d)
<1>1. /\ Append(q, e) \in Seq(Callback)
      /\ Len(Append(q, e)) = Len(q) + 1 /\ Append(q, e)[Len(q) + 1] = e
      /\ \A i \in 1 .. Len(q) : Append(q, e)[i] = q[i]
      /\ Len(q) \in Nat
  OBVIOUS
<1> DEFINE p == Append(q, e)
<1> HIDE DEF p
<1>2. In(p, c) <=> In(q, c) \/ c = e
  BY <1>1, SMT DEF In, p
<1>3. Once(q, c) /\ (c # e \/ ~In(q, c)) => Once(p, c)
  BY <1>1, SMT DEF In, Once, p
<1>4. Ahead(q, c, d) /\ (d # e \/ In(q, c)) => Ahead(p, c, d)
  BY <1>1, SMT DEF In, Ahead, p
<1> QED
  BY <1>1, <1>2, <1>3, <1>4 DEF p

\* The same after the loop has taken the first callback.
LEMMA Taking ==
  ASSUME NEW q \in Seq(Callback), q # <<>>, NEW c, NEW d
  PROVE  /\ Tail(q) \in Seq(Callback) /\ Head(q) \in Callback /\ In(q, Head(q))
         /\ In(Tail(q), c) => In(q, c)
         /\ In(q, c) /\ Head(q) # c => In(Tail(q), c)
         /\ Once(q, c) => Once(Tail(q), c)
         /\ Once(q, Head(q)) => ~In(Tail(q), Head(q))
         /\ Ahead(q, c, d) /\ Head(q) # c => Ahead(Tail(q), c, d)
         /\ ~Ahead(q, c, Head(q))
<1>1. /\ Len(q) \in Nat \ {0} /\ Head(q) = q[1] /\ Tail(q) \in Seq(Callback)
      /\ Head(q) \in Callback
      /\ Len(Tail(q)) = Len(q) - 1
      /\ \A i \in 1 .. Len(q) - 1 : Tail(q)[i] = q[i + 1]
  OBVIOUS
<1> DEFINE p == Tail(q)  h == Head(q)  n == Len(q)
<1> HIDE DEF p, h, n
<1>2. n \in Nat \ {0} /\ h = q[1] /\ Len(p) = n - 1 /\ \A i \in 1 .. n - 1 : p[i] = q[i + 1]
  BY <1>1 DEF p, h, n
<1>3. In(q, h)
  BY <1>2, SMT DEF In, n
<1>4. In(p, c) => In(q, c)
  BY <1>2, SMT DEF In, n
<1>5. In(q, c) /\ h # c => In(p, c)
  <2> SUFFICES ASSUME In(q, c), h # c PROVE In(p, c)
    OBVIOUS
  <2>1. PICK i \in 1 .. n : q[i] = c
    BY DEF In, n
  <2>2. i - 1 \in 1 .. n - 1 /\ p[i - 1] = q[(i - 1) + 1] /\ (i - 1) + 1 = i
    BY <1>2, <2>1, SMT
  <2> QED
    BY <1>2, <2>1, <2>2 DEF In
<1>6. Once(q, c) => Once(p, c)
  <2> SUFFICES ASSUME Once(q, c), NEW i \in 1 .. Len(p), NEW j \in 1 .. Len(p), p[i] = c, p[j] = c
               PROVE  i = j
    BY DEF Once
  <2>1. i + 1 \in 1 .. n /\ j + 1 \in 1 .. n /\ q[i + 1] = c /\ q[j + 1] = c
    BY <1>2, SMT
  <2> QED
    BY <1>2, <2>1, SMT DEF Once, n
<1>7. Once(q, h) => ~In(p, h)
  <2> SUFFICES ASSUME Once(q, h), NEW i \in 1 .. Len(p), p[i] = h PROVE FALSE
    BY DEF In
  <2>1. i + 1 \in 1 .. n /\ q[i + 1] = h /\ 1 \in 1 .. n /\ q[1] = h
    BY <1>2, SMT
  <2> QED
    BY <1>2, <2>1, SMT DEF Once, n
<1>8. Ahead(q, c, d) /\ h # c => Ahead(p, c, d)
  <2> SUFFICES ASSUME Ahead(q, c, d), h # c, NEW i \in 1 .. Len(p), p[i] = d
               PROVE  \E j \in 1 .. i - 1 : p[j] = c
    BY DEF Ahead
  <2>1. i + 1 \in 1 .. n /\ q[i + 1] = d
    BY <1>2, SMT
  <2>2. PICK j \in 1 .. (i + 1) - 1 : q[j] = c
    BY <2>1 DEF Ahead, n
  <2>3. j - 1 \in 1 .. i - 1 /\ j - 1 \in 1 .. n - 1 /\ (j - 1) + 1 = j
    BY <1>2, <2>1, <2>2, SMT
  <2>4. p[j - 1] = c
    BY <1>2, <2>2, <2>3
  <2> QED
    BY <2>3, <2>4
<1>9. ~Ahead(q, c, h)
  BY <1>2, SMT DEF Ahead, n
<1> QED
  BY <1>1, <1>3, <1>4, <1>5, <1>6, <1>7, <1>8, <1>9 DEF p, h

\* Everything is ahead of a callback that is not there.
LEMMA Absent ==
  ASSUME NEW q \in Seq(Callback), NEW c, NEW d, ~In(q, d)
  PROVE  Ahead(q, c, d)
  BY DEF In, Ahead

\* Nothing is in an empty queue.
LEMMA Emptied == ASSUME NEW c, NEW d PROVE ~In(<<>>, c) /\ Once(<<>>, c) /\ Ahead(<<>>, c, d)
  BY DEF In, Once, Ahead

\* The callbacks are distinct, and those of two coroutines differ.
LEMMA Kinds ==
  /\ StopCall \in Callback /\ LastCall \in Callback /\ StopCall # LastCall
  /\ \A t \in Threads : /\ StartOf(t) \in Callback /\ DoneOf(t) \in Callback
                        /\ StartOf(t) \notin {StopCall, LastCall}
                        /\ DoneOf(t) \notin {StopCall, LastCall}
  /\ \A t, u \in Threads : /\ StartOf(t) # DoneOf(u)
                           /\ (StartOf(t) = StartOf(u) <=> t = u)
                           /\ (DoneOf(t) = DoneOf(u) <=> t = u)
  BY DEF StopCall, LastCall, Callback, StartOf, DoneOf

\* The kind and the thread of a callback determine it.
LEMMA ByKind ==
  ASSUME NEW c \in Callback
  PROVE  /\ c.kind = "start" => c.of \in Threads /\ c = StartOf(c.of)
         /\ c.kind = "done" => c.of \in Threads /\ c = DoneOf(c.of)
         /\ c.kind = "stop" => c = StopCall
         /\ c.kind = "last" => c = LastCall
  BY DEF StopCall, LastCall, Callback, StartOf, DoneOf

----------------------------------------------------------------------------
(* The invariant.                                                           *)

\* A runner has been created before its thread starts, and is replaced only
\* after it has been closed.
Owners ==
  /\ \A r \in Runners : phase[r] # "none" => r \in created
  /\ \A r \in created : r = dispatch \/ closed[r]

\* A coroutine is on its way only while its caller waits, which began with a loop.
Places ==
  \A t \in Threads :
    /\ pc[t] # "result" => task[t] \in {"none", "returned", "cancelled", "exited"}
    /\ pc[t] = "result" => task[t] # "none"
    /\ pc[t] \in {"submit", "result"} => phase[on[t]] \notin {"none", "starting"}
    /\ task[t] = "cancelling" => phase[on[t]] # "running"

\* A callback is scheduled at most once, for a coroutine that waits for it.
Over == {"ended", "dropped", "exiting"}
Slot(r, t) ==
  /\ Once(queue[r], StartOf(t)) /\ Once(queue[r], DoneOf(t))
  /\ In(queue[r], StartOf(t)) => pc[t] = "result" /\ on[t] = r /\ task[t] = "submitted"
  /\ In(queue[r], DoneOf(t)) => pc[t] = "result" /\ on[t] = r /\ task[t] \in Over
Scheduled == \A r \in Runners, t \in Threads : Slot(r, t)

\* And a coroutine that waits for a callback has one, while there is a loop.
Attended(t) ==
  pc[t] = "result" /\ ~LoopClosed(on[t]) =>
    /\ task[t] = "submitted" => In(queue[on[t]], StartOf(t))
    /\ task[t] \in Over => In(queue[on[t]], DoneOf(t))
Awaited == \A t \in Threads : Attended(t)

\* Nothing but a shutdown stops a loop that has not failed.
Stages == {"ending", "cancelling", "crashed", "closing", "drained", "closed", "done"}
Closings ==
  /\ \A r \in Runners :
       /\ In(queue[r], StopCall) => closing[r]
       /\ phase[r] \in Stages => closing[r] \/ failed[r]
       /\ phase[r] = "left" => failed[r]
       /\ phase[r] \notin {"closing", "drained"} => ~In(queue[r], LastCall)
  /\ \A t \in Threads : pc[t] = "stop" => closing[on[t]]

\* How far a coroutine is that reached the loop before it was told to stop, at
\* each stage of the loop's end: the stages wait for it.
InTime(t) == pc[t] = "result" /\ ~late[t] /\ ~failed[on[t]]
Paced(t) ==
  InTime(t) =>
    /\ phase[on[t]] = "running" /\ task[t] = "submitted" => Ahead(queue[on[t]], StartOf(t), StopCall)
    /\ phase[on[t]] # "running" => task[t] # "submitted"
    /\ phase[on[t]] \in Stages \ {"ending"} => task[t] # "running"
    /\ phase[on[t]] \in {"closing", "drained", "closed", "done"} => task[t] # "cancelling"
    /\ phase[on[t]] # "crashed" => task[t] \notin {"exiting", "exited"}
    /\ phase[on[t]] = "closing" /\ task[t] \in Over => Ahead(queue[on[t]], DoneOf(t), LastCall)
    /\ phase[on[t]] \in {"drained", "closed", "done"} => task[t] \in {"returned", "cancelled"}
InOrder == \A t \in Threads : Paced(t)

\* The coroutine that has asked for the shutdown is the only one that stops the
\* loop, and does so after its end.
Asker(t) ==
  /\ on[t] \in created /\ closing[on[t]] /\ phase[on[t]] \notin {"none", "starting"}
  /\ pc[t] \in {"idle", "result"}
  /\ \A u \in Threads : pc[u] = "stop" => on[u] # on[t]
  /\ \A u \in Threads : asked[u] /\ on[u] = on[t] => u = t
  /\ ~failed[on[t]] /\ phase[on[t]] = "running" =>
       /\ task[t] \in {"running", "ended", "returned"}
       /\ task[t] = "running" => ~In(queue[on[t]], StopCall)
       /\ task[t] = "ended" => Ahead(queue[on[t]], DoneOf(t), StopCall)
  /\ ~failed[on[t]] /\ phase[on[t]] # "running" => task[t] = "returned"
Answered(t) == asked[t] => Asker(t)
Askers == \A t \in Threads : Answered(t)

RInv ==
  RTypeOK /\ Owners /\ Places /\ Scheduled /\ Awaited /\ Closings /\ InOrder /\ Askers

----------------------------------------------------------------------------
(* What a step does to the callbacks of the loops. *)

\* Appending, for one loop among all.
LEMMA Scheduling ==
  ASSUME queue \in [Runners -> Seq(Callback)], NEW r \in Runners, NEW e \in Callback,
         queue' = [queue EXCEPT ![r] = Append(@, e)]
  PROVE  /\ queue' \in [Runners -> Seq(Callback)]
         /\ \A s \in Runners : \A c :
              /\ In(queue'[s], c) <=> In(queue[s], c) \/ (s = r /\ c = e)
              /\ Once(queue[s], c) /\ (s # r \/ c # e \/ ~In(queue[s], c)) => Once(queue'[s], c)
         /\ \A s \in Runners : \A c, d :
              /\ Ahead(queue[s], c, d) /\ (s # r \/ d # e \/ In(queue[s], c)) => Ahead(queue'[s], c, d)
              /\ ~In(queue'[s], d) => Ahead(queue'[s], c, d)
<1>1. /\ queue' \in [Runners -> Seq(Callback)]
      /\ queue'[r] = Append(queue[r], e)
      /\ \A s \in Runners : s # r => queue'[s] = queue[s]
      /\ \A s \in Runners : queue[s] \in Seq(Callback) /\ queue'[s] \in Seq(Callback)
  OBVIOUS
<1>2. ASSUME NEW s \in Runners, NEW c, NEW d
      PROVE  /\ In(queue'[s], c) <=> In(queue[s], c) \/ (s = r /\ c = e)
             /\ Once(queue[s], c) /\ (s # r \/ c # e \/ ~In(queue[s], c)) => Once(queue'[s], c)
             /\ Ahead(queue[s], c, d) /\ (s # r \/ d # e \/ In(queue[s], c)) => Ahead(queue'[s], c, d)
             /\ ~In(queue'[s], d) => Ahead(queue'[s], c, d)
  <2>1. CASE s = r
    BY <1>1, <2>1, Appending, Absent
  <2>2. CASE s # r
    BY <1>1, <2>2, Absent
  <2> QED
    BY <2>1, <2>2
<1> QED
  BY <1>1, <1>2

\* The same for the one or two callbacks a coroutine leaves at its end.
LEMMA Ending ==
  ASSUME queue \in [Runners -> Seq(Callback)], NEW t \in Threads, on[t] \in Runners, EndCallbacks(t)
  PROVE  /\ queue' \in [Runners -> Seq(Callback)]
         /\ \A s \in Runners : \A c :
              /\ In(queue'[s], c) <=>
                   In(queue[s], c) \/ (s = on[t] /\ (c = DoneOf(t) \/ (asked[t] /\ c = StopCall)))
              /\ Once(queue[s], c) /\ c # StopCall /\ (s # on[t] \/ c # DoneOf(t) \/ ~In(queue[s], c))
                   => Once(queue'[s], c)
         /\ \A s \in Runners : \A c, d :
              /\ Ahead(queue[s], c, d) /\ d # DoneOf(t)
                 /\ (s # on[t] \/ d # StopCall \/ ~asked[t] \/ In(queue[s], c) \/ c = DoneOf(t))
                   => Ahead(queue'[s], c, d)
              /\ ~In(queue'[s], d) => Ahead(queue'[s], c, d)
<1> DEFINE r == on[t]
           one == Append(queue[r], DoneOf(t))
           both == Append(one, StopCall)
<1>1. queue[r] \in Seq(Callback) /\ DoneOf(t) \in Callback /\ StopCall \in Callback
  BY Kinds
<1>2. queue[r] \o <<DoneOf(t)>> \o <<StopCall>> = both /\ queue[r] \o <<DoneOf(t)>> \o << >> = one
      /\ one \in Seq(Callback) /\ both \in Seq(Callback)
  BY <1>1
<1>3. /\ queue' = [queue EXCEPT ![r] = IF asked[t] THEN both ELSE one]
      /\ queue'[r] = IF asked[t] THEN both ELSE one
      /\ \A s \in Runners : s # r => queue'[s] = queue[s]
      /\ queue' \in [Runners -> Seq(Callback)]
      /\ \A s \in Runners : queue[s] \in Seq(Callback) /\ queue'[s] \in Seq(Callback)
  <2>1. EndCallbacks(t) =>
          queue' = [queue EXCEPT ![r] = IF asked[t] THEN queue[r] \o <<DoneOf(t)>> \o <<StopCall>>
                                         ELSE queue[r] \o <<DoneOf(t)>> \o << >>]
    BY DEF EndCallbacks, DoneOf
  <2> HIDE DEF one, both
  <2>2. queue' = [queue EXCEPT ![r] = IF asked[t] THEN both ELSE one]
    BY <1>2, <2>1
  <2> QED
    BY <1>2, <2>2
<1> HIDE DEF r, one, both
<1>4. ASSUME NEW c, NEW d
      PROVE  /\ In(one, c) <=> In(queue[r], c) \/ c = DoneOf(t)
             /\ Once(queue[r], c) /\ (c # DoneOf(t) \/ ~In(queue[r], c)) => Once(one, c)
             /\ Ahead(queue[r], c, d) /\ d # DoneOf(t) => Ahead(one, c, d)
  BY <1>1, Appending DEF one
<1>5. ASSUME NEW c, NEW d
      PROVE  /\ In(both, c) <=> In(one, c) \/ c = StopCall
             /\ Once(one, c) /\ (c # StopCall \/ ~In(one, c)) => Once(both, c)
             /\ Ahead(one, c, d) /\ (d # StopCall \/ In(one, c)) => Ahead(both, c, d)
  BY <1>1, <1>2, Appending DEF both
<1>6. ASSUME NEW s \in Runners, NEW c, NEW d
      PROVE  /\ In(queue'[s], c) <=>
                  In(queue[s], c) \/ (s = r /\ (c = DoneOf(t) \/ (asked[t] /\ c = StopCall)))
             /\ Once(queue[s], c) /\ c # StopCall /\ (s # r \/ c # DoneOf(t) \/ ~In(queue[s], c))
                  => Once(queue'[s], c)
             /\ Ahead(queue[s], c, d) /\ d # DoneOf(t)
                /\ (s # r \/ d # StopCall \/ ~asked[t] \/ In(queue[s], c) \/ c = DoneOf(t))
                  => Ahead(queue'[s], c, d)
             /\ ~In(queue'[s], d) => Ahead(queue'[s], c, d)
  <2>1. CASE s = r /\ asked[t]
    BY <1>3, <1>4, <1>5, <2>1, Absent
  <2>2. CASE s = r /\ ~asked[t]
    BY <1>3, <1>4, <2>2, Absent
  <2>3. CASE s # r
    BY <1>3, <2>3, Absent
  <2> QED
    BY <2>1, <2>2, <2>3
<1> QED
  BY <1>3, <1>6 DEF r

\* Taking, for one loop among all.
LEMMA TurnTaken ==
  ASSUME queue \in [Runners -> Seq(Callback)], NEW r \in Runners, NEW kind, Runs(r, kind)
  PROVE  /\ queue' \in [Runners -> Seq(Callback)]
         /\ Head(queue[r]) \in Callback /\ Head(queue[r]).kind = kind
         /\ In(queue[r], Head(queue[r]))
         /\ Once(queue[r], Head(queue[r])) => ~In(queue'[r], Head(queue[r]))
         /\ \A c : ~Ahead(queue[r], c, Head(queue[r]))
         /\ \A s \in Runners : \A c :
              /\ In(queue'[s], c) => In(queue[s], c)
              /\ In(queue[s], c) /\ (s # r \/ c # Head(queue[r])) => In(queue'[s], c)
              /\ Once(queue[s], c) => Once(queue'[s], c)
         /\ \A s \in Runners : \A c, d :
              Ahead(queue[s], c, d) /\ (s # r \/ c # Head(queue[r])) => Ahead(queue'[s], c, d)
<1>1. /\ queue[r] # <<>> /\ Head(queue[r]).kind = kind /\ queue[r] \in Seq(Callback)
      /\ queue' = [queue EXCEPT ![r] = Tail(queue[r])]
  BY DEF Runs
<1>2. Tail(queue[r]) \in Seq(Callback) /\ Head(queue[r]) \in Callback
  BY <1>1, Taking
<1>3. /\ queue' \in [Runners -> Seq(Callback)]
      /\ queue'[r] = Tail(queue[r])
      /\ \A s \in Runners : s # r => queue'[s] = queue[s]
  BY <1>1, <1>2
<1>4. ASSUME NEW s \in Runners, NEW c, NEW d
      PROVE  /\ In(queue'[s], c) => In(queue[s], c)
             /\ In(queue[s], c) /\ (s # r \/ c # Head(queue[r])) => In(queue'[s], c)
             /\ Once(queue[s], c) => Once(queue'[s], c)
             /\ Ahead(queue[s], c, d) /\ (s # r \/ c # Head(queue[r])) => Ahead(queue'[s], c, d)
  <2>1. CASE s = r
    BY <1>1, <1>3, <2>1, Taking
  <2>2. CASE s # r
    BY <1>3, <2>2
  <2> QED
    BY <2>1, <2>2
<1>5. In(queue[r], Head(queue[r])) /\ (Once(queue[r], Head(queue[r])) => ~In(queue'[r], Head(queue[r])))
  BY <1>1, <1>3, Taking
<1>6. \A c : ~Ahead(queue[r], c, Head(queue[r]))
  BY <1>1, Taking
<1> QED
  BY <1>1, <1>2, <1>3, <1>4, <1>5, <1>6

Adds(r, e) ==
  /\ queue' \in [Runners -> Seq(Callback)]
  /\ \A s \in Runners : \A c :
       /\ In(queue'[s], c) <=> In(queue[s], c) \/ (s = r /\ c = e)
       /\ Once(queue[s], c) /\ (s # r \/ c # e \/ ~In(queue[s], c)) => Once(queue'[s], c)
  /\ \A s \in Runners : \A c, d :
       /\ Ahead(queue[s], c, d) /\ (s # r \/ d # e \/ In(queue[s], c)) => Ahead(queue'[s], c, d)
       /\ ~In(queue'[s], d) => Ahead(queue'[s], c, d)

AddsEnd(t) ==
  /\ queue' \in [Runners -> Seq(Callback)]
  /\ \A s \in Runners : \A c :
       /\ In(queue'[s], c) <=>
            In(queue[s], c) \/ (s = on[t] /\ (c = DoneOf(t) \/ (asked[t] /\ c = StopCall)))
       /\ Once(queue[s], c) /\ c # StopCall /\ (s # on[t] \/ c # DoneOf(t) \/ ~In(queue[s], c))
            => Once(queue'[s], c)
  /\ \A s \in Runners : \A c, d :
       /\ Ahead(queue[s], c, d) /\ d # DoneOf(t)
          /\ (s # on[t] \/ d # StopCall \/ ~asked[t] \/ In(queue[s], c) \/ c = DoneOf(t))
            => Ahead(queue'[s], c, d)
       /\ ~In(queue[s], d) /\ c = DoneOf(t) /\ d # c => Ahead(queue'[s], c, d)

Takes(r, h) ==
  /\ queue' \in [Runners -> Seq(Callback)]
  /\ In(queue[r], h) /\ (Once(queue[r], h) => ~In(queue'[r], h))
  /\ \A c : ~Ahead(queue[r], c, h)
  /\ \A s \in Runners : \A c :
       /\ In(queue'[s], c) => In(queue[s], c)
       /\ In(queue[s], c) /\ (s # r \/ c # h) => In(queue'[s], c)
       /\ Once(queue[s], c) => Once(queue'[s], c)
  /\ \A s \in Runners : \A c, d :
       Ahead(queue[s], c, d) /\ (s # r \/ c # h) => Ahead(queue'[s], c, d)

\* start() returns, raises or waits for the thread, which it may have started.
StartEffect(t) ==
  /\ pc[t] = "start" /\ on[t] \in created
  /\ UNCHANGED <<runnerVars, queue, on, task, asked, late>>
  /\ \/ pc' = [pc EXCEPT ![t] = "idle"] /\ UNCHANGED phase
     \/ loop[on[t]] /\ pc' = [pc EXCEPT ![t] = "submit"] /\ UNCHANGED phase
     \/ pc' = [pc EXCEPT ![t] = "ready"] /\ UNCHANGED phase
     \/ /\ pc' = [pc EXCEPT ![t] = "ready"]
        /\ phase[on[t]] = "none" /\ phase' = [phase EXCEPT ![on[t]] = "starting"]

\* Start() has this effect.
LEMMA StartView ==
  ASSUME RTypeOK, NEW t \in Threads, Start(t)
  PROVE  StartEffect(t)
<1> USE DEF StartEffect
<1>1. closing[on[t]] \in BOOLEAN /\ closed[on[t]] \in BOOLEAN /\ loop[on[t]] \in BOOLEAN
      /\ on[t] \in Runners
  BY DEF RTypeOK, Start
<1>2. CASE closing[on[t]] \/ closed[on[t]]
  BY <1>2 DEF Start, RTypeOK, Returns, Goes
<1>3. CASE ~(closing[on[t]] \/ closed[on[t]]) /\ loop[on[t]]
  BY <1>3 DEF Start, RTypeOK, Returns, Goes
<1>4. CASE ~(closing[on[t]] \/ closed[on[t]]) /\ ~loop[on[t]]
  <2>1. /\ pc' = [pc EXCEPT ![t] = "ready"]
        /\ phase' = [phase EXCEPT ![on[t]] = IF phase[on[t]] = "none" THEN "starting" ELSE phase[on[t]]]
        /\ pc[t] = "start" /\ on[t] \in created
        /\ UNCHANGED <<runnerVars, queue, on, task, asked, late>>
    BY <1>4 DEF Start, Goes, RTypeOK
  <2>2. CASE phase[on[t]] = "none"
    <3>1. phase' = [phase EXCEPT ![on[t]] = "starting"]
      BY <2>1, <2>2, Zenon
    <3> QED
      BY <2>1, <2>2, <3>1
  <2>3. CASE phase[on[t]] # "none"
    <3>1. phase' = [phase EXCEPT ![on[t]] = phase[on[t]]]
      BY <2>1, <2>3, Zenon
    <3>2. phase' = phase
      BY <1>1, <3>1 DEF RTypeOK
    <3> QED
      BY <2>1, <3>2
  <2> QED
    BY <2>2, <2>3
<1> QED
  BY <1>1, <1>2, <1>3, <1>4

\* The coroutine is handed over, in time or late.
SubmitEffect(t) ==
  /\ pc[t] = "submit" /\ on[t] \in created
  /\ UNCHANGED <<runnerVars, phase, on, asked>>
  /\ \/ /\ pc' = [pc EXCEPT ![t] = "idle"]
        /\ UNCHANGED <<queue, task, late>>
     \/ /\ ~LoopClosed(on[t])
        /\ pc' = [pc EXCEPT ![t] = "result"]
        /\ task' = [task EXCEPT ![t] = "submitted"]
        /\ late' \in [Threads -> BOOLEAN]
        /\ late' = [late EXCEPT ![t] = late'[t]]
        /\ ~late'[t] => phase[on[t]] = "running" /\ ~In(queue[on[t]], StopCall)
        /\ Adds(on[t], StartOf(t))

\* Submit() has this effect.
LEMMA SubmitView ==
  ASSUME RTypeOK, NEW t \in Threads, Submit(t)
  PROVE  SubmitEffect(t)
<1> USE DEF SubmitEffect
<1>1. on[t] \in Runners /\ on[t] \in created /\ pc[t] = "submit"
      /\ UNCHANGED <<runnerVars, phase, on, asked>>
  BY DEF RTypeOK, Submit
<1>2. CASE LoopClosed(on[t])
  BY <1>1, <1>2 DEF Submit, Returns, Goes
<1>3. CASE ~LoopClosed(on[t])
  <2>1. /\ pc' = [pc EXCEPT ![t] = "result"]
        /\ task' = [task EXCEPT ![t] = "submitted"]
        /\ queue' = [queue EXCEPT ![on[t]] = Append(@, StartOf(t))]
        /\ late' = [late EXCEPT ![t] = phase[on[t]] # "running" \/ Contains(queue[on[t]], StopCall)]
    BY <1>3 DEF Submit, Goes, Calls, StartOf
  <2>2. Adds(on[t], StartOf(t))
    BY <1>1, <2>1, Scheduling, Kinds DEF RTypeOK, Adds
  <2>3. Contains(queue[on[t]], StopCall) <=> In(queue[on[t]], StopCall)
    BY DEF Contains, In
  <2>4. late \in [Threads -> BOOLEAN]
    BY DEF RTypeOK
  <2>5. late'[t] = (phase[on[t]] # "running" \/ Contains(queue[on[t]], StopCall))
    BY <2>1, <2>4
  <2>6. late' = [late EXCEPT ![t] = late'[t]] /\ late' \in [Threads -> BOOLEAN]
    BY <2>1, <2>4, <2>5
  <2> QED
    BY <1>1, <1>3, <2>1, <2>2, <2>3, <2>5, <2>6
<1> QED
  BY <1>2, <1>3

\* A thread schedules the stop of the loop.
CallStopEffect(t) ==
  /\ pc[t] = "stop" /\ on[t] \in created
  /\ UNCHANGED <<runnerVars, phase, on, task, asked, late>>
  /\ \/ pc' = [pc EXCEPT ![t] = "idle"] /\ UNCHANGED queue
     \/ ~LoopClosed(on[t]) /\ pc' = [pc EXCEPT ![t] = "waiting"] /\ Adds(on[t], StopCall)

\* CallStop() has this effect.
LEMMA CallStopView ==
  ASSUME RTypeOK, NEW t \in Threads, CallStop(t)
  PROVE  CallStopEffect(t)
<1> USE DEF CallStopEffect
<1>1. on[t] \in Runners /\ on[t] \in created /\ pc[t] = "stop"
  BY DEF RTypeOK, CallStop
<1>2. queue' = [queue EXCEPT ![on[t]] = Append(@, StopCall)] => Adds(on[t], StopCall)
  BY <1>1, Scheduling, Kinds DEF RTypeOK, Adds
<1> QED
  BY <1>1, <1>2 DEF CallStop, Returns, Goes, Calls

\* Ending, in the form the effects use.
LEMMA EndsView ==
  ASSUME RTypeOK, NEW t \in Threads, on[t] \in Runners, EndCallbacks(t)
  PROVE  AddsEnd(t)
<1>1. ASSUME NEW s \in Runners, NEW c, NEW d, ~In(queue[s], d), c = DoneOf(t), d # c
      PROVE  Ahead(queue'[s], c, d)
  <2>1. Ahead(queue[s], c, d)
    BY <1>1, Absent DEF RTypeOK
  <2> QED
    BY <1>1, <2>1, Ending DEF RTypeOK
<1> QED
  BY <1>1, Ending DEF RTypeOK, AddsEnd

\* A coroutine ends.
TaskEndsEffect(t) ==
  /\ on[t] \in created /\ on[t] \in Runners /\ pc[t] = "result"
  /\ task[t] \in {"running", "cancelling"} /\ phase[on[t]] \in Running
  /\ UNCHANGED <<runnerVars, phase, callVars, asked>>
  /\ \/ task' = [task EXCEPT ![t] = "ended"]
     \/ task[t] = "cancelling" /\ task' = [task EXCEPT ![t] = "dropped"]
  /\ AddsEnd(t)

\* TaskEnds() has this effect.
LEMMA TaskEndsView ==
  ASSUME RTypeOK, Places, NEW t \in Threads, TaskEnds(t)
  PROVE  TaskEndsEffect(t)
<1> USE DEF TaskEndsEffect
<1>1. task[t] \in {"running", "cancelling"} /\ phase[on[t]] \in Running
      /\ UNCHANGED <<runnerVars, phase, callVars, asked>> /\ EndCallbacks(t)
  BY DEF TaskEnds, AtWork
<1>2. pc[t] = "result" /\ on[t] \in created /\ on[t] \in Runners
  BY <1>1 DEF Places, RTypeOK
<1>3. \/ task' = [task EXCEPT ![t] = "ended"]
      \/ task[t] = "cancelling" /\ task' = [task EXCEPT ![t] = "dropped"]
  <2>1. PICK how \in {"ended"} \union (IF task[t] = "cancelling" THEN {"dropped"} ELSE {}) :
          task' = [task EXCEPT ![t] = how]
    BY DEF TaskEnds
  <2> QED
    BY <2>1
<1> QED
  BY <1>1, <1>2, <1>3, EndsView

\* SystemExit leaves a coroutine, and the loop where it runs one.
TaskExitsEffect(t) ==
  /\ on[t] \in created /\ on[t] \in Runners /\ pc[t] = "result"
  /\ task[t] \in {"running", "cancelling"} /\ phase[on[t]] \in Running
  /\ UNCHANGED <<dispatch, created, loop, stopped, closing, closed, callVars, asked>>
  /\ task' = [task EXCEPT ![t] = "exiting"]
  /\ ready' \in [Runners -> BOOLEAN]
  /\ \/ /\ phase[on[t]] \in {"running", "ending"}
        /\ phase' = [phase EXCEPT ![on[t]] = "left"]
        /\ failed' = [failed EXCEPT ![on[t]] = TRUE]
     \/ /\ phase[on[t]] = "cancelling" /\ phase' = [phase EXCEPT ![on[t]] = "crashed"]
        /\ UNCHANGED failed
     \/ phase[on[t]] \in {"closing", "drained"} /\ UNCHANGED <<phase, failed>>
  /\ AddsEnd(t)

\* TaskExits() has this effect.
LEMMA TaskExitsView ==
  ASSUME RTypeOK, Places, NEW t \in Threads, TaskExits(t)
  PROVE  TaskExitsEffect(t)
<1> USE DEF TaskExitsEffect
<1>1. /\ task[t] \in {"running", "cancelling"} /\ phase[on[t]] \in Running
      /\ UNCHANGED <<dispatch, created, loop, stopped, closing, closed, callVars, asked>>
      /\ EndCallbacks(t) /\ task' = [task EXCEPT ![t] = "exiting"]
  BY DEF TaskExits, AtWork
<1>2. pc[t] = "result" /\ on[t] \in created /\ on[t] \in Runners
  BY <1>1 DEF Places, RTypeOK
<1>3. AddsEnd(t)
  BY <1>1, <1>2, EndsView
<1>4. ready' \in [Runners -> BOOLEAN]
  BY <1>2, SMT DEF TaskExits, RTypeOK
<1>5. /\ failed \in [Runners -> BOOLEAN]
      /\ phase \in [Runners -> Running \union {"none", "starting", "left", "crashed", "closed", "done"}]
  BY DEF RTypeOK
<1>6. CASE phase[on[t]] \in {"running", "ending"}
  <2> DEFINE next == CASE phase[on[t]] \in {"running", "ending"} -> "left"
                       [] phase[on[t]] = "cancelling" -> "crashed"
                       [] OTHER -> phase[on[t]]
  <2>1. phase' = [phase EXCEPT ![on[t]] = "left"]
    <3>1. phase' = [phase EXCEPT ![on[t]] = next]
      BY DEF TaskExits
    <3>2. next = "left"
      BY <1>6
    <3> QED
      BY <3>1, <3>2
  <2>2. failed' = [failed EXCEPT ![on[t]] = failed[on[t]] \/ TRUE]
    BY <1>6, Zenon DEF TaskExits
  <2>3. failed' = [failed EXCEPT ![on[t]] = TRUE]
    BY <2>2, Zenon
  <2> QED
    BY <1>1, <1>2, <1>3, <1>4, <1>6, <2>1, <2>3
<1>7. CASE phase[on[t]] = "cancelling"
  <2>1. phase' = [phase EXCEPT ![on[t]] = "crashed"] /\ failed' = failed
    BY <1>2, <1>5, <1>7, SMT DEF TaskExits
  <2> QED
    BY <1>1, <1>2, <1>3, <1>4, <1>7, <2>1
<1>8. CASE phase[on[t]] \in {"closing", "drained"}
  <2>1. phase' = phase /\ failed' = failed
    BY <1>2, <1>5, <1>8, SMT DEF TaskExits
  <2> QED
    BY <1>1, <1>2, <1>3, <1>4, <1>8, <2>1
<1> QED
  BY <1>1, <1>6, <1>7, <1>8 DEF Running

\* TurnTaken, in the form the effects use.
LEMMA TakesView ==
  ASSUME RTypeOK, NEW r \in Runners, NEW kind, Runs(r, kind)
  PROVE  Takes(r, Head(queue[r])) /\ Head(queue[r]) \in Callback /\ Head(queue[r]).kind = kind
         /\ phase[r] \in Running
<1> DEFINE h == Head(queue[r])
<1>1. queue \in [Runners -> Seq(Callback)]
  BY DEF RTypeOK
<1>2. /\ queue' \in [Runners -> Seq(Callback)]
      /\ h \in Callback /\ h.kind = kind
      /\ In(queue[r], h) /\ (Once(queue[r], h) => ~In(queue'[r], h))
      /\ \A c : ~Ahead(queue[r], c, h)
      /\ \A s \in Runners : \A c :
           /\ In(queue'[s], c) => In(queue[s], c)
           /\ In(queue[s], c) /\ (s # r \/ c # h) => In(queue'[s], c)
           /\ Once(queue[s], c) => Once(queue'[s], c)
      /\ \A s \in Runners : \A c, d :
           Ahead(queue[s], c, d) /\ (s # r \/ c # h) => Ahead(queue'[s], c, d)
  BY <1>1, TurnTaken
<1>3. phase[r] \in Running
  BY DEF Runs
<1> HIDE DEF h
<1>4. Takes(r, h)
  BY <1>2, Zenon DEF Takes
<1> QED
  BY <1>2, <1>3, <1>4 DEF h

\* The first callback is the start of the coroutine of u.
StartTaskEffect(r, u) ==
  /\ on[u] = r /\ pc[u] = "result" /\ task[u] = "submitted" /\ phase[r] \in Running
  /\ task' = [task EXCEPT ![u] = "running"]
  /\ UNCHANGED <<runnerVars, phase, callVars, asked>>
  /\ Takes(r, StartOf(u))

\* StartTask() has this effect.
LEMMA StartTaskView ==
  ASSUME RTypeOK, Scheduled, NEW r \in Runners, StartTask(r)
  PROVE  \E u \in Threads : StartTaskEffect(r, u)
<1> USE DEF StartTaskEffect
<1> DEFINE h == Head(queue[r])
<1>1. Runs(r, "start") /\ UNCHANGED <<runnerVars, phase, callVars, asked>>
      /\ task' = [task EXCEPT ![h.of] = "running"]
  BY DEF StartTask
<1>2. Takes(r, h) /\ h \in Callback /\ h.kind = "start" /\ phase[r] \in Running
  BY <1>1, TakesView
<1> HIDE DEF h
<1>3. h.of \in Threads /\ h = StartOf(h.of)
  BY <1>2, ByKind
<1>4. In(queue[r], StartOf(h.of))
  BY <1>2, <1>3 DEF Takes
<1>5. on[h.of] = r /\ pc[h.of] = "result" /\ task[h.of] = "submitted"
  BY <1>3, <1>4 DEF Scheduled, Slot
<1>6. Takes(r, StartOf(h.of))
  BY <1>2, <1>3
<1> QED
  BY <1>1, <1>2, <1>3, <1>5, <1>6

\* The first callback completes the future of u.
CompleteFutureEffect(r, u) ==
  /\ on[u] = r /\ pc[u] = "result" /\ phase[r] \in Running
  /\ \/ task[u] = "ended" /\ task' = [task EXCEPT ![u] = "returned"]
     \/ task[u] = "dropped" /\ task' = [task EXCEPT ![u] = "cancelled"]
     \/ task[u] = "exiting" /\ task' = [task EXCEPT ![u] = "exited"]
  /\ UNCHANGED <<runnerVars, phase, callVars, asked>>
  /\ Takes(r, DoneOf(u))

\* CompleteFuture() has this effect.
LEMMA CompleteFutureView ==
  ASSUME RTypeOK, Scheduled, NEW r \in Runners, CompleteFuture(r)
  PROVE  \E u \in Threads : CompleteFutureEffect(r, u)
<1> USE DEF CompleteFutureEffect
<1> DEFINE h == Head(queue[r])
<1>1. Runs(r, "done") /\ UNCHANGED <<runnerVars, phase, callVars, asked>>
      /\ task' = [task EXCEPT ![h.of] = Outcome(task[h.of])]
  BY DEF CompleteFuture
<1>2. Takes(r, h) /\ h \in Callback /\ h.kind = "done" /\ phase[r] \in Running
  BY <1>1, TakesView
<1> HIDE DEF h
<1>3. h.of \in Threads /\ h = DoneOf(h.of)
  BY <1>2, ByKind
<1>4. In(queue[r], DoneOf(h.of))
  BY <1>2, <1>3 DEF Takes
<1>5. on[h.of] = r /\ pc[h.of] = "result" /\ task[h.of] \in Over
  BY <1>3, <1>4 DEF Scheduled, Slot
<1>6. Takes(r, DoneOf(h.of))
  BY <1>2, <1>3
<1>7. Outcome("ended") = "returned" /\ Outcome("dropped") = "cancelled" /\ Outcome("exiting") = "exited"
  BY DEF Outcome
<1>8. \/ task[h.of] = "ended" /\ task' = [task EXCEPT ![h.of] = "returned"]
      \/ task[h.of] = "dropped" /\ task' = [task EXCEPT ![h.of] = "cancelled"]
      \/ task[h.of] = "exiting" /\ task' = [task EXCEPT ![h.of] = "exited"]
  BY <1>1, <1>5, <1>7 DEF Over
<1> QED
  BY <1>1, <1>2, <1>3, <1>5, <1>6, <1>8

\* The first callback stops the loop.
StopLoopEffect(r) ==
  /\ UNCHANGED <<runnerVars, callVars, task, asked>>
  /\ Takes(r, StopCall)
  /\ \/ phase[r] = "running" /\ phase' = [phase EXCEPT ![r] = "ending"]
     \/ phase[r] = "cancelling" /\ phase' = [phase EXCEPT ![r] = "crashed"]
     \/ phase[r] \in Running \ {"running"} /\ UNCHANGED phase

\* StopLoop() has this effect.
LEMMA StopLoopView ==
  ASSUME RTypeOK, NEW r \in Runners, StopLoop(r)
  PROVE  StopLoopEffect(r)
<1> USE DEF StopLoopEffect
<1>1. Runs(r, "stop") /\ UNCHANGED <<runnerVars, callVars, task, asked>>
  BY DEF StopLoop
<1>2. Takes(r, StopCall) /\ phase[r] \in Running
  BY <1>1, TakesView, ByKind
<1>3. phase \in [Runners -> Running \union {"none", "starting", "left", "crashed", "closed", "done"}]
  BY DEF RTypeOK
<1>4. CASE phase[r] = "running"
  BY <1>1, <1>2, <1>3, <1>4 DEF StopLoop
<1>5. CASE phase[r] = "cancelling" /\ Unfinished(r) # {}
  BY <1>1, <1>2, <1>3, <1>5 DEF StopLoop
<1>6. CASE phase[r] # "running" /\ ~(phase[r] = "cancelling" /\ Unfinished(r) # {})
  <2>1. phase' = phase
    BY <1>3, <1>6 DEF StopLoop
  <2> QED
    BY <1>1, <1>2, <1>6, <2>1
<1> QED
  BY <1>4, <1>5, <1>6

\* The loop runs its last iteration.
LastIterationEffect(r) ==
  /\ UNCHANGED <<runnerVars, callVars, task, asked>>
  /\ phase[r] \in Running /\ phase' = [phase EXCEPT ![r] = "drained"]
  /\ Takes(r, LastCall)

\* LastIteration() has this effect.
LEMMA LastIterationView ==
  ASSUME RTypeOK, NEW r \in Runners, LastIteration(r)
  PROVE  LastIterationEffect(r)
<1> USE DEF LastIterationEffect
<1>1. Runs(r, "last") /\ UNCHANGED <<runnerVars, callVars, task, asked>>
      /\ phase' = [phase EXCEPT ![r] = "drained"]
  BY DEF LastIteration
<1> QED
  BY <1>1, TakesView, ByKind

\* The cancelled tasks have ended; the loop is to run once more.
TasksCancelledEffect(r) ==
  /\ UNCHANGED <<runnerVars, callVars, task, asked>>
  /\ phase[r] = "cancelling" /\ phase' = [phase EXCEPT ![r] = "closing"]
  /\ \A t \in Threads : on[t] = r => task[t] # "cancelling"
  /\ Adds(r, LastCall)

\* TasksCancelled() has this effect.
LEMMA TasksCancelledView ==
  ASSUME RTypeOK, NEW r \in Runners, TasksCancelled(r)
  PROVE  TasksCancelledEffect(r)
<1> USE DEF TasksCancelledEffect
<1>1. queue' = [queue EXCEPT ![r] = Append(@, LastCall)] => Adds(r, LastCall)
  BY Scheduling, Kinds DEF RTypeOK, Adds
<1> QED
  BY <1>1 DEF TasksCancelled, Calls, Unfinished

\* The callbacks that are left are dropped.
CloseLoopEffect(r) ==
  /\ UNCHANGED <<runnerVars, callVars, task, asked>>
  /\ phase[r] = "drained" /\ phase' = [phase EXCEPT ![r] = "closed"]
  /\ queue' \in [Runners -> Seq(Callback)]
  /\ \A s \in Runners : s # r => queue'[s] = queue[s]
  /\ \A c, d : ~In(queue'[r], c) /\ Once(queue'[r], c) /\ Ahead(queue'[r], c, d)

\* CloseLoop() has this effect.
LEMMA CloseLoopView ==
  ASSUME RTypeOK, NEW r \in Runners, CloseLoop(r)
  PROVE  CloseLoopEffect(r)
<1> USE DEF CloseLoopEffect
<1>1. queue' = [queue EXCEPT ![r] = <<>>] /\ queue \in [Runners -> Seq(Callback)]
  BY DEF CloseLoop, RTypeOK
<1>2. <<>> \in Seq(Callback)
  OBVIOUS
<1>3. queue'[r] = <<>> /\ queue' \in [Runners -> Seq(Callback)]
      /\ \A s \in Runners : s # r => queue'[s] = queue[s]
  BY <1>1, <1>2
<1> QED
  BY <1>3, Emptied DEF CloseLoop

----------------------------------------------------------------------------
(* Each part of the invariant is preserved by every step.                   *)

\* Every step keeps the types, given where coroutines and callbacks are.
LEMMA TypesKept ==
  ASSUME RTypeOK, Places, Scheduled, RNext
  PROVE  RTypeOK'
<1>1. ASSUME NEW t \in Threads, NewRunner(t) PROVE RTypeOK'
  BY <1>1 DEF RTypeOK, HasLoop, NewRunner, MustReplace, Uses, Goes
<1>2. ASSUME NEW t \in Threads, UseRunner(t) PROVE RTypeOK'
  BY <1>2 DEF RTypeOK, HasLoop, UseRunner, MustReplace, Uses, Goes, runnerVars
<1>3. ASSUME NEW t \in Threads, Start(t) PROVE RTypeOK'
  <2>1. StartEffect(t)
    BY <1>3, StartView
  <2>2. queue' = queue /\ created' = created /\ on' = on /\ on[t] \in Runners /\ on[t] \in created
    BY <2>1 DEF RTypeOK, StartEffect, runnerVars
  <2>3. /\ pc' \in [Threads -> {"idle", "start", "ready", "submit", "result",
                                "request", "mark", "stop", "waiting"}]
        /\ \A u \in Threads : pc'[u] # "idle" => pc[u] # "idle"
    BY <2>1 DEF RTypeOK, StartEffect
  <2>4. \/ UNCHANGED phase
        \/ phase[on[t]] = "none" /\ phase' = [phase EXCEPT ![on[t]] = "starting"]
    BY <2>1 DEF StartEffect
  <2>5. /\ phase' \in [Runners -> Running \union {"none", "starting", "left", "crashed",
                                                "closed", "done"}]
        /\ \A r \in Runners : phase'[r] = phase[r] \/ phase[r] = "none"
    BY <2>2, <2>4 DEF RTypeOK
  <2>6. UNCHANGED <<runnerVars, queue, on, task, asked, late>>
    BY <2>1 DEF StartEffect
  <2>7. \A r \in Runners : loop'[r] => HasLoop(r)' \/ phase'[r] = "closed"
    BY <2>5, <2>6 DEF RTypeOK, HasLoop, Running, runnerVars
  <2>8. \A u \in Threads : pc'[u] # "idle" => on'[u] \in created'
    BY <2>3, <2>6 DEF RTypeOK, runnerVars
  <2> QED
    BY <2>3, <2>5, <2>6, <2>7, <2>8 DEF RTypeOK, runnerVars
<1>4. ASSUME NEW t \in Threads, Ready(t) PROVE RTypeOK'
  BY <1>4 DEF RTypeOK, HasLoop, Ready, Goes, Returns, runnerVars
<1>5. ASSUME NEW t \in Threads, Submit(t) PROVE RTypeOK'
  <2>1. SubmitEffect(t)
    BY <1>5, SubmitView
  <2>2. queue' \in [Runners -> Seq(Callback)]
    BY <2>1 DEF RTypeOK, SubmitEffect, Adds
  <2>3. UNCHANGED <<runnerVars, phase, on, asked>> /\ pc[t] = "submit"
    BY <2>1 DEF SubmitEffect
  <2>4. late' \in [Threads -> BOOLEAN]
    BY <2>1 DEF RTypeOK, SubmitEffect
  <2>5. /\ pc' = [pc EXCEPT ![t] = "idle"] \/ pc' = [pc EXCEPT ![t] = "result"]
        /\ task' = task \/ task' = [task EXCEPT ![t] = "submitted"]
    BY <2>1 DEF SubmitEffect
  <2> QED
    BY <2>2, <2>3, <2>4, <2>5 DEF RTypeOK, HasLoop, runnerVars
<1>6. ASSUME NEW t \in Threads, Result(t) PROVE RTypeOK'
  BY <1>6 DEF RTypeOK, HasLoop, Result, Goes, Returns, runnerVars
<1>7. ASSUME NEW t \in Threads, Shutdown(t) PROVE RTypeOK'
  BY <1>7 DEF RTypeOK, HasLoop, Shutdown, Goes, Uses, runnerVars
<1>8. ASSUME NEW t \in Threads, Request(t) PROVE RTypeOK'
  BY <1>8 DEF RTypeOK, HasLoop, Request, Goes
<1>9. ASSUME NEW t \in Threads, MarkClosed(t) PROVE RTypeOK'
  BY <1>9 DEF RTypeOK, HasLoop, MarkClosed, CloseUnstarted, Goes
<1>10. ASSUME NEW t \in Threads, CallStop(t) PROVE RTypeOK'
  <2>1. CallStopEffect(t)
    BY <1>10, CallStopView
  <2>2. queue' \in [Runners -> Seq(Callback)]
    BY <2>1 DEF RTypeOK, CallStopEffect, Adds
  <2> QED
    BY <2>1, <2>2 DEF RTypeOK, HasLoop, CallStopEffect, runnerVars
<1>11. ASSUME NEW t \in Threads, Stopped(t) PROVE RTypeOK'
  BY <1>11 DEF RTypeOK, HasLoop, Stopped, Goes, Returns, runnerVars
<1>12. ASSUME NEW t \in Threads, TimesOut(t) PROVE RTypeOK'
  BY <1>12 DEF RTypeOK, HasLoop, TimesOut, Goes, Returns, runnerVars
<1>13. ASSUME NEW t \in Threads, Ask(t) PROVE RTypeOK'
  BY <1>13 DEF RTypeOK, HasLoop, Ask, DeferStop, AtWork, callVars
<1>14. ASSUME NEW t \in Threads, TaskEnds(t) PROVE RTypeOK'
  <2>1. TaskEndsEffect(t)
    BY <1>14, TaskEndsView
  <2>2. queue' \in [Runners -> Seq(Callback)]
    BY <2>1 DEF TaskEndsEffect, AddsEnd
  <2> QED
    BY <2>1, <2>2 DEF RTypeOK, HasLoop, TaskEndsEffect, runnerVars, callVars
<1>15. ASSUME NEW t \in Threads, TaskExits(t) PROVE RTypeOK'
  <2>1. TaskExitsEffect(t)
    BY <1>15, TaskExitsView
  <2>2. queue' \in [Runners -> Seq(Callback)]
    BY <2>1 DEF AddsEnd, TaskExitsEffect
  <2>3. UNCHANGED <<dispatch, created, loop, stopped, closing, closed, pc, on, late, asked>>
    BY <2>1 DEF TaskExitsEffect, callVars
  <2>4. failed' \in [Runners -> BOOLEAN]
    BY <2>1 DEF RTypeOK, TaskExitsEffect
  <2>5. /\ phase[on[t]] \in Running /\ on[t] \in Runners
        /\ phase' = phase \/ phase' = [phase EXCEPT ![on[t]] = "left"]
           \/ phase' = [phase EXCEPT ![on[t]] = "crashed"]
        /\ task' = [task EXCEPT ![t] = "exiting"] /\ ready' \in [Runners -> BOOLEAN]
    BY <2>1 DEF TaskExitsEffect
  <2>6. /\ phase' \in [Runners -> Running \union {"none", "starting", "left", "crashed", "closed", "done"}]
        /\ \A r \in Runners :
             phase'[r] = phase[r] \/ phase'[r] \in Running \union {"left", "crashed"}
    <3>1. CASE phase' = phase
      BY <3>1 DEF RTypeOK
    <3>2. CASE phase' = [phase EXCEPT ![on[t]] = "left"]
      BY <2>5, <3>2 DEF RTypeOK
    <3>3. CASE phase' = [phase EXCEPT ![on[t]] = "crashed"]
      BY <2>5, <3>3 DEF RTypeOK
    <3> QED
      BY <2>5, <3>1, <3>2, <3>3, Zenon
  <2> QED
    BY <2>2, <2>3, <2>4, <2>5, <2>6 DEF RTypeOK, HasLoop
<1>16. ASSUME NEW r \in Runners, LoopStarts(r) PROVE RTypeOK'
  BY <1>16 DEF RTypeOK, HasLoop, Running, LoopStarts, callVars
<1>17. ASSUME NEW r \in Runners, LoopFails(r) PROVE RTypeOK'
  BY <1>17 DEF RTypeOK, HasLoop, LoopFails, ReportFailure, callVars
<1>18. ASSUME NEW r \in Runners, StartTask(r) PROVE RTypeOK'
  <2>1. PICK v \in Threads : StartTaskEffect(r, v)
    BY <1>18, StartTaskView
  <2>2. queue' \in [Runners -> Seq(Callback)]
    BY <2>1 DEF StartTaskEffect, Takes
  <2> QED
    BY <2>1, <2>2 DEF RTypeOK, HasLoop, StartTaskEffect, runnerVars, callVars
<1>19. ASSUME NEW r \in Runners, CompleteFuture(r) PROVE RTypeOK'
  <2>1. PICK v \in Threads : CompleteFutureEffect(r, v)
    BY <1>19, CompleteFutureView
  <2>2. queue' \in [Runners -> Seq(Callback)]
    BY <2>1 DEF CompleteFutureEffect, Takes
  <2> QED
    BY <2>1, <2>2 DEF RTypeOK, HasLoop, CompleteFutureEffect, runnerVars, callVars
<1>20. ASSUME NEW r \in Runners, StopLoop(r) PROVE RTypeOK'
  <2>1. StopLoopEffect(r)
    BY <1>20, StopLoopView
  <2>2. queue' \in [Runners -> Seq(Callback)]
    BY <2>1 DEF StopLoopEffect, Takes
  <2> QED
    BY <2>1, <2>2 DEF RTypeOK, HasLoop, Running, StopLoopEffect, runnerVars, callVars
<1>21. ASSUME NEW r \in Runners, LastIteration(r) PROVE RTypeOK'
  <2>1. LastIterationEffect(r)
    BY <1>21, LastIterationView
  <2>2. queue' \in [Runners -> Seq(Callback)]
    BY <2>1 DEF LastIterationEffect, Takes
  <2> QED
    BY <2>1, <2>2 DEF RTypeOK, HasLoop, Running, LastIterationEffect, runnerVars,
           callVars
<1>22. ASSUME NEW r \in Runners, CancelTasks(r) PROVE RTypeOK'
  BY <1>22 DEF RTypeOK, HasLoop, Running, CancelTasks, CancelAll, runnerVars, callVars
<1>23. ASSUME NEW r \in Runners, TasksCancelled(r) PROVE RTypeOK'
  <2>1. TasksCancelledEffect(r)
    BY <1>23, TasksCancelledView
  <2>2. queue' \in [Runners -> Seq(Callback)]
    BY <2>1 DEF TasksCancelledEffect, Adds
  <2> QED
    BY <2>1, <2>2 DEF RTypeOK, HasLoop, Running, TasksCancelledEffect, runnerVars,
           callVars
<1>24. ASSUME NEW r \in Runners, CloseLoop(r) PROVE RTypeOK'
  <2>1. CloseLoopEffect(r)
    BY <1>24, CloseLoopView
  <2>2. queue' \in [Runners -> Seq(Callback)]
    BY <2>1 DEF CloseLoopEffect
  <2> QED
    BY <2>1, <2>2 DEF RTypeOK, HasLoop, CloseLoopEffect, runnerVars, callVars
<1>25. ASSUME NEW r \in Runners, ThreadEnds(r) PROVE RTypeOK'
  BY <1>25 DEF RTypeOK, HasLoop, ThreadEnds, ForgetLoop, callVars
<1> QED
  BY <1>1, <1>2, <1>3, <1>4, <1>5, <1>6, <1>7, <1>8, <1>9, <1>10, <1>11, <1>12,
     <1>13, <1>14, <1>15, <1>16, <1>17, <1>18, <1>19, <1>20, <1>21, <1>22, <1>23,
     <1>24, <1>25 DEF RNext, Caller, Coroutine, LoopThread

\* A runner is replaced only when it is closed, and closed stays closed.
LEMMA OwnersKept ==
  ASSUME RTypeOK, Places, Scheduled, Owners, RNext
  PROVE  Owners'
<1>1. ASSUME NEW t \in Threads, NewRunner(t) PROVE Owners'
  BY <1>1, RunnerAssumption DEF RTypeOK, Owners, NewRunner, MustReplace, Uses, Goes
<1>2. ASSUME NEW t \in Threads, UseRunner(t) PROVE Owners'
  BY <1>2 DEF Owners, UseRunner, MustReplace, Uses, Goes, runnerVars
<1>3. ASSUME NEW t \in Threads, Start(t) PROVE Owners'
  <2>1. StartEffect(t)
    BY <1>3, StartView
  <2> QED
    BY <2>1 DEF RTypeOK, Owners, StartEffect, runnerVars
<1>4. ASSUME NEW t \in Threads, Ready(t) PROVE Owners'
  BY <1>4 DEF Owners, Ready, Goes, Returns, runnerVars
<1>5. ASSUME NEW t \in Threads, Submit(t) PROVE Owners'
  <2>1. SubmitEffect(t)
    BY <1>5, SubmitView
  <2> QED
    BY <2>1 DEF Owners, SubmitEffect, runnerVars
<1>6. ASSUME NEW t \in Threads, Result(t) PROVE Owners'
  BY <1>6 DEF Owners, Result, Goes, Returns, runnerVars
<1>7. ASSUME NEW t \in Threads, Shutdown(t) PROVE Owners'
  BY <1>7 DEF Owners, Shutdown, Goes, Uses, runnerVars
<1>8. ASSUME NEW t \in Threads, Request(t) PROVE Owners'
  BY <1>8 DEF Owners, Request, Goes
<1>9. ASSUME NEW t \in Threads, MarkClosed(t) PROVE Owners'
  BY <1>9 DEF Owners, MarkClosed, CloseUnstarted, Goes
<1>10. ASSUME NEW t \in Threads, CallStop(t) PROVE Owners'
  <2>1. CallStopEffect(t)
    BY <1>10, CallStopView
  <2> QED
    BY <2>1 DEF Owners, CallStopEffect, runnerVars
<1>11. ASSUME NEW t \in Threads, Stopped(t) PROVE Owners'
  BY <1>11 DEF Owners, Stopped, Goes, Returns, runnerVars
<1>12. ASSUME NEW t \in Threads, TimesOut(t) PROVE Owners'
  BY <1>12 DEF Owners, TimesOut, Goes, Returns, runnerVars
<1>13. ASSUME NEW t \in Threads, Ask(t) PROVE Owners'
  BY <1>13 DEF Owners, Ask, DeferStop, AtWork, callVars
<1>14. ASSUME NEW t \in Threads, TaskEnds(t) PROVE Owners'
  <2>1. TaskEndsEffect(t)
    BY <1>14, TaskEndsView
  <2> QED
    BY <2>1 DEF Owners, TaskEndsEffect, runnerVars, callVars
<1>15. ASSUME NEW t \in Threads, TaskExits(t) PROVE Owners'
  <2>1. TaskExitsEffect(t)
    BY <1>15, TaskExitsView
  <2> QED
    BY <2>1 DEF RTypeOK, Owners, TaskExitsEffect, callVars
<1>16. ASSUME NEW r \in Runners, LoopStarts(r) PROVE Owners'
  BY <1>16 DEF Owners, LoopStarts, callVars
<1>17. ASSUME NEW r \in Runners, LoopFails(r) PROVE Owners'
  BY <1>17 DEF Owners, LoopFails, ReportFailure, callVars
<1>18. ASSUME NEW r \in Runners, StartTask(r) PROVE Owners'
  <2>1. PICK v \in Threads : StartTaskEffect(r, v)
    BY <1>18, StartTaskView
  <2> QED
    BY <2>1 DEF Owners, StartTaskEffect, runnerVars, callVars
<1>19. ASSUME NEW r \in Runners, CompleteFuture(r) PROVE Owners'
  <2>1. PICK v \in Threads : CompleteFutureEffect(r, v)
    BY <1>19, CompleteFutureView
  <2> QED
    BY <2>1 DEF Owners, CompleteFutureEffect, runnerVars, callVars
<1>20. ASSUME NEW r \in Runners, StopLoop(r) PROVE Owners'
  <2>1. StopLoopEffect(r)
    BY <1>20, StopLoopView
  <2> QED
    BY <2>1 DEF RTypeOK, Owners, StopLoopEffect, runnerVars, callVars
<1>21. ASSUME NEW r \in Runners, LastIteration(r) PROVE Owners'
  <2>1. LastIterationEffect(r)
    BY <1>21, LastIterationView
  <2> QED
    BY <2>1 DEF Owners, Running, LastIterationEffect, runnerVars, callVars
<1>22. ASSUME NEW r \in Runners, CancelTasks(r) PROVE Owners'
  BY <1>22 DEF Owners, CancelTasks, CancelAll, runnerVars, callVars
<1>23. ASSUME NEW r \in Runners, TasksCancelled(r) PROVE Owners'
  <2>1. TasksCancelledEffect(r)
    BY <1>23, TasksCancelledView
  <2> QED
    BY <2>1 DEF Owners, TasksCancelledEffect, runnerVars, callVars
<1>24. ASSUME NEW r \in Runners, CloseLoop(r) PROVE Owners'
  <2>1. CloseLoopEffect(r)
    BY <1>24, CloseLoopView
  <2> QED
    BY <2>1 DEF Owners, CloseLoopEffect, runnerVars, callVars
<1>25. ASSUME NEW r \in Runners, ThreadEnds(r) PROVE Owners'
  BY <1>25 DEF Owners, ThreadEnds, ForgetLoop, callVars
<1> QED
  BY <1>1, <1>2, <1>3, <1>4, <1>5, <1>6, <1>7, <1>8, <1>9, <1>10, <1>11, <1>12,
     <1>13, <1>14, <1>15, <1>16, <1>17, <1>18, <1>19, <1>20, <1>21, <1>22, <1>23,
     <1>24, <1>25 DEF RNext, Caller, Coroutine, LoopThread

\* A caller does not go on before its coroutine has come to an end.
LEMMA PlacesKept ==
  ASSUME RTypeOK, Scheduled, Places, RNext
  PROVE  Places'
<1>1. ASSUME NEW t \in Threads, NewRunner(t) PROVE Places'
  BY <1>1 DEF Places, NewRunner, MustReplace, Uses, Goes
<1>2. ASSUME NEW t \in Threads, UseRunner(t) PROVE Places'
  BY <1>2 DEF Places, UseRunner, MustReplace, Uses, Goes, runnerVars
<1>3. ASSUME NEW t \in Threads, Start(t) PROVE Places'
  <2>1. StartEffect(t)
    BY <1>3, StartView
  <2>2. on' = on /\ task' = task /\ on[t] \in Runners
    BY <2>1 DEF RTypeOK, StartEffect
  <2>3. CASE pc' = [pc EXCEPT ![t] = "idle"] /\ UNCHANGED phase
    BY <2>1, <2>2, <2>3 DEF Places, StartEffect
  <2>4. CASE loop[on[t]] /\ pc' = [pc EXCEPT ![t] = "submit"] /\ UNCHANGED phase
    <3>1. phase[on[t]] \notin {"none", "starting"}
      BY <2>2, <2>4 DEF RTypeOK, HasLoop, Running
    <3> QED
      BY <2>1, <2>2, <2>4, <3>1 DEF Places, StartEffect
  <2>5. CASE pc' = [pc EXCEPT ![t] = "ready"] /\ UNCHANGED phase
    BY <2>1, <2>2, <2>5 DEF Places, StartEffect
  <2>6. CASE /\ pc' = [pc EXCEPT ![t] = "ready"]
             /\ phase[on[t]] = "none" /\ phase' = [phase EXCEPT ![on[t]] = "starting"]
    BY <2>1, <2>2, <2>6 DEF Places, StartEffect
  <2> QED
    BY <2>1, <2>3, <2>4, <2>5, <2>6 DEF StartEffect
<1>4. ASSUME NEW t \in Threads, Ready(t) PROVE Places'
  <2>1. pc[t] = "ready" /\ UNCHANGED <<dispatch, created, loop, phase, on, task>>
    BY <1>4 DEF Ready, runnerVars
  <2>2. CASE pc' = [pc EXCEPT ![t] = "idle"]
    BY <2>1, <2>2 DEF Places
  <2>3. CASE pc' = [pc EXCEPT ![t] = "submit"] /\ loop[on[t]]
    <3>1. on[t] \in Runners /\ phase[on[t]] \notin {"none", "starting"}
      BY <2>1, <2>3 DEF RTypeOK, HasLoop, Running
    <3> QED
      BY <2>1, <2>3, <3>1 DEF Places
  <2> QED
    BY <1>4, <2>2, <2>3 DEF Ready, Goes, Returns
<1>5. ASSUME NEW t \in Threads, Submit(t) PROVE Places'
  <2>1. SubmitEffect(t)
    BY <1>5, SubmitView
  <2> QED
    BY <2>1 DEF RTypeOK, Places, SubmitEffect, runnerVars
<1>6. ASSUME NEW t \in Threads, Result(t) PROVE Places'
  BY <1>6 DEF Places, Result, Goes, Returns, runnerVars
<1>7. ASSUME NEW t \in Threads, Shutdown(t) PROVE Places'
  BY <1>7 DEF Places, Shutdown, Goes, Uses, runnerVars
<1>8. ASSUME NEW t \in Threads, Request(t) PROVE Places'
  BY <1>8 DEF RTypeOK, Places, Request, Goes
<1>9. ASSUME NEW t \in Threads, MarkClosed(t) PROVE Places'
  BY <1>9 DEF Places, MarkClosed, CloseUnstarted, Goes
<1>10. ASSUME NEW t \in Threads, CallStop(t) PROVE Places'
  <2>1. CallStopEffect(t)
    BY <1>10, CallStopView
  <2> QED
    BY <2>1 DEF RTypeOK, Places, CallStopEffect, runnerVars
<1>11. ASSUME NEW t \in Threads, Stopped(t) PROVE Places'
  BY <1>11 DEF Places, Stopped, Goes, Returns, runnerVars
<1>12. ASSUME NEW t \in Threads, TimesOut(t) PROVE Places'
  BY <1>12 DEF Places, TimesOut, Goes, Returns, runnerVars
<1>13. ASSUME NEW t \in Threads, Ask(t) PROVE Places'
  BY <1>13 DEF Places, Ask, DeferStop, AtWork, callVars
<1>14. ASSUME NEW t \in Threads, TaskEnds(t) PROVE Places'
  <2>1. TaskEndsEffect(t)
    BY <1>14, TaskEndsView
  <2> QED
    BY <2>1 DEF RTypeOK, Places, TaskEndsEffect, runnerVars, callVars
<1>15. ASSUME NEW t \in Threads, TaskExits(t) PROVE Places'
  <2>1. TaskExitsEffect(t)
    BY <1>15, TaskExitsView
  <2> QED
    BY <2>1 DEF RTypeOK, Places, TaskExitsEffect, callVars
<1>16. ASSUME NEW r \in Runners, LoopStarts(r) PROVE Places'
  BY <1>16 DEF Places, LoopStarts, callVars
<1>17. ASSUME NEW r \in Runners, LoopFails(r) PROVE Places'
  BY <1>17 DEF Places, LoopFails, ReportFailure, callVars
<1>18. ASSUME NEW r \in Runners, StartTask(r) PROVE Places'
  <2>1. PICK v \in Threads : StartTaskEffect(r, v)
    BY <1>18, StartTaskView
  <2> QED
    BY <2>1 DEF Places, StartTaskEffect, runnerVars, callVars
<1>19. ASSUME NEW r \in Runners, CompleteFuture(r) PROVE Places'
  <2>1. PICK v \in Threads : CompleteFutureEffect(r, v)
    BY <1>19, CompleteFutureView
  <2> QED
    BY <2>1 DEF RTypeOK, Places, CompleteFutureEffect, runnerVars, callVars
<1>20. ASSUME NEW r \in Runners, StopLoop(r) PROVE Places'
  <2>1. StopLoopEffect(r)
    BY <1>20, StopLoopView
  <2> QED
    BY <2>1 DEF RTypeOK, Places, StopLoopEffect, runnerVars, callVars
<1>21. ASSUME NEW r \in Runners, LastIteration(r) PROVE Places'
  <2>1. LastIterationEffect(r)
    BY <1>21, LastIterationView
  <2> QED
    BY <2>1 DEF Places, LastIterationEffect, runnerVars, callVars
<1>22. ASSUME NEW r \in Runners, CancelTasks(r) PROVE Places'
  BY <1>22 DEF Places, CancelTasks, CancelAll, runnerVars, callVars
<1>23. ASSUME NEW r \in Runners, TasksCancelled(r) PROVE Places'
  <2>1. TasksCancelledEffect(r)
    BY <1>23, TasksCancelledView
  <2> QED
    BY <2>1 DEF Places, TasksCancelledEffect, runnerVars, callVars
<1>24. ASSUME NEW r \in Runners, CloseLoop(r) PROVE Places'
  <2>1. CloseLoopEffect(r)
    BY <1>24, CloseLoopView
  <2> QED
    BY <2>1 DEF Places, CloseLoopEffect, runnerVars, callVars
<1>25. ASSUME NEW r \in Runners, ThreadEnds(r) PROVE Places'
  BY <1>25 DEF Places, ThreadEnds, ForgetLoop, callVars
<1> QED
  BY <1>1, <1>2, <1>3, <1>4, <1>5, <1>6, <1>7, <1>8, <1>9, <1>10, <1>11, <1>12,
     <1>13, <1>14, <1>15, <1>16, <1>17, <1>18, <1>19, <1>20, <1>21, <1>22, <1>23,
     <1>24, <1>25 DEF RNext, Caller, Coroutine, LoopThread

\* No step schedules a callback twice or for another coroutine.
LEMMA ScheduledKept ==
  ASSUME RTypeOK, Places, Scheduled, RNext
  PROVE  Scheduled'
<1>1. ASSUME NEW t \in Threads, NewRunner(t) PROVE Scheduled'
  BY <1>1 DEF Scheduled, Slot, NewRunner, MustReplace, Uses, Goes
<1>2. ASSUME NEW t \in Threads, UseRunner(t) PROVE Scheduled'
  BY <1>2 DEF Scheduled, Slot, UseRunner, MustReplace, Uses, Goes, runnerVars
<1>3. ASSUME NEW t \in Threads, Start(t) PROVE Scheduled'
  <2>1. StartEffect(t)
    BY <1>3, StartView
  <2> QED
    BY <2>1 DEF RTypeOK, Scheduled, Slot, StartEffect, runnerVars
<1>4. ASSUME NEW t \in Threads, Ready(t) PROVE Scheduled'
  BY <1>4 DEF RTypeOK, Scheduled, Slot, Ready, Goes, Returns, runnerVars
<1>5. ASSUME NEW t \in Threads, Submit(t) PROVE Scheduled'
  <2>1. SubmitEffect(t)
    BY <1>5, SubmitView
  <2> QED
    BY <2>1, Kinds DEF RTypeOK, Scheduled, Slot, SubmitEffect, runnerVars, Adds
<1>6. ASSUME NEW t \in Threads, Result(t) PROVE Scheduled'
  BY <1>6 DEF Scheduled, Slot, Over, Result, Goes, Returns, runnerVars
<1>7. ASSUME NEW t \in Threads, Shutdown(t) PROVE Scheduled'
  BY <1>7 DEF Scheduled, Slot, Shutdown, Goes, Uses, runnerVars
<1>8. ASSUME NEW t \in Threads, Request(t) PROVE Scheduled'
  BY <1>8 DEF RTypeOK, Scheduled, Slot, Request, Goes
<1>9. ASSUME NEW t \in Threads, MarkClosed(t) PROVE Scheduled'
  BY <1>9 DEF Scheduled, Slot, MarkClosed, CloseUnstarted, Goes
<1>10. ASSUME NEW t \in Threads, CallStop(t) PROVE Scheduled'
  <2>1. CallStopEffect(t)
    BY <1>10, CallStopView
  <2> QED
    BY <2>1, Kinds DEF RTypeOK, Scheduled, Slot, CallStopEffect, runnerVars, Adds
<1>11. ASSUME NEW t \in Threads, Stopped(t) PROVE Scheduled'
  BY <1>11 DEF Scheduled, Slot, Stopped, Goes, Returns, runnerVars
<1>12. ASSUME NEW t \in Threads, TimesOut(t) PROVE Scheduled'
  BY <1>12 DEF Scheduled, Slot, TimesOut, Goes, Returns, runnerVars
<1>13. ASSUME NEW t \in Threads, Ask(t) PROVE Scheduled'
  BY <1>13 DEF Scheduled, Slot, Ask, DeferStop, AtWork, Running, callVars
<1>14. ASSUME NEW t \in Threads, TaskEnds(t) PROVE Scheduled'
  <2>1. TaskEndsEffect(t)
    BY <1>14, TaskEndsView
  <2> QED
    BY <2>1, Kinds DEF RTypeOK, Scheduled, Slot, Over, TaskEndsEffect, runnerVars,
           callVars, AddsEnd
<1>15. ASSUME NEW t \in Threads, TaskExits(t) PROVE Scheduled'
  <2>1. TaskExitsEffect(t)
    BY <1>15, TaskExitsView
  <2> QED
    BY <2>1, Kinds DEF RTypeOK, Scheduled, Slot, Over, TaskExitsEffect, callVars,
           AddsEnd
<1>16. ASSUME NEW r \in Runners, LoopStarts(r) PROVE Scheduled'
  BY <1>16 DEF Scheduled, Slot, LoopStarts, callVars
<1>17. ASSUME NEW r \in Runners, LoopFails(r) PROVE Scheduled'
  BY <1>17 DEF Scheduled, Slot, LoopFails, ReportFailure, callVars
<1>18. ASSUME NEW r \in Runners, StartTask(r) PROVE Scheduled'
  <2>1. PICK v \in Threads : StartTaskEffect(r, v)
    BY <1>18, StartTaskView
  <2> QED
    BY <2>1 DEF Scheduled, Slot, Over, StartTaskEffect, runnerVars, callVars, Takes
<1>19. ASSUME NEW r \in Runners, CompleteFuture(r) PROVE Scheduled'
  <2>1. PICK v \in Threads : CompleteFutureEffect(r, v)
    BY <1>19, CompleteFutureView
  <2> QED
    BY <2>1 DEF RTypeOK, Scheduled, Slot, CompleteFutureEffect, runnerVars,
           callVars, Takes
<1>20. ASSUME NEW r \in Runners, StopLoop(r) PROVE Scheduled'
  <2>1. StopLoopEffect(r)
    BY <1>20, StopLoopView
  <2> QED
    BY <2>1 DEF Scheduled, Slot, StopLoopEffect, runnerVars, callVars, Takes
<1>21. ASSUME NEW r \in Runners, LastIteration(r) PROVE Scheduled'
  <2>1. LastIterationEffect(r)
    BY <1>21, LastIterationView
  <2> QED
    BY <2>1 DEF Scheduled, Slot, LastIterationEffect, runnerVars, callVars, Takes
<1>22. ASSUME NEW r \in Runners, CancelTasks(r) PROVE Scheduled'
  BY <1>22 DEF Scheduled, Slot, Over, CancelTasks, CancelAll, runnerVars, callVars
<1>23. ASSUME NEW r \in Runners, TasksCancelled(r) PROVE Scheduled'
  <2>1. TasksCancelledEffect(r)
    BY <1>23, TasksCancelledView
  <2> QED
    BY <2>1, Kinds DEF Scheduled, Slot, TasksCancelledEffect, runnerVars, callVars, Adds
<1>24. ASSUME NEW r \in Runners, CloseLoop(r) PROVE Scheduled'
  <2>1. CloseLoopEffect(r)
    BY <1>24, CloseLoopView
  <2>2. ASSUME NEW s \in Runners, NEW t \in Threads PROVE Slot(s, t)'
    <3>1. UNCHANGED <<pc, on, task>>
      BY <2>1 DEF CloseLoopEffect, callVars
    <3>2. CASE s = r
      BY <2>1, <3>1, <3>2 DEF CloseLoopEffect, Slot
    <3>3. CASE s # r
      BY <2>1, <3>1, <3>3 DEF CloseLoopEffect, Scheduled, Slot
    <3> QED
      BY <3>2, <3>3
  <2> QED
    BY <2>2 DEF Scheduled
<1>25. ASSUME NEW r \in Runners, ThreadEnds(r) PROVE Scheduled'
  BY <1>25 DEF Scheduled, Slot, ThreadEnds, ForgetLoop, callVars
<1> QED
  BY <1>1, <1>2, <1>3, <1>4, <1>5, <1>6, <1>7, <1>8, <1>9, <1>10, <1>11, <1>12,
     <1>13, <1>14, <1>15, <1>16, <1>17, <1>18, <1>19, <1>20, <1>21, <1>22, <1>23,
     <1>24, <1>25 DEF RNext, Caller, Coroutine, LoopThread

\* No step but the closing of the loop loses a callback.
LEMMA AwaitedKept ==
  ASSUME RTypeOK, Places, Scheduled, Awaited, RNext
  PROVE  Awaited'
<1>1. ASSUME NEW t \in Threads, NewRunner(t) PROVE Awaited'
  BY <1>1 DEF Awaited, Attended, LoopClosed, NewRunner, MustReplace, Uses, Goes
<1>2. ASSUME NEW t \in Threads, UseRunner(t) PROVE Awaited'
  BY <1>2 DEF Awaited, Attended, LoopClosed, UseRunner, MustReplace, Uses, Goes,
         runnerVars
<1>3. ASSUME NEW t \in Threads, Start(t) PROVE Awaited'
  <2>1. StartEffect(t)
    BY <1>3, StartView
  <2>2. ASSUME NEW u \in Threads PROVE Attended(u)'
    <3>1. UNCHANGED on /\ (pc[u] = "result" => on[u] \in Runners)
      BY <2>1 DEF RTypeOK, StartEffect, callVars
    <3> QED
      BY <2>1, <3>1 DEF RTypeOK, Awaited, Attended, LoopClosed, StartEffect, runnerVars
  <2> QED
    BY <2>2 DEF Awaited
<1>4. ASSUME NEW t \in Threads, Ready(t) PROVE Awaited'
  BY <1>4 DEF Places, Awaited, Attended, LoopClosed, Over, Ready, Goes, Returns,
         runnerVars
<1>5. ASSUME NEW t \in Threads, Submit(t) PROVE Awaited'
  <2>1. SubmitEffect(t)
    BY <1>5, SubmitView
  <2> QED
    BY <2>1, Kinds DEF RTypeOK, Awaited, Attended, LoopClosed, Over, SubmitEffect,
           runnerVars, Adds
<1>6. ASSUME NEW t \in Threads, Result(t) PROVE Awaited'
  BY <1>6 DEF Awaited, Attended, LoopClosed, Result, Goes, Returns, runnerVars
<1>7. ASSUME NEW t \in Threads, Shutdown(t) PROVE Awaited'
  BY <1>7 DEF Awaited, Attended, LoopClosed, Shutdown, Goes, Uses, runnerVars
<1>8. ASSUME NEW t \in Threads, Request(t) PROVE Awaited'
  BY <1>8 DEF Places, Awaited, Attended, LoopClosed, Over, Request, Goes
<1>9. ASSUME NEW t \in Threads, MarkClosed(t) PROVE Awaited'
  BY <1>9 DEF Awaited, Attended, LoopClosed, MarkClosed, CloseUnstarted, Goes
<1>10. ASSUME NEW t \in Threads, CallStop(t) PROVE Awaited'
  <2>1. CallStopEffect(t)
    BY <1>10, CallStopView
  <2> QED
    BY <2>1 DEF RTypeOK, Places, Awaited, Attended, LoopClosed, Over,
           CallStopEffect, runnerVars, Adds
<1>11. ASSUME NEW t \in Threads, Stopped(t) PROVE Awaited'
  BY <1>11 DEF Awaited, Attended, LoopClosed, Stopped, Goes, Returns, runnerVars
<1>12. ASSUME NEW t \in Threads, TimesOut(t) PROVE Awaited'
  BY <1>12 DEF Awaited, Attended, LoopClosed, TimesOut, Goes, Returns, runnerVars
<1>13. ASSUME NEW t \in Threads, Ask(t) PROVE Awaited'
  BY <1>13 DEF Awaited, Attended, LoopClosed, Ask, DeferStop, AtWork, Running, callVars
<1>14. ASSUME NEW t \in Threads, TaskEnds(t) PROVE Awaited'
  <2>1. TaskEndsEffect(t)
    BY <1>14, TaskEndsView
  <2>2. ASSUME NEW u \in Threads PROVE Attended(u)'
    <3>1. UNCHANGED on /\ (pc[u] = "result" => on[u] \in Runners)
      BY <2>1 DEF RTypeOK, TaskEndsEffect, callVars
    <3> QED
      BY <2>1, <3>1, Kinds DEF RTypeOK, Awaited, Attended, Scheduled, Slot,
             LoopClosed, TaskEndsEffect, runnerVars, callVars, AddsEnd
  <2> QED
    BY <2>2 DEF Awaited
<1>15. ASSUME NEW t \in Threads, TaskExits(t) PROVE Awaited'
  <2>1. TaskExitsEffect(t)
    BY <1>15, TaskExitsView
  <2> QED
    BY <2>1 DEF RTypeOK, Awaited, Attended, LoopClosed, TaskExitsEffect, callVars,
           AddsEnd
<1>16. ASSUME NEW r \in Runners, LoopStarts(r) PROVE Awaited'
  BY <1>16 DEF Awaited, Attended, LoopClosed, LoopStarts, callVars
<1>17. ASSUME NEW r \in Runners, LoopFails(r) PROVE Awaited'
  BY <1>17 DEF Awaited, Attended, LoopClosed, LoopFails, ReportFailure, callVars
<1>18. ASSUME NEW r \in Runners, StartTask(r) PROVE Awaited'
  <2>1. PICK v \in Threads : StartTaskEffect(r, v)
    BY <1>18, StartTaskView
  <2> QED
    BY <2>1, Kinds DEF RTypeOK, Awaited, Attended, LoopClosed, Over,
           StartTaskEffect, runnerVars, callVars, Takes
<1>19. ASSUME NEW r \in Runners, CompleteFuture(r) PROVE Awaited'
  <2>1. PICK v \in Threads : CompleteFutureEffect(r, v)
    BY <1>19, CompleteFutureView
  <2>2. ASSUME NEW u \in Threads PROVE Attended(u)'
    <3>1. UNCHANGED on /\ (pc[u] = "result" => on[u] \in Runners)
      BY <2>1 DEF RTypeOK, CompleteFutureEffect, callVars
    <3> QED
      BY <2>1, <3>1, Kinds DEF RTypeOK, Awaited, Attended, Scheduled, Slot,
             LoopClosed, Over, CompleteFutureEffect, runnerVars, callVars, Takes
  <2> QED
    BY <2>2 DEF Awaited
<1>20. ASSUME NEW r \in Runners, StopLoop(r) PROVE Awaited'
  <2>1. StopLoopEffect(r)
    BY <1>20, StopLoopView
  <2>2. ASSUME NEW u \in Threads, pc[u] = "result" PROVE Attended(u)'
    <3>1. UNCHANGED <<on, pc, task>> /\ on[u] \in Runners
      BY <2>1, <2>2 DEF RTypeOK, StopLoopEffect, callVars
    <3>2. /\ In(queue[on[u]], StartOf(u)) => In(queue'[on[u]], StartOf(u))
          /\ In(queue[on[u]], DoneOf(u)) => In(queue'[on[u]], DoneOf(u))
      BY <2>1, <3>1, Kinds DEF StopLoopEffect, Takes
    <3>3. LoopClosed(on[u]) => LoopClosed(on[u])'
      BY <2>1, <3>1 DEF RTypeOK, LoopClosed, Running, StopLoopEffect
    <3> QED
      BY <3>1, <3>2, <3>3 DEF Awaited, Attended
  <2> QED
    BY <2>1, <2>2 DEF Awaited, Attended, StopLoopEffect, callVars
<1>21. ASSUME NEW r \in Runners, LastIteration(r) PROVE Awaited'
  <2>1. LastIterationEffect(r)
    BY <1>21, LastIterationView
  <2>2. ASSUME NEW u \in Threads, pc[u] = "result" PROVE Attended(u)'
    <3>1. UNCHANGED <<on, pc, task>> /\ on[u] \in Runners
      BY <2>1, <2>2 DEF RTypeOK, LastIterationEffect, callVars
    <3>2. /\ In(queue[on[u]], StartOf(u)) => In(queue'[on[u]], StartOf(u))
          /\ In(queue[on[u]], DoneOf(u)) => In(queue'[on[u]], DoneOf(u))
      BY <2>1, <3>1, Kinds DEF LastIterationEffect, Takes
    <3>3. LoopClosed(on[u]) => LoopClosed(on[u])'
      BY <2>1, <3>1 DEF LoopClosed, Running, LastIterationEffect
    <3> QED
      BY <3>1, <3>2, <3>3 DEF Awaited, Attended
  <2> QED
    BY <2>1, <2>2 DEF Awaited, Attended, LastIterationEffect, callVars
<1>22. ASSUME NEW r \in Runners, CancelTasks(r) PROVE Awaited'
  BY <1>22 DEF Awaited, Attended, LoopClosed, Over, CancelTasks, CancelAll,
         runnerVars, callVars
<1>23. ASSUME NEW r \in Runners, TasksCancelled(r) PROVE Awaited'
  <2>1. TasksCancelledEffect(r)
    BY <1>23, TasksCancelledView
  <2> QED
    BY <2>1 DEF RTypeOK, Awaited, Attended, LoopClosed, TasksCancelledEffect,
           runnerVars, callVars, Adds
<1>24. ASSUME NEW r \in Runners, CloseLoop(r) PROVE Awaited'
  <2>1. CloseLoopEffect(r)
    BY <1>24, CloseLoopView
  <2> QED
    BY <2>1 DEF RTypeOK, Awaited, Attended, LoopClosed, CloseLoopEffect, runnerVars,
           callVars
<1>25. ASSUME NEW r \in Runners, ThreadEnds(r) PROVE Awaited'
  BY <1>25 DEF Awaited, Attended, LoopClosed, ThreadEnds, ForgetLoop, callVars
<1> QED
  BY <1>1, <1>2, <1>3, <1>4, <1>5, <1>6, <1>7, <1>8, <1>9, <1>10, <1>11, <1>12,
     <1>13, <1>14, <1>15, <1>16, <1>17, <1>18, <1>19, <1>20, <1>21, <1>22, <1>23,
     <1>24, <1>25 DEF RNext, Caller, Coroutine, LoopThread

\* Nothing but a shutdown, or a failure, stops the loop.
LEMMA ClosingsKept ==
  ASSUME RTypeOK, Places, Scheduled, Askers, Closings, RNext
  PROVE  Closings'
<1>1. ASSUME NEW t \in Threads, NewRunner(t) PROVE Closings'
  BY <1>1 DEF Closings, NewRunner, MustReplace, Uses, Goes
<1>2. ASSUME NEW t \in Threads, UseRunner(t) PROVE Closings'
  BY <1>2 DEF Closings, UseRunner, MustReplace, Uses, Goes, runnerVars
<1>3. ASSUME NEW t \in Threads, Start(t) PROVE Closings'
  <2>1. StartEffect(t)
    BY <1>3, StartView
  <2> QED
    BY <2>1 DEF RTypeOK, Closings, Stages, StartEffect, runnerVars
<1>4. ASSUME NEW t \in Threads, Ready(t) PROVE Closings'
  BY <1>4 DEF RTypeOK, Closings, Ready, Goes, Returns, runnerVars
<1>5. ASSUME NEW t \in Threads, Submit(t) PROVE Closings'
  <2>1. SubmitEffect(t)
    BY <1>5, SubmitView
  <2> QED
    BY <2>1, Kinds DEF RTypeOK, Closings, SubmitEffect, runnerVars, Adds
<1>6. ASSUME NEW t \in Threads, Result(t) PROVE Closings'
  BY <1>6 DEF Closings, Result, Goes, Returns, runnerVars
<1>7. ASSUME NEW t \in Threads, Shutdown(t) PROVE Closings'
  BY <1>7 DEF Closings, Shutdown, Goes, Uses, runnerVars
<1>8. ASSUME NEW t \in Threads, Request(t) PROVE Closings'
  <2>1. on[t] \in Runners
    BY <1>8 DEF RTypeOK, Request
  <2>2. CASE closed[on[t]] \/ closing[on[t]]
    BY <1>8, <2>1, <2>2 DEF RTypeOK, Closings, Request, Goes
  <2>3. CASE ~(closed[on[t]] \/ closing[on[t]])
    <3>1. closing' = [closing EXCEPT ![on[t]] = TRUE] /\ UNCHANGED <<phase, failed, queue, on>>
          /\ \A u \in Threads : pc'[u] = "stop" => pc[u] = "stop" \/ u = t
      BY <1>8, <2>3 DEF RTypeOK, Request, Goes
    <3>2. /\ closing'[on[t]] /\ \A s \in Runners : closing[s] => closing'[s]
          /\ \A u \in Threads : pc[u] = "stop" => on[u] \in Runners
      BY <2>1, <3>1 DEF RTypeOK
    <3> QED
      BY <3>1, <3>2 DEF Closings
  <2> QED
    BY <2>2, <2>3
<1>9. ASSUME NEW t \in Threads, MarkClosed(t) PROVE Closings'
  BY <1>9 DEF Closings, MarkClosed, CloseUnstarted, Goes
<1>10. ASSUME NEW t \in Threads, CallStop(t) PROVE Closings'
  <2>1. CallStopEffect(t)
    BY <1>10, CallStopView
  <2> QED
    BY <2>1, Kinds DEF RTypeOK, Closings, CallStopEffect, runnerVars, Adds
<1>11. ASSUME NEW t \in Threads, Stopped(t) PROVE Closings'
  BY <1>11 DEF Closings, Stopped, Goes, Returns, runnerVars
<1>12. ASSUME NEW t \in Threads, TimesOut(t) PROVE Closings'
  BY <1>12 DEF Closings, TimesOut, Goes, Returns, runnerVars
<1>13. ASSUME NEW t \in Threads, Ask(t) PROVE Closings'
  BY <1>13 DEF Closings, Ask, DeferStop, AtWork, callVars
<1>14. ASSUME NEW t \in Threads, TaskEnds(t) PROVE Closings'
  <2>1. TaskEndsEffect(t)
    BY <1>14, TaskEndsView
  <2>2. asked[t] => closing[on[t]]
    BY DEF Askers, Answered, Asker
  <2> QED
    BY <2>1, <2>2, Kinds DEF Closings, TaskEndsEffect, runnerVars, callVars, AddsEnd
<1>15. ASSUME NEW t \in Threads, TaskExits(t) PROVE Closings'
  <2>1. TaskExitsEffect(t)
    BY <1>15, TaskExitsView
  <2>2. asked[t] => closing[on[t]]
    BY DEF Askers, Answered, Asker
  <2> QED
    BY <2>1, <2>2, Kinds DEF RTypeOK, Closings, Stages, TaskExitsEffect, callVars,
           AddsEnd
<1>16. ASSUME NEW r \in Runners, LoopStarts(r) PROVE Closings'
  BY <1>16 DEF Closings, Stages, LoopStarts, callVars
<1>17. ASSUME NEW r \in Runners, LoopFails(r) PROVE Closings'
  BY <1>17 DEF RTypeOK, Closings, LoopFails, ReportFailure, callVars
<1>18. ASSUME NEW r \in Runners, StartTask(r) PROVE Closings'
  <2>1. PICK v \in Threads : StartTaskEffect(r, v)
    BY <1>18, StartTaskView
  <2> QED
    BY <2>1 DEF Closings, StartTaskEffect, runnerVars, callVars, Takes
<1>19. ASSUME NEW r \in Runners, CompleteFuture(r) PROVE Closings'
  <2>1. PICK v \in Threads : CompleteFutureEffect(r, v)
    BY <1>19, CompleteFutureView
  <2> QED
    BY <2>1 DEF Closings, CompleteFutureEffect, runnerVars, callVars, Takes
<1>20. ASSUME NEW r \in Runners, StopLoop(r) PROVE Closings'
  <2>1. StopLoopEffect(r)
    BY <1>20, StopLoopView
  <2> QED
    BY <2>1 DEF RTypeOK, Closings, Stages, StopLoopEffect, runnerVars, callVars, Takes
<1>21. ASSUME NEW r \in Runners, LastIteration(r) PROVE Closings'
  <2>1. LastIterationEffect(r)
    BY <1>21, LastIterationView
  <2> QED
    BY <2>1 DEF Closings, Stages, LastIterationEffect, runnerVars, callVars, Takes
<1>22. ASSUME NEW r \in Runners, CancelTasks(r) PROVE Closings'
  BY <1>22 DEF Closings, Stages, CancelTasks, CancelAll, runnerVars, callVars
<1>23. ASSUME NEW r \in Runners, TasksCancelled(r) PROVE Closings'
  <2>1. TasksCancelledEffect(r)
    BY <1>23, TasksCancelledView
  <2> QED
    BY <2>1, Kinds DEF RTypeOK, Closings, Stages, TasksCancelledEffect, runnerVars,
           callVars, Adds
<1>24. ASSUME NEW r \in Runners, CloseLoop(r) PROVE Closings'
  <2>1. CloseLoopEffect(r)
    BY <1>24, CloseLoopView
  <2>2. /\ UNCHANGED <<pc, on, closing, failed>>
        /\ phase[r] = "drained" /\ phase' = [phase EXCEPT ![r] = "closed"]
        /\ \A s \in Runners : \A c : In(queue'[s], c) => s # r /\ In(queue[s], c)
    BY <2>1 DEF CloseLoopEffect, runnerVars, callVars
  <2> QED
    BY <2>2 DEF Closings, Stages
<1>25. ASSUME NEW r \in Runners, ThreadEnds(r) PROVE Closings'
  <2>1. UNCHANGED <<queue, pc, on, failed>> /\ phase[r] = "closed"
    BY <1>25 DEF ThreadEnds, callVars
  <2>2. closing' = [closing EXCEPT ![r] = TRUE] /\ phase' = [phase EXCEPT ![r] = "done"]
    BY <1>25 DEF ThreadEnds
  <2>3. /\ \A s \in Runners : closing[s] => closing'[s]
        /\ \A s \in Runners : s # r => phase'[s] = phase[s]
        /\ closing'[r] /\ phase'[r] = "done"
    BY <2>2 DEF RTypeOK
  <2> QED
    BY <2>1, <2>3 DEF RTypeOK, Closings
<1> QED
  BY <1>1, <1>2, <1>3, <1>4, <1>5, <1>6, <1>7, <1>8, <1>9, <1>10, <1>11, <1>12,
     <1>13, <1>14, <1>15, <1>16, <1>17, <1>18, <1>19, <1>20, <1>21, <1>22, <1>23,
     <1>24, <1>25 DEF RNext, Caller, Coroutine, LoopThread

\* No stage of the end of the loop overtakes a coroutine that was in time.
LEMMA InOrderKept ==
  ASSUME RTypeOK, Owners, Places, Scheduled, Awaited, Closings, InOrder, RNext
  PROVE  InOrder'
<1>1. ASSUME NEW t \in Threads, NewRunner(t) PROVE InOrder'
  <2>2. ASSUME NEW u \in Threads PROVE Paced(u)'
    BY <1>1 DEF InOrder, Paced, InTime, NewRunner, MustReplace, Uses, Goes
  <2> QED
    BY <2>2 DEF InOrder
<1>2. ASSUME NEW t \in Threads, UseRunner(t) PROVE InOrder'
  <2>2. ASSUME NEW u \in Threads PROVE Paced(u)'
    BY <1>2 DEF InOrder, Paced, InTime, UseRunner, MustReplace, Uses, Goes, runnerVars
  <2> QED
    BY <2>2 DEF InOrder
<1>3. ASSUME NEW t \in Threads, Start(t) PROVE InOrder'
  <2>1. StartEffect(t)
    BY <1>3, StartView
  <2>2. ASSUME NEW u \in Threads PROVE Paced(u)'
    BY <2>1 DEF RTypeOK, InOrder, Paced, InTime, Stages, StartEffect, runnerVars
  <2> QED
    BY <2>2 DEF InOrder
<1>4. ASSUME NEW t \in Threads, Ready(t) PROVE InOrder'
  <2>2. ASSUME NEW u \in Threads PROVE Paced(u)'
    BY <1>4 DEF RTypeOK, InOrder, Paced, InTime, Ready, Goes, Returns, runnerVars
  <2> QED
    BY <2>2 DEF InOrder
<1>5. ASSUME NEW t \in Threads, Submit(t) PROVE InOrder'
  <2>1. SubmitEffect(t)
    BY <1>5, SubmitView
  <2>2. ASSUME NEW u \in Threads PROVE Paced(u)'
    <3>1. CASE pc' = [pc EXCEPT ![t] = "idle"] /\ UNCHANGED <<queue, task, late>>
      BY <2>1, <3>1 DEF InOrder, Paced, InTime, SubmitEffect, runnerVars
    <3>2. CASE ~(pc' = [pc EXCEPT ![t] = "idle"] /\ UNCHANGED <<queue, task, late>>) /\ u = t
      <4>1. /\ pc[t] = "submit" /\ on[t] \in Runners /\ UNCHANGED <<phase, on, failed>>
            /\ task' = [task EXCEPT ![t] = "submitted"] /\ Adds(on[t], StartOf(t))
            /\ ~late'[t] => phase[on[t]] = "running" /\ ~In(queue[on[t]], StopCall)
        BY <2>1, <3>2 DEF RTypeOK, SubmitEffect, runnerVars
      <4>2. ~late'[t] => ~In(queue'[on[t]], StopCall)
        BY <4>1, Kinds DEF Adds
      <4>3. ~late'[t] => Ahead(queue'[on[t]], StartOf(t), StopCall)
        BY <4>1, <4>2 DEF Adds
      <4>4. task'[t] = "submitted"
        BY <4>1 DEF RTypeOK
      <4> QED
        BY <3>2, <4>1, <4>3, <4>4 DEF Paced, InTime
    <3>3. CASE ~(pc' = [pc EXCEPT ![t] = "idle"] /\ UNCHANGED <<queue, task, late>>) /\ u # t
      <4>1. /\ UNCHANGED <<phase, on, failed>> /\ Adds(on[t], StartOf(t))
            /\ task'[u] = task[u] /\ late'[u] = late[u] /\ pc'[u] = pc[u]
        BY <2>1, <3>3 DEF RTypeOK, SubmitEffect, runnerVars
      <4>2. pc[u] = "result" => on[u] \in Runners
        BY DEF RTypeOK
      <4>3. \A s \in Runners :
              /\ Ahead(queue[s], StartOf(u), StopCall) => Ahead(queue'[s], StartOf(u), StopCall)
              /\ Ahead(queue[s], DoneOf(u), LastCall) => Ahead(queue'[s], DoneOf(u), LastCall)
        BY <4>1, Kinds DEF Adds
      <4> QED
        BY <4>1, <4>2, <4>3 DEF InOrder, Paced, InTime
    <3> QED
      BY <2>1, <3>1, <3>2, <3>3 DEF SubmitEffect
  <2> QED
    BY <2>2 DEF InOrder
<1>6. ASSUME NEW t \in Threads, Result(t) PROVE InOrder'
  <2>2. ASSUME NEW u \in Threads PROVE Paced(u)'
    BY <1>6 DEF InOrder, Paced, InTime, Result, Goes, Returns, runnerVars
  <2> QED
    BY <2>2 DEF InOrder
<1>7. ASSUME NEW t \in Threads, Shutdown(t) PROVE InOrder'
  <2>2. ASSUME NEW u \in Threads PROVE Paced(u)'
    BY <1>7 DEF InOrder, Paced, InTime, Shutdown, Goes, Uses, runnerVars
  <2> QED
    BY <2>2 DEF InOrder
<1>8. ASSUME NEW t \in Threads, Request(t) PROVE InOrder'
  <2>2. ASSUME NEW u \in Threads PROVE Paced(u)'
    BY <1>8 DEF RTypeOK, InOrder, Paced, InTime, Request, Goes
  <2> QED
    BY <2>2 DEF InOrder
<1>9. ASSUME NEW t \in Threads, MarkClosed(t) PROVE InOrder'
  <2>2. ASSUME NEW u \in Threads PROVE Paced(u)'
    BY <1>9 DEF InOrder, Paced, InTime, MarkClosed, CloseUnstarted, Goes
  <2> QED
    BY <2>2 DEF InOrder
<1>10. ASSUME NEW t \in Threads, CallStop(t) PROVE InOrder'
  <2>1. CallStopEffect(t)
    BY <1>10, CallStopView
  <2>2. ASSUME NEW u \in Threads PROVE Paced(u)'
    BY <2>1 DEF RTypeOK, Awaited, Attended, InOrder, Paced, InTime, CallStopEffect,
           runnerVars, Adds
  <2> QED
    BY <2>2 DEF InOrder
<1>11. ASSUME NEW t \in Threads, Stopped(t) PROVE InOrder'
  <2>2. ASSUME NEW u \in Threads PROVE Paced(u)'
    BY <1>11 DEF InOrder, Paced, InTime, Stopped, Goes, Returns, runnerVars
  <2> QED
    BY <2>2 DEF InOrder
<1>12. ASSUME NEW t \in Threads, TimesOut(t) PROVE InOrder'
  <2>2. ASSUME NEW u \in Threads PROVE Paced(u)'
    BY <1>12 DEF InOrder, Paced, InTime, TimesOut, Goes, Returns, runnerVars
  <2> QED
    BY <2>2 DEF InOrder
<1>13. ASSUME NEW t \in Threads, Ask(t) PROVE InOrder'
  <2>2. ASSUME NEW u \in Threads PROVE Paced(u)'
    BY <1>13 DEF InOrder, Paced, InTime, Ask, DeferStop, AtWork, callVars
  <2> QED
    BY <2>2 DEF InOrder
<1>14. ASSUME NEW t \in Threads, TaskEnds(t) PROVE InOrder'
  <2>1. TaskEndsEffect(t)
    BY <1>14, TaskEndsView
  <2>2. UNCHANGED <<phase, on, failed, pc, late>> /\ AddsEnd(t) /\ on[t] \in Runners
    BY <2>1 DEF TaskEndsEffect, runnerVars, callVars
  <2>3. ASSUME NEW u \in Threads, InTime(u) PROVE Paced(u)'
    <3>1. CASE u = t
      <4>1. task'[t] \in {"ended", "dropped"} /\ task[t] \in {"running", "cancelling"}
            /\ phase[on[t]] \in Running /\ on[t] \in Runners
        BY <2>1 DEF RTypeOK, TaskEndsEffect
      <4>2. phase[on[t]] \notin {"closing", "drained", "closed", "done"}
        BY <2>3, <3>1, <4>1 DEF InOrder, Paced, Stages
      <4> QED
        BY <2>2, <3>1, <4>1, <4>2 DEF Paced
    <3>2. CASE u # t
      <4>1. task'[u] = task[u] /\ on[u] \in Runners /\ pc[u] = "result"
        BY <2>1, <2>3, <3>2 DEF RTypeOK, TaskEndsEffect, InTime
      <4>2. phase[on[u]] = "running" /\ task[u] = "submitted" => In(queue[on[u]], StartOf(u))
        BY <4>1 DEF Awaited, Attended, LoopClosed
      <4>3. /\ In(queue[on[u]], StartOf(u)) /\ Ahead(queue[on[u]], StartOf(u), StopCall)
                 => Ahead(queue'[on[u]], StartOf(u), StopCall)
            /\ Ahead(queue[on[u]], DoneOf(u), LastCall) => Ahead(queue'[on[u]], DoneOf(u), LastCall)
        BY <2>2, <4>1, Kinds DEF AddsEnd
      <4> QED
        BY <2>2, <2>3, <4>1, <4>2, <4>3 DEF InOrder, Paced
    <3> QED
      BY <3>1, <3>2
  <2> QED
    BY <2>2, <2>3 DEF InOrder, Paced, InTime
<1>15. ASSUME NEW t \in Threads, TaskExits(t) PROVE InOrder'
  <2>1. TaskExitsEffect(t)
    BY <1>15, TaskExitsView
  <2>2. ASSUME NEW u \in Threads PROVE Paced(u)'
    BY <2>1, Kinds DEF RTypeOK, Awaited, InOrder, Paced, InTime, Stages,
           TaskExitsEffect, callVars, AddsEnd
  <2> QED
    BY <2>2 DEF InOrder
<1>16. ASSUME NEW r \in Runners, LoopStarts(r) PROVE InOrder'
  <2>2. ASSUME NEW u \in Threads PROVE Paced(u)'
    BY <1>16 DEF InOrder, Paced, InTime, Stages, LoopStarts, callVars
  <2> QED
    BY <2>2 DEF InOrder
<1>17. ASSUME NEW r \in Runners, LoopFails(r) PROVE InOrder'
  <2>2. ASSUME NEW u \in Threads PROVE Paced(u)'
    BY <1>17 DEF Places, InOrder, Paced, InTime, LoopFails, ReportFailure, callVars
  <2> QED
    BY <2>2 DEF InOrder
<1>18. ASSUME NEW r \in Runners, StartTask(r) PROVE InOrder'
  <2>1. PICK v \in Threads : StartTaskEffect(r, v)
    BY <1>18, StartTaskView
  <2>2. ASSUME NEW u \in Threads PROVE Paced(u)'
    BY <2>1, Kinds DEF RTypeOK, InOrder, Paced, InTime, Stages, StartTaskEffect,
           runnerVars, callVars, Takes
  <2> QED
    BY <2>2 DEF InOrder
<1>19. ASSUME NEW r \in Runners, CompleteFuture(r) PROVE InOrder'
  <2>1. PICK v \in Threads : CompleteFutureEffect(r, v)
    BY <1>19, CompleteFutureView
  <2>2. UNCHANGED <<phase, on, failed, pc, late>> /\ Takes(r, DoneOf(v)) /\ v \in Threads /\ on[v] = r
    BY <2>1 DEF CompleteFutureEffect, runnerVars, callVars
  <2>3. ASSUME NEW u \in Threads, InTime(u) PROVE Paced(u)'
    <3>1. on[u] \in Runners /\ pc[u] = "result"
      BY <2>3 DEF RTypeOK, InTime
    <3>2. CASE u = v
      <4>1. \/ task[v] = "ended" /\ task'[v] = "returned"
            \/ task[v] = "dropped" /\ task'[v] = "cancelled"
            \/ task[v] = "exiting" /\ task'[v] = "exited"
        BY <2>1 DEF RTypeOK, CompleteFutureEffect
      <4> QED
        BY <2>2, <2>3, <3>2, <4>1 DEF InOrder, Paced, Over
    <3>3. CASE u # v
      <4>1. task'[u] = task[u]
        BY <2>1, <3>3 DEF RTypeOK, CompleteFutureEffect
      <4>2. /\ Ahead(queue[on[u]], StartOf(u), StopCall) => Ahead(queue'[on[u]], StartOf(u), StopCall)
            /\ Ahead(queue[on[u]], DoneOf(u), LastCall) => Ahead(queue'[on[u]], DoneOf(u), LastCall)
        BY <2>2, <3>1, <3>3, Kinds DEF Takes
      <4> QED
        BY <2>2, <2>3, <4>1, <4>2 DEF InOrder, Paced
    <3> QED
      BY <3>2, <3>3
  <2> QED
    BY <2>2, <2>3 DEF InOrder, Paced, InTime
<1>20. ASSUME NEW r \in Runners, StopLoop(r) PROVE InOrder'
  <2>1. StopLoopEffect(r)
    BY <1>20, StopLoopView
  <2>2. ASSUME NEW u \in Threads PROVE Paced(u)'
    BY <2>1, Kinds DEF RTypeOK, InOrder, Paced, InTime, Stages, StopLoopEffect,
           runnerVars, callVars, Takes
  <2> QED
    BY <2>2 DEF InOrder
<1>21. ASSUME NEW r \in Runners, LastIteration(r) PROVE InOrder'
  <2>1. LastIterationEffect(r)
    BY <1>21, LastIterationView
  <2>2. ASSUME NEW u \in Threads PROVE Paced(u)'
    BY <2>1 DEF RTypeOK, Places, Closings, InOrder, Paced, InTime, Stages, Over,
           LastIterationEffect, runnerVars, callVars, Takes
  <2> QED
    BY <2>2 DEF InOrder
<1>22. ASSUME NEW r \in Runners, CancelTasks(r) PROVE InOrder'
  <2>2. ASSUME NEW u \in Threads PROVE Paced(u)'
    BY <1>22 DEF InOrder, Paced, InTime, CancelTasks, CancelAll, runnerVars, callVars
  <2> QED
    BY <2>2 DEF InOrder
<1>23. ASSUME NEW r \in Runners, TasksCancelled(r) PROVE InOrder'
  <2>1. TasksCancelledEffect(r)
    BY <1>23, TasksCancelledView
  <2>2. UNCHANGED <<on, failed, pc, late, task>> /\ Adds(r, LastCall)
    BY <2>1 DEF TasksCancelledEffect, runnerVars, callVars
  <2>3. /\ phase[r] = "cancelling" /\ phase'[r] = "closing"
        /\ \A s \in Runners : s # r => phase'[s] = phase[s]
        /\ \A t \in Threads : on[t] = r => task[t] # "cancelling"
    BY <2>1 DEF RTypeOK, TasksCancelledEffect
  <2>4. ASSUME NEW u \in Threads, InTime(u) PROVE Paced(u)'
    <3>1. on[u] \in Runners /\ pc[u] = "result"
      BY <2>4 DEF RTypeOK, InTime
    <3>2. CASE on[u] = r
      <4>1. task[u] \in Over => In(queue[r], DoneOf(u))
        BY <2>3, <3>1, <3>2 DEF Awaited, Attended, LoopClosed
      <4>2. Ahead(queue[r], DoneOf(u), LastCall)
        BY <2>3, Absent DEF RTypeOK, Closings
      <4>3. task[u] \in Over => Ahead(queue'[r], DoneOf(u), LastCall)
        BY <2>2, <4>1, <4>2 DEF Adds
      <4> QED
        BY <2>2, <2>3, <2>4, <3>2, <4>3 DEF InOrder, Paced, Stages
    <3>3. CASE on[u] # r
      <4>1. /\ Ahead(queue[on[u]], StartOf(u), StopCall) => Ahead(queue'[on[u]], StartOf(u), StopCall)
            /\ Ahead(queue[on[u]], DoneOf(u), LastCall) => Ahead(queue'[on[u]], DoneOf(u), LastCall)
        BY <2>2, <3>1, <3>3 DEF Adds
      <4> QED
        BY <2>2, <2>3, <2>4, <3>1, <3>3, <4>1 DEF InOrder, Paced
    <3> QED
      BY <3>2, <3>3
  <2> QED
    BY <2>2, <2>4 DEF InOrder, Paced, InTime
<1>24. ASSUME NEW r \in Runners, CloseLoop(r) PROVE InOrder'
  <2>1. CloseLoopEffect(r)
    BY <1>24, CloseLoopView
  <2>2. ASSUME NEW u \in Threads PROVE Paced(u)'
    BY <2>1 DEF RTypeOK, InOrder, Paced, InTime, CloseLoopEffect, runnerVars, callVars
  <2> QED
    BY <2>2 DEF InOrder
<1>25. ASSUME NEW r \in Runners, ThreadEnds(r) PROVE InOrder'
  <2>2. ASSUME NEW u \in Threads PROVE Paced(u)'
    BY <1>25 DEF InOrder, Paced, InTime, ThreadEnds, ForgetLoop, callVars
  <2> QED
    BY <2>2 DEF InOrder
<1> QED
  BY <1>1, <1>2, <1>3, <1>4, <1>5, <1>6, <1>7, <1>8, <1>9, <1>10, <1>11, <1>12,
     <1>13, <1>14, <1>15, <1>16, <1>17, <1>18, <1>19, <1>20, <1>21, <1>22, <1>23,
     <1>24, <1>25 DEF RNext, Caller, Coroutine, LoopThread

\* While a coroutine has asked for the shutdown nobody else stops its loop.
LEMMA AskersKept ==
  ASSUME RTypeOK, Owners, Places, Scheduled, Closings, Askers, RNext
  PROVE  Askers'
<1>1. ASSUME NEW t \in Threads, NewRunner(t) PROVE Askers'
  <2>2. ASSUME NEW u \in Threads PROVE Answered(u)'
    BY <1>1 DEF RTypeOK, Askers, Answered, Asker, NewRunner, MustReplace, Uses, Goes
  <2> QED
    BY <2>2 DEF Askers
<1>2. ASSUME NEW t \in Threads, UseRunner(t) PROVE Askers'
  <2>2. ASSUME NEW u \in Threads PROVE Answered(u)'
    BY <1>2 DEF RTypeOK, Askers, Answered, Asker, UseRunner, MustReplace, Uses,
           Goes, runnerVars
  <2> QED
    BY <2>2 DEF Askers
<1>3. ASSUME NEW t \in Threads, Start(t) PROVE Askers'
  <2>1. StartEffect(t)
    BY <1>3, StartView
  <2>2. ASSUME NEW u \in Threads PROVE Answered(u)'
    BY <2>1, Kinds DEF RTypeOK, Askers, Answered, Asker, StartEffect, runnerVars
  <2> QED
    BY <2>2 DEF Askers
<1>4. ASSUME NEW t \in Threads, Ready(t) PROVE Askers'
  <2>2. ASSUME NEW u \in Threads PROVE Answered(u)'
    BY <1>4 DEF RTypeOK, Askers, Answered, Asker, Running, Ready, Goes, Returns,
           runnerVars
  <2> QED
    BY <2>2 DEF Askers
<1>5. ASSUME NEW t \in Threads, Submit(t) PROVE Askers'
  <2>1. SubmitEffect(t)
    BY <1>5, SubmitView
  <2>2. ASSUME NEW u \in Threads PROVE Answered(u)'
    BY <2>1, Kinds DEF RTypeOK, Askers, Answered, Asker, SubmitEffect, runnerVars, Adds
  <2> QED
    BY <2>2 DEF Askers
<1>6. ASSUME NEW t \in Threads, Result(t) PROVE Askers'
  <2>2. ASSUME NEW u \in Threads PROVE Answered(u)'
    BY <1>6 DEF Askers, Answered, Asker, Result, Goes, Returns, runnerVars
  <2> QED
    BY <2>2 DEF Askers
<1>7. ASSUME NEW t \in Threads, Shutdown(t) PROVE Askers'
  <2>2. ASSUME NEW u \in Threads PROVE Answered(u)'
    BY <1>7 DEF RTypeOK, Askers, Answered, Asker, Shutdown, Goes, Uses, runnerVars
  <2> QED
    BY <2>2 DEF Askers
<1>8. ASSUME NEW t \in Threads, Request(t) PROVE Askers'
  <2>1. pc[t] = "request" /\ UNCHANGED <<dispatch, created, phase, loop, ready, stopped, closed, failed,
                                         queue, on, task, asked, late>>
    BY <1>8 DEF Request
  <2>2. \A s \in Runners : closing[s] => closing'[s]
    <3>1. closing' = closing \/ closing' = [closing EXCEPT ![on[t]] = TRUE]
      BY <1>8 DEF Request
    <3> QED
      BY <3>1 DEF RTypeOK
  <2>3. /\ \A u \in Threads : u # t => pc'[u] = pc[u]
        /\ pc'[t] = "stop" => ~closing[on[t]]
    BY <1>8 DEF RTypeOK, Request, Goes
  <2>4. ASSUME NEW u \in Threads, asked[u] PROVE Asker(u)'
    <3>1. Asker(u)
      BY <2>4 DEF Askers, Answered
    <3>2. u # t /\ pc'[u] = pc[u] /\ on[u] \in Runners
      BY <2>1, <2>3, <3>1 DEF RTypeOK, Asker
    <3>3. \A v \in Threads : pc'[v] = "stop" => on[v] # on[u]
      BY <2>3, <3>1 DEF Asker
    <3> QED
      BY <2>1, <2>2, <3>1, <3>2, <3>3 DEF Asker
  <2> QED
    BY <2>1, <2>4 DEF Askers, Answered
<1>9. ASSUME NEW t \in Threads, MarkClosed(t) PROVE Askers'
  <2>2. ASSUME NEW u \in Threads PROVE Answered(u)'
    BY <1>9 DEF Askers, Answered, Asker, MarkClosed, CloseUnstarted, Goes
  <2> QED
    BY <2>2 DEF Askers
<1>10. ASSUME NEW t \in Threads, CallStop(t) PROVE Askers'
  <2>1. CallStopEffect(t)
    BY <1>10, CallStopView
  <2>2. /\ pc[t] = "stop" /\ UNCHANGED <<runnerVars, phase, on, task, asked, late>>
        /\ pc' = [pc EXCEPT ![t] = "idle"] \/ pc' = [pc EXCEPT ![t] = "waiting"]
    BY <2>1 DEF CallStopEffect
  <2>3. \A u \in Threads : u # t => pc'[u] = pc[u]
    BY <2>2 DEF RTypeOK
  <2>4. pc'[t] # "stop"
    BY <2>2 DEF RTypeOK
  <2>5. ASSUME NEW u \in Threads, asked[u] PROVE Asker(u)'
    <3>1. Asker(u) /\ on[u] \in Runners
      BY <2>5 DEF RTypeOK, Askers, Answered, Asker
    <3>2. on[t] # on[u] /\ u # t /\ pc'[u] = pc[u]
      BY <2>2, <2>3, <3>1 DEF Asker
    <3>3. /\ In(queue'[on[u]], StopCall) => In(queue[on[u]], StopCall)
          /\ Ahead(queue[on[u]], DoneOf(u), StopCall) => Ahead(queue'[on[u]], DoneOf(u), StopCall)
      BY <2>1, <3>1, <3>2 DEF CallStopEffect, Adds
    <3> QED
      BY <2>2, <2>3, <2>4, <3>1, <3>2, <3>3 DEF Asker, runnerVars
  <2> QED
    BY <2>2, <2>5 DEF Askers, Answered
<1>11. ASSUME NEW t \in Threads, Stopped(t) PROVE Askers'
  <2>2. ASSUME NEW u \in Threads PROVE Answered(u)'
    BY <1>11 DEF Askers, Answered, Asker, Stopped, Goes, Returns, runnerVars
  <2> QED
    BY <2>2 DEF Askers
<1>12. ASSUME NEW t \in Threads, TimesOut(t) PROVE Askers'
  <2>2. ASSUME NEW u \in Threads PROVE Answered(u)'
    BY <1>12 DEF Askers, Answered, Asker, TimesOut, Goes, Returns, runnerVars
  <2> QED
    BY <2>2 DEF Askers
<1>13. ASSUME NEW t \in Threads, Ask(t) PROVE Askers'
  <2>1. /\ UNCHANGED <<dispatch, created, phase, loop, ready, stopped, closed, failed, queue, task, pc, on, late>>
        /\ task[t] \in {"running", "cancelling"} /\ phase[on[t]] \in Running
        /\ ~closing[on[t]] /\ closing' = [closing EXCEPT ![on[t]] = TRUE]
        /\ asked' = [asked EXCEPT ![t] = TRUE]
    BY <1>13 DEF Ask, DeferStop, AtWork, callVars
  <2>2. pc[t] = "result" /\ on[t] \in created /\ on[t] \in Runners
    BY <2>1 DEF RTypeOK, Places
  <2>3. /\ \A s \in Runners : closing[s] => closing'[s]
        /\ closing'[on[t]] /\ asked'[t] /\ \A u \in Threads : u # t => asked'[u] = asked[u]
    BY <2>1, <2>2 DEF RTypeOK
  <2>4. \A u \in Threads : asked[u] => on[u] # on[t]
    BY <2>1 DEF Askers, Answered, Asker
  <2>5. ASSUME NEW u \in Threads, u # t, asked[u] PROVE Asker(u)'
    <3>1. Asker(u) /\ on[u] \in Runners /\ on[u] # on[t]
      BY <2>4, <2>5 DEF RTypeOK, Askers, Answered, Asker
    <3> QED
      BY <2>1, <2>3, <3>1 DEF Asker
  <2>6. Asker(t)'
    <3>1. \A u \in Threads : pc[u] = "stop" => on[u] # on[t]
      BY <2>1 DEF Closings
    <3>2. \A u \in Threads : asked'[u] /\ on[u] = on[t] => u = t
      BY <2>3, <2>4
    <3>3. ~failed[on[t]] => phase[on[t]] = "running" /\ task[t] = "running" /\ ~In(queue[on[t]], StopCall)
      BY <2>1, <2>2 DEF Closings, Stages, Running, Places
    <3>4. phase[on[t]] \notin {"none", "starting"}
      BY <2>1 DEF Running
    <3> QED
      BY <2>1, <2>2, <2>3, <3>1, <3>2, <3>3, <3>4 DEF Asker
  <2> QED
    BY <2>3, <2>5, <2>6 DEF Askers, Answered
<1>14. ASSUME NEW t \in Threads, TaskEnds(t) PROVE Askers'
  <2>1. TaskEndsEffect(t)
    BY <1>14, TaskEndsView
  <2>2. ASSUME NEW u \in Threads PROVE Answered(u)'
    BY <2>1, Kinds DEF RTypeOK, Askers, Answered, Asker, TaskEndsEffect, runnerVars,
           callVars, AddsEnd
  <2> QED
    BY <2>2 DEF Askers
<1>15. ASSUME NEW t \in Threads, TaskExits(t) PROVE Askers'
  <2>1. TaskExitsEffect(t)
    BY <1>15, TaskExitsView
  <2>2. ASSUME NEW u \in Threads PROVE Answered(u)'
    BY <2>1, Kinds DEF RTypeOK, Askers, Answered, Asker, TaskExitsEffect, callVars,
           AddsEnd
  <2> QED
    BY <2>2 DEF Askers
<1>16. ASSUME NEW r \in Runners, LoopStarts(r) PROVE Askers'
  <2>2. ASSUME NEW u \in Threads PROVE Answered(u)'
    BY <1>16 DEF Askers, Answered, Asker, LoopStarts, callVars
  <2> QED
    BY <2>2 DEF Askers
<1>17. ASSUME NEW r \in Runners, LoopFails(r) PROVE Askers'
  <2>2. ASSUME NEW u \in Threads PROVE Answered(u)'
    BY <1>17 DEF Askers, Answered, Asker, LoopFails, ReportFailure, callVars
  <2> QED
    BY <2>2 DEF Askers
<1>18. ASSUME NEW r \in Runners, StartTask(r) PROVE Askers'
  <2>1. PICK v \in Threads : StartTaskEffect(r, v)
    BY <1>18, StartTaskView
  <2>2. ASSUME NEW u \in Threads PROVE Answered(u)'
    BY <2>1, Kinds DEF RTypeOK, Askers, Answered, Asker, StartTaskEffect,
           runnerVars, callVars, Takes
  <2> QED
    BY <2>2 DEF Askers
<1>19. ASSUME NEW r \in Runners, CompleteFuture(r) PROVE Askers'
  <2>1. PICK v \in Threads : CompleteFutureEffect(r, v)
    BY <1>19, CompleteFutureView
  <2>2. ASSUME NEW u \in Threads PROVE Answered(u)'
    BY <2>1, Kinds DEF RTypeOK, Askers, Answered, Asker, CompleteFutureEffect,
           runnerVars, callVars, Takes
  <2> QED
    BY <2>2 DEF Askers
<1>20. ASSUME NEW r \in Runners, StopLoop(r) PROVE Askers'
  <2>1. StopLoopEffect(r)
    BY <1>20, StopLoopView
  <2>2. ASSUME NEW u \in Threads PROVE Answered(u)'
    BY <2>1 DEF RTypeOK, Askers, Answered, Asker, StopLoopEffect, runnerVars,
           callVars, Takes
  <2> QED
    BY <2>2 DEF Askers
<1>21. ASSUME NEW r \in Runners, LastIteration(r) PROVE Askers'
  <2>1. LastIterationEffect(r)
    BY <1>21, LastIterationView
  <2>2. ASSUME NEW u \in Threads PROVE Answered(u)'
    BY <2>1 DEF RTypeOK, Closings, Askers, Answered, Asker, LastIterationEffect,
           runnerVars, callVars, Takes
  <2> QED
    BY <2>2 DEF Askers
<1>22. ASSUME NEW r \in Runners, CancelTasks(r) PROVE Askers'
  <2>2. ASSUME NEW u \in Threads PROVE Answered(u)'
    BY <1>22 DEF Askers, Answered, Asker, CancelTasks, CancelAll, runnerVars, callVars
  <2> QED
    BY <2>2 DEF Askers
<1>23. ASSUME NEW r \in Runners, TasksCancelled(r) PROVE Askers'
  <2>1. TasksCancelledEffect(r)
    BY <1>23, TasksCancelledView
  <2>2. ASSUME NEW u \in Threads PROVE Answered(u)'
    BY <2>1 DEF RTypeOK, Askers, Answered, Asker, TasksCancelledEffect, runnerVars,
           callVars, Adds
  <2> QED
    BY <2>2 DEF Askers
<1>24. ASSUME NEW r \in Runners, CloseLoop(r) PROVE Askers'
  <2>1. CloseLoopEffect(r)
    BY <1>24, CloseLoopView
  <2>2. ASSUME NEW u \in Threads PROVE Answered(u)'
    BY <2>1 DEF RTypeOK, Askers, Answered, Asker, CloseLoopEffect, runnerVars, callVars
  <2> QED
    BY <2>2 DEF Askers
<1>25. ASSUME NEW r \in Runners, ThreadEnds(r) PROVE Askers'
  <2>2. ASSUME NEW u \in Threads PROVE Answered(u)'
    BY <1>25 DEF Askers, Answered, Asker, ThreadEnds, ForgetLoop, callVars
  <2> QED
    BY <2>2 DEF Askers
<1> QED
  BY <1>1, <1>2, <1>3, <1>4, <1>5, <1>6, <1>7, <1>8, <1>9, <1>10, <1>11, <1>12,
     <1>13, <1>14, <1>15, <1>16, <1>17, <1>18, <1>19, <1>20, <1>21, <1>22, <1>23,
     <1>24, <1>25 DEF RNext, Caller, Coroutine, LoopThread

----------------------------------------------------------------------------
(* The invariant and the theorems.                                          *)

\* The parts of the invariant hold before anything was called.
LEMMA RunnerInit == RInit => RInv
<1> SUFFICES ASSUME RInit PROVE RInv
  OBVIOUS
<1>1. RTypeOK
  BY RunnerAssumption DEF RInit, RTypeOK, HasLoop
<1>2. \A r \in Runners : queue[r] = <<>>
  BY DEF RInit
<1>3. Scheduled
  BY <1>2, Emptied DEF Scheduled, Slot
<1>4. Closings
  BY <1>2, Emptied DEF RInit, Closings, Stages
<1>5. Owners /\ Places /\ Awaited /\ InOrder /\ Askers
  BY DEF RInit, Owners, Places, Awaited, Attended, InOrder, Paced, InTime, Askers,
         Answered
<1> QED
  BY <1>1, <1>3, <1>4, <1>5 DEF RInv

\* Every step preserves all of them, each from the ones before the step.
LEMMA RunnerStep == RInv /\ [RNext]_rvars => RInv'
<1> SUFFICES ASSUME RInv, [RNext]_rvars PROVE RInv'
  OBVIOUS
<1>1. CASE RNext
  BY <1>1, TypesKept, OwnersKept, PlacesKept, ScheduledKept, AwaitedKept, ClosingsKept,
     InOrderKept, AskersKept DEF RInv
<1>2. CASE UNCHANGED rvars
  <2>1. UNCHANGED <<dispatch, created, phase, loop, ready, stopped, closing, closed,
                    failed, queue, pc, on, task, asked, late>>
    BY <1>2 DEF rvars
  <2>2. RTypeOK' /\ Owners' /\ Places'
    BY <2>1 DEF RInv, RTypeOK, HasLoop, Owners, Places
  <2>3. Scheduled' /\ Awaited' /\ Closings'
    BY <2>1 DEF RInv, Scheduled, Slot, Awaited, Attended, LoopClosed, Closings
  <2>4. InOrder' /\ Askers'
    BY <2>1 DEF RInv, InOrder, Paced, InTime, Askers, Answered, Asker
  <2> QED
    BY <2>2, <2>3, <2>4 DEF RInv
<1> QED
  BY <1>1, <1>2

\* The inductive invariant holds of the runner and its callers.
THEOREM RunnerInvariant == RSpec => []RInv
<1> QED
  BY RunnerInit, RunnerStep, PTL DEF RSpec

\* Types are kept, and a runner has a loop only while its thread lives.
THEOREM RunnerTypes == RSpec => []RTypeOK
<1>1. RInv => RTypeOK
  BY DEF RInv
<1> QED
  BY <1>1, RunnerInvariant, PTL

\* get_dispatch_runner() replaces a runner only after its loop is gone, so that
\* two event loops never run side by side, unless one was closed unstarted.
THEOREM LoopsNeverOverlap == RSpec => []OneLiveLoop
<1>1. RInv => OneLiveLoop
  <2> SUFFICES ASSUME RInv, NEW r \in Runners, NEW s \in Runners, HasLoop(r), HasLoop(s), r # s
               PROVE  Leaked(r) \/ Leaked(s)
    BY DEF OneLiveLoop
  <2>1. r \in created /\ s \in created /\ phase[r] # "done" /\ phase[s] # "done"
    BY DEF RInv, Owners, HasLoop, Running
  <2>2. closed[r] \/ closed[s]
    BY <2>1 DEF RInv, Owners
  <2> QED
    BY <2>1, <2>2 DEF Leaked
<1> QED
  BY <1>1, RunnerInvariant, PTL

\* A coroutine that reached the loop before it was told to stop has ended and
\* its caller's future is complete when the loop is closed; and the one that
\* asked for the shutdown is complete before the loop stops.
THEOREM AcceptedCoroutinesEnd == RSpec => []NothingForgotten
<1>1. RInv => AcceptedIsServed
  BY DEF RInv, AcceptedIsServed, InOrder, Paced, InTime, LoopClosed
<1>2. RInv => AskerIsServed
  BY DEF RInv, AskerIsServed, Askers, Answered, Asker
<1>3. RInv => NothingForgotten
  BY <1>1, <1>2 DEF NothingForgotten
<1> QED
  BY <1>3, RunnerInvariant, PTL
=============================================================================

--------------------------- MODULE Adapters_proofs ---------------------------
(***************************************************************************)
(* Proofs about the adapters' modules: OneBotListener, whose calls get     *)
(* their own answers; FeishuToken, whose tokens are handed out in time;    *)
(* FeishuEvents, whose callback takes an event once; MilkySend and         *)
(* FeishuSend, whose messages arrive whole; and all of them together.      *)
(***************************************************************************)
EXTENDS MCAdapters, LeastNumbers, FiniteSetTheorems

(***************************************************************************)
(* OneBotListener: for any calls, events, retries and handler threads.     *)
(***************************************************************************)
----------------------------------------------------------------------------
(* The invariants.                                                          *)

\* The mailbox of a call: only its own answer is ever put in, only the call
\* itself looks, and a call that is registered or woken has begun.
Boxes ==
  /\ contents \in [Calls -> Calls \union {NoValue}]
  /\ \A c \in Calls : contents[c] \in {c, NoValue}
  /\ got \in [Calls -> Calls \union {NoValue}]
  /\ \A c \in Calls : got[c] \in {c, NoValue}
  /\ pc \in [Calls -> Q!GetterLabels]
  /\ key \in [Calls -> Calls \union {NoKey}]
  /\ \A c \in Calls : key[c] = IF pc[c] = "idle" THEN NoKey ELSE c
  /\ waiters \in [Calls -> SUBSET Calls]
  /\ \A k \in Calls : \A c \in waiters[k] : pc[c] # "idle"
  /\ scheduled \subseteq Calls
  /\ \A c \in scheduled : pc[c] # "idle"

\* run() counts the refusals in a row, up to the one after its last retry.
Counted ==
  /\ refused \in Nat
  /\ IF lpc = "gaveUp" THEN refused = Retries + 1 ELSE retried = refused /\ refused <= Retries

----------------------------------------------------------------------------
(* The mailbox.                                                             *)

\* A call that finds a value in its box returns that value.
LEMMA ReturnOwn ==
  ASSUME Boxes, NEW c \in Calls, Q!Return(c, c), key' = [key EXCEPT ![c] = c]
  PROVE  Boxes'
<1>1. /\ contents' = [contents EXCEPT ![c] = NoValue]
      /\ got' = [got EXCEPT ![c] = contents[c]]
      /\ pc' = [pc EXCEPT ![c] = "returned"]
      /\ UNCHANGED <<waiters, scheduled>>
  BY DEF Q!Return, Q!Pop
<1>2. contents' \in [Calls -> Calls \union {NoValue}]
      /\ \A d \in Calls : contents'[d] \in {d, NoValue}
  BY <1>1 DEF Boxes
<1>3. got' \in [Calls -> Calls \union {NoValue}] /\ \A d \in Calls : got'[d] \in {d, NoValue}
  BY <1>1 DEF Boxes
<1>4. /\ pc' \in [Calls -> Q!GetterLabels] /\ pc'[c] = "returned"
      /\ \A d \in Calls \ {c} : pc'[d] = pc[d]
  BY <1>1 DEF Boxes, Q!GetterLabels
<1>5. /\ key' \in [Calls -> Calls \union {NoKey}]
      /\ \A d \in Calls : key'[d] = IF pc'[d] = "idle" THEN NoKey ELSE d
  BY <1>4 DEF Boxes
<1> QED
  BY <1>1, <1>2, <1>3, <1>4, <1>5 DEF Boxes

\* One that finds nothing waits, under its own echo.
LEMMA WaitOwn ==
  ASSUME Boxes, NEW c \in Calls, Q!Wait(c, c), key' = [key EXCEPT ![c] = c]
  PROVE  Boxes'
<1>1. /\ waiters' = [waiters EXCEPT ![c] = waiters[c] \union {c}]
      /\ pc' = [pc EXCEPT ![c] = "waiting"]
      /\ UNCHANGED <<contents, scheduled, got>>
  BY DEF Q!Wait, Q!Register
<1>2. /\ pc' \in [Calls -> Q!GetterLabels] /\ pc'[c] = "waiting"
      /\ \A d \in Calls \ {c} : pc'[d] = pc[d]
  BY <1>1 DEF Boxes, Q!GetterLabels
<1>3. /\ key' \in [Calls -> Calls \union {NoKey}]
      /\ \A d \in Calls : key'[d] = IF pc'[d] = "idle" THEN NoKey ELSE d
  BY <1>2 DEF Boxes
<1>4. waiters' \in [Calls -> SUBSET Calls]
      /\ \A k \in Calls : waiters'[k] \subseteq waiters[k] \union {c}
  BY <1>1 DEF Boxes
<1> QED
  BY <1>1, <1>2, <1>3, <1>4 DEF Boxes

\* A call whose wait is over leaves the others where they are.
LEMMA LeaveOwn ==
  ASSUME Boxes, NEW c \in Calls, pc[c] # "idle", NEW label \in Q!GetterLabels, label # "idle",
         pc' = [pc EXCEPT ![c] = label], scheduled' \subseteq scheduled,
         waiters' = waiters \/ waiters' = [waiters EXCEPT ![key[c]] = @ \ {c}],
         UNCHANGED <<contents, key, got>>
  PROVE  Boxes'
<1>1. /\ pc' \in [Calls -> Q!GetterLabels] /\ pc'[c] = label
      /\ \A d \in Calls \ {c} : pc'[d] = pc[d]
  BY DEF Boxes
<1>2. waiters' \in [Calls -> SUBSET Calls]
      /\ \A k \in Calls : waiters'[k] \subseteq waiters[k]
  BY DEF Boxes
<1> QED
  BY <1>1, <1>2 DEF Boxes

\* The answer that a handler thread puts is that of the echo it is put under.
LEMMA PutOwn ==
  ASSUME Boxes, NEW c \in Calls, Q!Put(c, c)
  PROVE  Boxes'
<1>1. /\ contents' = [Q!Expired EXCEPT ![c] = c]
      /\ pc' = [g \in Calls |-> IF g \in Q!Notified THEN "woken" ELSE pc[g]]
      /\ scheduled' = scheduled \union waiters[c]
      /\ UNCHANGED <<waiters, key, got>>
  BY DEF Q!Put, Q!Woken
<1>2. contents' \in [Calls -> Calls \union {NoValue}]
      /\ \A d \in Calls : contents'[d] \in {d, NoValue}
  BY <1>1 DEF Boxes, Q!Expired
<1>3. pc' = pc
  BY <1>1 DEF Boxes, Q!Notified, Q!InWaitSet
<1>4. scheduled' \subseteq Calls /\ \A d \in scheduled' : pc[d] # "idle"
  BY <1>1 DEF Boxes
<1> QED
  BY <1>1, <1>2, <1>3, <1>4 DEF Boxes

----------------------------------------------------------------------------
(* The steps.                                                               *)

\* A call awaits its answer, and the loop serves it, in the call's own box.
LEMMA CallsKeepBoxes ==
  ASSUME Boxes, NEW c \in Calls, AwaitAnswer(c) \/ GetsAnswer(c) \/ GivesUp(c)
  PROVE  Boxes'
<1>1. CASE AwaitAnswer(c)
  <2>1. key' = [key EXCEPT ![c] = c] /\ (Q!Return(c, c) \/ Q!Wait(c, c))
    BY <1>1 DEF AwaitAnswer, Q!Get
  <2> QED
    BY <2>1, ReturnOwn, WaitOwn
<1>2. CASE GetsAnswer(c)
  <2>1. CASE Q!Wake(c)
    <3>1. /\ c \in scheduled /\ pc' = [pc EXCEPT ![c] = "woken"]
          /\ scheduled' = scheduled \ {c} /\ UNCHANGED <<contents, waiters, key, got>>
      BY <2>1 DEF Q!Wake
    <3> QED
      BY <3>1, LeaveOwn DEF Boxes, Q!GetterLabels
  <2>2. CASE Q!Resume(c)
    <3>1. /\ pc[c] = "woken" /\ pc' = [pc EXCEPT ![c] = "checking"]
          /\ waiters' = [waiters EXCEPT ![key[c]] = @ \ {c}]
          /\ scheduled' = scheduled \ {c} /\ UNCHANGED <<contents, key, got>>
      BY <2>2 DEF Q!Resume, Q!Unregister
    <3> QED
      BY <3>1, LeaveOwn DEF Q!GetterLabels
  <2>3. CASE Q!CheckAgain(c)
    <3>1. /\ pc[c] = "checking" /\ key' = key
          /\ Q!Return(c, key[c]) \/ Q!Wait(c, key[c])
      BY <2>3 DEF Q!CheckAgain
    <3>2. key[c] = c /\ key' = [key EXCEPT ![c] = c]
      BY <3>1 DEF Boxes
    <3> QED
      BY <3>1, <3>2, ReturnOwn, WaitOwn
  <2>4. CASE Q!LastLook(c)
    <3>1. pc[c] = "late" /\ key' = key
      BY <2>4 DEF Q!LastLook
    <3>2. key[c] = c /\ key' = [key EXCEPT ![c] = c]
      BY <3>1 DEF Boxes
    <3>3. CASE Q!Return(c, key[c])
      BY <3>2, <3>3, ReturnOwn
    <3>4. CASE ~ Q!Return(c, key[c])
      <4>1. pc' = [pc EXCEPT ![c] = "timedOut"] /\ UNCHANGED <<contents, waiters, scheduled, got>>
        BY <2>4, <3>4 DEF Q!LastLook
      <4> QED
        BY <3>1, <4>1, LeaveOwn DEF Q!GetterLabels
    <3> QED
      BY <3>3, <3>4
  <2> QED
    BY <1>2, <2>1, <2>2, <2>3, <2>4 DEF GetsAnswer, Q!Deliver
<1>3. CASE GivesUp(c)
  <2>1. /\ pc[c] \in {"waiting", "woken"} /\ pc' = [pc EXCEPT ![c] = "timedOut"]
        /\ waiters' = [waiters EXCEPT ![key[c]] = @ \ {c}]
        /\ scheduled' = scheduled \ {c} /\ UNCHANGED <<contents, key, got>>
    BY <1>3 DEF GivesUp, Q!StopWaiting, Q!Unregister
  <2> QED
    BY <2>1, LeaveOwn DEF Q!GetterLabels
<1> QED
  BY <1>1, <1>2, <1>3

\* Everything but the calls and the answers leaves the mailbox alone.
LEMMA StepKeepsBoxes == Boxes /\ [LNext]_lvars => Boxes'
<1> SUFFICES ASSUME Boxes, [LNext]_lvars PROVE Boxes'
  OBVIOUS
<1>1. CASE UNCHANGED queueVars
  BY <1>1 DEF queueVars, Boxes
<1>2. ASSUME NEW c \in Calls, AwaitAnswer(c) \/ GetsAnswer(c) \/ GivesUp(c) PROVE Boxes'
  BY <1>2, CallsKeepBoxes
<1>3. ASSUME NEW c \in Calls, HandleAnswer(c) PROVE Boxes'
  BY <1>3, PutOwn DEF HandleAnswer, PutAnswer
<1>4. CASE UNCHANGED lvars
  BY <1>1, <1>4 DEF lvars
<1>5. CASE Run \/ Stop \/ ReadCell \/ Network
  BY <1>1, <1>5 DEF Run, Stop, ReadCell, Network, ConnectionLost, ServerSends
<1>6. CASE Listener
  BY <1>1, <1>6 DEF Listener, OuterLoop, Connect, Refused, ConnectRaises, InnerLoop, Receive,
     ReceiveFails
<1>7. ASSUME NEW c \in Calls, Send(c) PROVE Boxes'
  BY <1>1, <1>7 DEF Send
<1>8. ASSUME NEW e \in Events \union {Started}, HandleEvent(e) PROVE Boxes'
  BY <1>1, <1>8 DEF HandleEvent
<1> QED
  BY <1>2, <1>3, <1>4, <1>5, <1>6, <1>7, <1>8 DEF LNext, Handler

\* Only run() counts: one up for a refusal, back to nothing for a connection.
LEMMA StepKeepsCounted == Counted /\ [LNext]_lvars => Counted'
<1> SUFFICES ASSUME Counted, [LNext]_lvars PROVE Counted'
  OBVIOUS
<1>1. CASE UNCHANGED <<lpc, retried, refused>>
  BY <1>1 DEF Counted
<1>2. CASE UNCHANGED lvars
  BY <1>1, <1>2 DEF lvars, runVars
<1>3. CASE Run \/ OuterLoop \/ InnerLoop \/ Receive \/ ConnectRaises
  <2>1. lpc # "gaveUp" /\ lpc' # "gaveUp" /\ UNCHANGED <<retried, refused>>
    BY <1>3 DEF Run, OuterLoop, InnerLoop, Receive, ConnectRaises, Goto
  <2> QED
    BY <2>1 DEF Counted
<1>4. ASSUME NEW label \in {"looping", "raised"}, ReceiveFails(label) PROVE Counted'
  <2>1. lpc # "gaveUp" /\ lpc' # "gaveUp" /\ UNCHANGED <<retried, refused>>
    BY <1>4 DEF ReceiveFails, Goto
  <2> QED
    BY <2>1 DEF Counted
<1>5. CASE Connect
  <2>1. lpc' = "checking" /\ retried' = 0 /\ refused' = 0
    BY <1>5 DEF Connect, Goto, ResetCount
  <2> QED
    BY <2>1, OLAssumption DEF Counted
<1>6. CASE Refused
  <2>1. lpc = "connecting" /\ refused' = refused + 1
    BY <1>6 DEF Refused
  <2>2. retried = refused /\ refused <= Retries /\ refused \in Nat
    BY <2>1 DEF Counted
  <2>3. CASE retried >= Retries
    <3>1. lpc' = "gaveUp"
      BY <1>6, <2>3 DEF Refused, OutOfRetries, Goto
    <3> QED
      BY <2>1, <2>2, <2>3, <3>1, OLAssumption DEF Counted
  <2>4. CASE ~ (retried >= Retries)
    <3>1. lpc' = "looping" /\ retried' = retried + 1
      BY <1>6, <2>4 DEF Refused, OutOfRetries, Goto
    <3> QED
      BY <2>1, <2>2, <2>4, <3>1, OLAssumption DEF Counted
  <2> QED
    BY <2>3, <2>4
<1>7. CASE Stop \/ Handler \/ Network
  BY <1>1, <1>7 DEF Stop, Handler, ReadCell, HandleAnswer, HandleEvent, Finish, Network,
     ConnectionLost, ServerSends, runVars
<1>8. ASSUME NEW c \in Calls, Send(c) \/ AwaitAnswer(c) \/ GetsAnswer(c) \/ GivesUp(c)
      PROVE  Counted'
  BY <1>1, <1>8 DEF Send, AwaitAnswer, GetsAnswer, GivesUp, runVars
<1> QED
  BY <1>2, <1>3, <1>4, <1>5, <1>6, <1>7, <1>8 DEF LNext, Listener

----------------------------------------------------------------------------
(* The theorems.                                                            *)

\* A call of the API returns the answer to its own echo or none: the handler
\* threads that share run()'s variable may lose an answer or put it twice, but
\* never put it under another call's echo.
THEOREM AnswersAreOwn == LSpec => []OwnAnswer
<1>1. LInit => Boxes
  BY OLAssumption DEF LInit, Q!QInit, Boxes, Q!GetterLabels
<1>2. Boxes => OwnAnswer
  BY DEF Boxes, OwnAnswer
<1> QED
  BY <1>1, <1>2, StepKeepsBoxes, PTL DEF LSpec

\* run() gives up only after `retries` retries in a row: a connection made in
\* between starts the count again.
THEOREM RetriesAreUsedUp == LSpec => []GivesUpAfterRetries
<1>1. LInit => Counted
  BY OLAssumption DEF LInit, Counted
<1>2. Counted => GivesUpAfterRetries
  BY DEF Counted, GivesUpAfterRetries
<1> QED
  BY <1>1, <1>2, StepKeepsCounted, PTL DEF LSpec

----------------------------------------------------------------------------
(* The types: the threads that are alive are counted.                       *)

\* Every handler thread that is alive is counted; one that has not read run()'s
\* variable was started after it was set.
Alive ==
  /\ starting \in Nat /\ taken \in [Frames -> Nat]
  /\ IsFiniteSet(Holders) /\ Busy <= MaxThreads
  /\ cell \in Frames \union {NoValue} /\ (starting > 0 => cell # NoValue)

\* A frame has no more holders than there are threads.
LEMMA HoldersBound ==
  ASSUME Alive, NEW f \in Frames
  PROVE  taken[f] \in 0 .. MaxThreads /\ starting \in 0 .. MaxThreads
<1> DEFINE n == taken[f]
           h == [i \in 1 .. n |-> <<f, i>>]
<1>1. n \in Nat /\ starting \in Nat /\ IsFiniteSet(Holders) /\ Cardinality(Holders) \in Nat
  BY FS_CardinalityType DEF Alive
<1>2. h \in Injection(1 .. n, Holders)
  <2>1. \A i \in 1 .. n : h[i] \in Holders
    BY DEF Holders
  <2>2. \A i, j \in 1 .. n : h[i] = h[j] => i = j
    OBVIOUS
  <2> QED
    BY <2>1, <2>2 DEF Injection, IsInjective
<1>3. Cardinality(1 .. n) = n
  BY <1>1, FS_Interval
<1>4. Cardinality(1 .. n) <= Cardinality(Holders)
  BY <1>1, <1>2, FS_Injection
<1> QED
  BY <1>1, <1>3, <1>4, OLAssumption DEF Alive, Busy

\* A thread that reads the variable holds its frame.
LEMMA ReadCellKeepsAlive ==
  ASSUME Alive, ReadCell
  PROVE  Alive'
<1> DEFINE new == <<cell, taken[cell] + 1>>
<1>1. cell \in Frames /\ starting \in Nat /\ taken \in [Frames -> Nat] /\ taken[cell] \in Nat
  BY DEF Alive, ReadCell
<1>2. /\ starting' = starting - 1 /\ starting > 0
      /\ taken' = [taken EXCEPT ![cell] = @ + 1] /\ cell' = cell
  BY DEF ReadCell
<1>3. taken' \in [Frames -> Nat] /\ starting' \in Nat
  BY <1>1, <1>2
<1>4. Holders' = Holders \union {new} /\ new \notin Holders
  <2>1. taken[cell] + 1 \notin 1 .. taken[cell]
    BY <1>1
  <2>2. 1 .. taken'[cell] = (1 .. taken[cell]) \union {taken[cell] + 1}
    BY <1>1, <1>2
  <2>3. \A f \in Frames \ {cell} : taken'[f] = taken[f]
    BY <1>1, <1>2
  <2> HIDE <1>2
  <2>4. \A x : x \in Holders <=> \E f \in Frames : x \in {f} \X (1 .. taken[f])
    BY DEF Holders
  <2>5. \A x : x \in Holders' <=> \E f \in Frames : x \in {f} \X (1 .. taken'[f])
    BY <1>3 DEF Holders, Frames
  <2>6. {cell} \X (1 .. taken'[cell]) = ({cell} \X (1 .. taken[cell])) \union {new}
    BY <2>2
  <2>7. new \notin Holders
    <3>1. \A f \in Frames : new \notin {f} \X (1 .. taken[f])
      BY <2>1
    <3> QED
      BY <2>4, <3>1
  <2>8. \A x : x \in Holders' <=> x \in Holders \/ x = new
    BY <1>1, <2>3, <2>4, <2>5, <2>6
  <2> QED
    BY <2>7, <2>8
<1>5. IsFiniteSet(Holders) /\ Cardinality(Holders) \in Nat
  BY FS_CardinalityType DEF Alive
<1>6. IsFiniteSet(Holders') /\ Cardinality(Holders') = Cardinality(Holders) + 1
  BY <1>4, <1>5, FS_AddElement
<1>7. Busy' <= MaxThreads
  <2>1. starting + Cardinality(Holders) <= MaxThreads /\ MaxThreads \in Nat
    BY OLAssumption DEF Alive, Busy
  <2>2. starting' + Cardinality(Holders') = starting + Cardinality(Holders)
    BY <1>1, <1>2, <1>5, <1>6
  <2> QED
    BY <2>1, <2>2 DEF Busy
<1> QED
  BY <1>1, <1>2, <1>3, <1>6, <1>7 DEF Alive, Frames

\* One that returns holds it no more.
LEMMA FinishKeepsAlive ==
  ASSUME Alive, NEW g \in Frames, Finish(g)
  PROVE  Alive'
<1> DEFINE old == <<g, taken[g]>>
<1>1. starting \in Nat /\ taken \in [Frames -> Nat] /\ taken[g] \in Nat
  BY DEF Alive
<1>2. /\ taken[g] > 0 /\ taken' = [taken EXCEPT ![g] = @ - 1]
      /\ starting' = starting /\ cell' = cell
  BY DEF Finish
<1>3. taken' \in [Frames -> Nat]
  BY <1>1, <1>2
<1>4. Holders' = Holders \ {old} /\ old \in Holders
  <2>1. 1 .. taken'[g] = (1 .. taken[g]) \ {taken[g]} /\ taken[g] \in 1 .. taken[g]
    BY <1>1, <1>2
  <2>2. \A f \in Frames \ {g} : taken'[f] = taken[f]
    BY <1>1, <1>2
  <2> HIDE <1>2
  <2>3. \A x : x \in Holders <=> \E f \in Frames : x \in {f} \X (1 .. taken[f])
    BY DEF Holders
  <2>4. \A x : x \in Holders' <=> \E f \in Frames : x \in {f} \X (1 .. taken'[f])
    BY <1>3 DEF Holders, Frames
  <2>5. {g} \X (1 .. taken'[g]) = ({g} \X (1 .. taken[g])) \ {old}
    BY <2>1
  <2>6. old \in Holders
    BY <2>1, <2>3
  <2>7. \A f \in Frames \ {g} : old \notin {f} \X (1 .. taken[f])
    OBVIOUS
  <2>8. \A x : x \in Holders' <=> x \in Holders /\ x # old
    BY <2>2, <2>3, <2>4, <2>5, <2>7
  <2> QED
    BY <2>6, <2>8
<1>5. IsFiniteSet(Holders) /\ Cardinality(Holders) \in Nat
  BY FS_CardinalityType DEF Alive
<1>6. IsFiniteSet(Holders') /\ Cardinality(Holders') = Cardinality(Holders) - 1
  BY <1>4, <1>5, FS_RemoveElement
<1>7. Busy' <= MaxThreads
  BY <1>1, <1>2, <1>5, <1>6, OLAssumption DEF Alive, Busy
<1> QED
  BY <1>1, <1>2, <1>3, <1>6, <1>7 DEF Alive, Frames

\* run() starts a thread only below the bound, after it has set the variable.
LEMMA StartKeepsAlive ==
  ASSUME Alive, NEW f \in Frames, StartThread(f), Busy < MaxThreads
  PROVE  Alive'
<1>1. cell' = f /\ starting' = starting + 1 /\ taken' = taken /\ starting \in Nat
  BY DEF StartThread, Alive
<1>2. Holders' = Holders
  BY <1>1 DEF Holders, Frames
<1>3. Cardinality(Holders) \in Nat
  BY FS_CardinalityType DEF Alive
<1>4. Busy' <= MaxThreads
  BY <1>1, <1>2, <1>3, OLAssumption DEF Busy
<1>5. f # NoValue
  BY OLAssumption
<1> QED
  BY <1>1, <1>2, <1>4, <1>5 DEF Alive, Frames

\* Nothing else starts, moves or ends one.
LEMMA RestKeepsAlive ==
  ASSUME Alive, UNCHANGED <<cell, starting, taken>>
  PROVE  Alive'
<1>1. Holders' = Holders
  BY DEF Holders, Frames
<1> QED
  BY <1>1 DEF Alive, Busy, Frames

\* The mailbox, the frames and the listener have their types.
Listening ==
  /\ Q!QTypeOK /\ Counted /\ Alive
  /\ sent \subseteq Calls /\ pending \subseteq Calls \union Events
  /\ ran \in BOOLEAN /\ up \in BOOLEAN /\ transport \in {"FWS", "HTTPC"}
  /\ lpc \in {"off", "looping", "connecting", "checking", "receiving", "ended", "gaveUp", "raised"}
  /\ retried \in 0 .. Retries
  /\ wire \in Seq(Calls \union Events)
  /\ handled \in [Frames -> 0 .. 2] /\ arrived \subseteq Calls \union Events

\* A call that awaits its answer keeps the bookkeeping of futures.
LEMMA CallsKeepQueue ==
  ASSUME Q!QTypeOK, NEW c \in Calls, AwaitAnswer(c) \/ GetsAnswer(c) \/ GivesUp(c)
  PROVE  Q!QTypeOK'
<1> USE OLAssumption DEF Q!QTypeOK, Q!Fields, Q!Registered, Q!GetterLabels
<1>0. NoValue \notin Calls
  BY DEF Frames
<1>1. ASSUME NEW k \in Calls, Q!Return(c, k), key' = [key EXCEPT ![c] = k],
             pc[c] \in {"idle", "checking", "late"}
      PROVE  Q!QTypeOK'
  BY <1>0, <1>1 DEF Q!Return, Q!Pop, Q!Has
<1>2. ASSUME NEW k \in Calls, Q!Wait(c, k), key' = [key EXCEPT ![c] = k],
             pc[c] \in {"idle", "checking"}
      PROVE  Q!QTypeOK'
  <2>1. /\ pc' = [pc EXCEPT ![c] = "waiting"] /\ UNCHANGED <<contents, stale, scheduled, unput, got>>
        /\ waiters' = [waiters EXCEPT ![k] = @ \union {c}]
    BY <1>2 DEF Q!Wait, Q!Register
  <2> QED
    BY <1>2, <2>1
<1>3. ASSUME Q!Unregister(c), pc[c] \in {"waiting", "woken"},
             NEW l \in {"checking", "timedOut"}, pc' = [pc EXCEPT ![c] = l],
             UNCHANGED <<contents, stale, unput, key, got>>
      PROVE Q!QTypeOK'
  BY <1>3 DEF Q!Unregister
<1>4. CASE AwaitAnswer(c)
  BY <1>1, <1>2, <1>4 DEF AwaitAnswer, Q!Get
<1>5. CASE GivesUp(c)
  BY <1>3, <1>5 DEF GivesUp, Q!StopWaiting
<1>6. CASE GetsAnswer(c)
  <2>1. CASE Q!Wake(c)
    BY <2>1 DEF Q!Wake
  <2>2. CASE Q!Resume(c)
    BY <1>3, <2>2 DEF Q!Resume
  <2>3. CASE Q!CheckAgain(c)
    <3>1. pc[c] = "checking" /\ key[c] \in Calls /\ key' = [key EXCEPT ![c] = key[c]]
      BY <2>3 DEF Q!CheckAgain
    <3> QED
      BY <1>1, <1>2, <2>3, <3>1 DEF Q!CheckAgain
  <2>4. CASE Q!LastLook(c)
    <3>1. pc[c] = "late" /\ key[c] \in Calls /\ key' = [key EXCEPT ![c] = key[c]]
      BY <2>4 DEF Q!LastLook
    <3>2. CASE Q!Return(c, key[c])
      BY <1>1, <3>1, <3>2
    <3>3. CASE ~ Q!Return(c, key[c])
      BY <2>4, <3>1, <3>3 DEF Q!LastLook
    <3> QED
      BY <3>2, <3>3
  <2> QED
    BY <1>6, <2>1, <2>2, <2>3, <2>4 DEF GetsAnswer, Q!Deliver
<1> QED
  BY <1>4, <1>5, <1>6

\* A handler thread puts an answer.
LEMMA AnswerKeepsQueue ==
  ASSUME Q!QTypeOK, NEW c \in Calls, Q!Put(c, c), UNCHANGED unput
  PROVE  Q!QTypeOK'
<1> USE DEF Q!QTypeOK, Q!Fields, Q!Registered, Q!GetterLabels
<1>1. pc' = pc
  BY DEF Q!Put, Q!Notified, Q!InWaitSet
<1>2. contents' \in [Calls -> Calls \union {NoValue}]
  BY DEF Q!Put, Q!Expired
<1>3. /\ scheduled' = scheduled \union waiters[c]
      /\ UNCHANGED <<waiters, key, got>> /\ stale' = {}
  BY DEF Q!Put, Q!Woken
<1> QED
  BY <1>1, <1>2, <1>3

\* Every step keeps them.
LEMMA ListeningStep == Listening /\ [LNext]_lvars => Listening'
<1> SUFFICES ASSUME Listening, [LNext]_lvars PROVE Listening'
  OBVIOUS
<1>1. Counted'
  BY StepKeepsCounted DEF Listening
<1>2. Q!QTypeOK /\ Alive /\ Retries \in Nat
  BY OLAssumption DEF Listening
<1>0. <<>> \in Seq(Calls \union Events)
  OBVIOUS
<1>3. ASSUME UNCHANGED queueVars PROVE Q!QTypeOK'
  BY <1>2, <1>3 DEF queueVars, Q!QTypeOK, Q!Fields, Q!Registered
<1>4. ASSUME UNCHANGED <<cell, starting, taken>> PROVE Alive'
  BY <1>2, <1>4, RestKeepsAlive
<1>5. ASSUME Q!QTypeOK', Alive', UNCHANGED <<callVars, runVars, linkVars, handled, arrived>>
      PROVE  Listening'
  BY <1>1, <1>5 DEF Listening, callVars, runVars, linkVars, Frames
<1>6. CASE UNCHANGED lvars
  BY <1>3, <1>4, <1>5, <1>6 DEF lvars, workVars
<1>7. ASSUME NEW c \in Calls, Send(c) PROVE Listening'
  <2>1. Q!QTypeOK' /\ Alive'
    BY <1>3, <1>4, <1>7 DEF Send, workVars
  <2>2. pending' \subseteq Calls \union Events /\ wire' \in Seq(Calls \union Events)
    <3>1. wire \in Seq(Calls \union Events) /\ pending \subseteq Calls \union Events
      BY DEF Listening
    <3>2. pending' \in {pending, pending \union {c}} /\ wire' \in {wire, Append(wire, c)}
      BY <1>7 DEF Send
    <3>3. Append(wire, c) \in Seq(Calls \union Events)
      BY <3>1
    <3> QED
      BY <3>1, <3>2, <3>3
  <2>3. /\ sent' \subseteq Calls
        /\ UNCHANGED <<runVars, transport, up, workVars>>
    BY <1>7 DEF Send, Listening
  <2> QED
    BY <1>1, <2>1, <2>2, <2>3 DEF runVars, workVars, Listening, Frames
<1>8. ASSUME NEW c \in Calls, AwaitAnswer(c) \/ GetsAnswer(c) \/ GivesUp(c) PROVE Listening'
  <2>1. Q!QTypeOK'
    BY <1>2, <1>8, CallsKeepQueue
  <2>2. UNCHANGED <<callVars, runVars, linkVars, workVars>>
    BY <1>8 DEF AwaitAnswer, GetsAnswer, GivesUp
  <2> QED
    BY <1>4, <1>5, <2>1, <2>2 DEF workVars
<1>9. CASE Network
  <2>1. UNCHANGED <<queueVars, runVars, workVars, sent, transport>>
    BY <1>9 DEF Network, ConnectionLost, ServerSends, callVars
  <2>2. Q!QTypeOK' /\ Alive'
    BY <1>3, <1>4, <2>1 DEF workVars
  <2>3. /\ pending' \subseteq Calls \union Events /\ up' \in BOOLEAN
        /\ wire' \in Seq(Calls \union Events)
    <3>1. wire \in Seq(Calls \union Events) /\ pending \subseteq Calls \union Events /\ up \in BOOLEAN
      BY DEF Listening
    <3>2. CASE ConnectionLost
      BY <1>0, <3>1, <3>2 DEF ConnectionLost, callVars
    <3>3. ASSUME NEW f \in Calls \union Events, ServerSends(f)
          PROVE  /\ pending' \subseteq Calls \union Events /\ up' \in BOOLEAN
                 /\ wire' \in Seq(Calls \union Events)
      BY <3>1, <3>3 DEF ServerSends
    <3> QED
      BY <1>9, <3>2, <3>3 DEF Network
  <2> QED
    BY <1>1, <2>1, <2>2, <2>3 DEF Listening, runVars, workVars, Frames
<1>10. ASSUME Run \/ OuterLoop \/ Refused \/ ConnectRaises \/ InnerLoop \/ Stop
              \/ \E label \in {"looping", "raised"} : ReceiveFails(label)
       PROVE  Listening'
  <2>1. UNCHANGED <<queueVars, callVars, workVars>>
    BY <1>10 DEF Run, OuterLoop, Refused, ConnectRaises, InnerLoop, Stop, ReceiveFails
  <2>2. Q!QTypeOK' /\ Alive'
    BY <1>3, <1>4, <2>1 DEF workVars
  <2>3. ran' \in BOOLEAN /\ up' \in BOOLEAN /\ wire' \in {wire, <<>>} /\ transport' = transport
    BY <1>10 DEF Run, OuterLoop, Refused, ConnectRaises, InnerLoop, Stop, ReceiveFails,
       StopAndClose, linkVars, Listening
  <2>4. lpc' \in {"off", "looping", "connecting", "checking", "receiving", "ended", "gaveUp", "raised"}
    BY <1>10 DEF Run, OuterLoop, Refused, ConnectRaises, InnerLoop, Stop, ReceiveFails, Goto,
       Listening
  <2>5. retried' \in 0 .. Retries
    BY <1>2, <1>10 DEF Run, OuterLoop, Refused, ConnectRaises, InnerLoop, Stop, ReceiveFails,
       OutOfRetries, Listening
  <2> QED
    <3>1. wire' \in Seq(Calls \union Events)
      BY <1>0, <2>3 DEF Listening
    <3> HIDE <1>10
    <3> QED
      BY <1>1, <2>1, <2>2, <2>3, <2>4, <2>5, <3>1 DEF Listening, callVars, workVars, Frames
<1>11. CASE Connect
  <2>1. Started \in Frames /\ StartThread(Started) /\ Busy < MaxThreads
    BY <1>11 DEF Connect, Frames
  <2>2. Q!QTypeOK' /\ Alive'
    BY <1>2, <1>3, <1>11, <2>1, StartKeepsAlive DEF Connect
  <2>3. /\ UNCHANGED <<callVars, ran, transport, wire, arrived, handled>>
        /\ up' = TRUE /\ retried' = 0 /\ lpc' = "checking"
    BY <1>11 DEF Connect, StartThread, ResetCount, Goto
  <2> QED
    BY <1>1, <1>2, <2>2, <2>3 DEF Listening, callVars, Frames
<1>12. CASE Receive
  <2>1. wire \in Seq(Calls \union Events) /\ wire # <<>>
    BY <1>12 DEF Receive, Listening
  <2>2. Head(wire) \in Calls \union Events /\ Tail(wire) \in Seq(Calls \union Events)
    BY <2>1
  <2>3. Head(wire) \in Frames /\ StartThread(Head(wire)) /\ Busy < MaxThreads
    BY <1>12, <2>2 DEF Receive, Frames
  <2>4. Q!QTypeOK' /\ Alive'
    BY <1>2, <1>3, <1>12, <2>3, StartKeepsAlive DEF Receive
  <2>5. /\ UNCHANGED <<callVars, ran, retried, transport, up, handled>>
        /\ wire' = Tail(wire) /\ lpc' = "checking" /\ arrived' = arrived \union {Head(wire)}
    BY <1>12 DEF Receive, StartThread, Goto
  <2> QED
    BY <1>1, <2>2, <2>4, <2>5 DEF Listening, callVars, Frames
<1>13. CASE ReadCell
  <2>1. Q!QTypeOK' /\ Alive'
    BY <1>2, <1>3, <1>13, ReadCellKeepsAlive DEF ReadCell
  <2> QED
    BY <1>5, <1>13, <2>1 DEF ReadCell
<1>14. ASSUME NEW f \in Frames, Finish(f), Q!QTypeOK' PROVE Listening'
  <2>1. Alive'
    BY <1>2, <1>14, FinishKeepsAlive
  <2>2. handled' \in [Frames -> 0 .. 2]
    <3>1. handled \in [Frames -> 0 .. 2]
      BY DEF Listening
    <3>2. handled' = [handled EXCEPT ![f] = IF @ < 2 THEN @ + 1 ELSE @]
      BY <1>14 DEF Finish
    <3>3. \A n \in 0 .. 2 : (IF n < 2 THEN n + 1 ELSE n) \in 0 .. 2
      OBVIOUS
    <3> QED
      BY <3>1, <3>2, <3>3
  <2>3. UNCHANGED <<callVars, runVars, linkVars, arrived>>
    BY <1>14 DEF Finish
  <2> QED
    BY <1>1, <1>14, <2>1, <2>2, <2>3 DEF Listening, callVars, runVars, linkVars, Frames
<1>15. ASSUME NEW c \in Calls, HandleAnswer(c) PROVE Listening'
  <2>1. c \in Frames
    BY DEF Frames
  <2> QED
    BY <1>2, <1>14, <1>15, <2>1, AnswerKeepsQueue DEF HandleAnswer, PutAnswer
<1>16. ASSUME NEW e \in Events \union {Started}, HandleEvent(e) PROVE Listening'
  <2>1. e \in Frames
    BY DEF Frames
  <2> QED
    BY <1>3, <1>14, <1>16, <2>1 DEF HandleEvent
<1> QED
  BY <1>6, <1>7, <1>8, <1>9, <1>10, <1>11, <1>12, <1>13, <1>15, <1>16 DEF LNext, Listener, Handler

\* Nothing runs at first.
LEMMA ListeningInit == LInit => Listening
<1> SUFFICES ASSUME LInit PROVE Listening
  OBVIOUS
<1>1. Q!QTypeOK
  BY OLAssumption DEF LInit, Q!QInit, Q!QTypeOK, Q!Fields, Q!Registered, Q!GetterLabels
<1>2. Counted
  BY OLAssumption DEF LInit, Counted
<1>3. Holders = {}
  <2>1. \A f \in Frames : taken[f] = 0
    BY DEF LInit
  <2>2. 1 .. 0 = {}
    OBVIOUS
  <2> QED
    BY <2>1, <2>2 DEF Holders
<1>4. Alive
  BY <1>3, OLAssumption, FS_EmptySet DEF LInit, Alive, Busy
<1> QED
  <2>1. /\ sent \subseteq Calls /\ pending \subseteq Calls \union Events /\ ran \in BOOLEAN
        /\ up \in BOOLEAN /\ transport \in {"FWS", "HTTPC"} /\ lpc = "off" /\ arrived \subseteq Calls \union Events
    BY DEF LInit
  <2>2. retried \in 0 .. Retries
    BY OLAssumption DEF LInit
  <2>3. wire \in Seq(Calls \union Events)
    BY DEF LInit
  <2>4. handled \in [Frames -> 0 .. 2]
    BY DEF LInit
  <2> QED
    BY <1>1, <1>2, <1>4, <2>1, <2>2, <2>3, <2>4 DEF Listening

\* The types of LTypeOK among them.
LEMMA ListeningTypes == Listening => LTypeOK
<1> SUFFICES ASSUME Listening PROVE LTypeOK
  OBVIOUS
<1>1. taken \in [Frames -> 0 .. MaxThreads] /\ starting \in 0 .. MaxThreads
  <2>1. taken \in [Frames -> Nat] /\ \A f \in Frames : taken[f] \in 0 .. MaxThreads
    BY HoldersBound DEF Listening, Alive
  <2>2. starting \in 0 .. MaxThreads
    BY HoldersBound DEF Listening, Frames
  <2> QED
    BY <2>1, <2>2
<1>2. refused \in 0 .. Retries + 1
  BY OLAssumption DEF Listening, Counted
<1> QED
  BY <1>1, <1>2 DEF Listening, LTypeOK, Alive

(***************************************************************************)
(* FeishuToken: for any threads, lives, skew and delay with                *)
(* 3 * MaxDelay <= Skew.                                                   *)
(*                                                                         *)
(* Late enough, every token in the cache is younger than what its readers  *)
(* and writers hold, up to a delay; the expiry runs ahead of the token it  *)
(* was stamped for by one delay, and of the token it stands beside by two  *)
(* and the difference of their lives.                                      *)
(***************************************************************************)
Spread == Life - Shortest

\* A thread is between an answer, or its test, and its return no longer than
\* the delay; while it writes, it holds the token it was sent, if any.
Timely ==
  \A r \in Clients :
    /\ tpc[r] \in Holding => asOf[r] <= instant /\ instant <= asOf[r] + MaxDelay
    /\ tpc[r] = "writing" /\ given[r] # 0 => asOf[r] + Shortest <= given[r]

\* Whoever wrote last, a thread that has written finds no token that is older
\* than its own by more than a delay and the difference of two lives.
Young ==
  \A r \in Clients : token # 0 =>
    /\ tpc[r] = "stamping" => asOf[r] + Shortest <= token + MaxDelay
    /\ tpc[r] = "returning" =>
         /\ asOf[r] + MaxDelay < token \/ r \in mixed
         /\ asOf[r] + MaxDelay < token + Spread

\* How far the expiry runs ahead of the token it was stamped for, and of the
\* one it stands beside.
Ahead ==
  /\ expireAt <= stamped + MaxDelay /\ expireAt <= instant + Life
  /\ token # 0 => expireAt <= token + Spread + 2 * MaxDelay

KInv == KTypeOK /\ Timely /\ Young /\ Ahead /\ TokenInTime

\* Nothing is cached at first.
LEMMA KInitInv == KInit => KInv
  BY FeishuTokenAssumption, SMT
  DEF KInit, KInv, KTypeOK, Timely, Young, Ahead, TokenInTime, Holding, Spread

\* One step per action: time passes only for threads that are not late.
LEMMA KNextInv == KInv /\ [KNext]_tvars => KInv'
<1> SUFFICES ASSUME KInv, [KNext]_tvars PROVE KInv'
  OBVIOUS
<1> USE FeishuTokenAssumption DEF Cache, Spread
<1>1. CASE Elapse
  BY <1>1, SMT DEF Elapse, KInv, KTypeOK, Timely, Young, Ahead, TokenInTime, Holding
<1>2. ASSUME NEW r \in Clients, UseCached(r) PROVE KInv'
  BY <1>2, SMT
  DEF UseCached, Moves, Fresh, KInv, KTypeOK, Timely, Young, Ahead, TokenInTime, Holding
<1>3. ASSUME NEW r \in Clients, AskToken(r) PROVE KInv'
  BY <1>3, SMT
  DEF AskToken, Moves, KInv, KTypeOK, Timely, Young, Ahead, TokenInTime, Holding
<1>4. ASSUME NEW r \in Clients, Issued(r) PROVE KInv'
  BY <1>4, SMT
  DEF Issued, Moves, KInv, KTypeOK, Timely, Young, Ahead, TokenInTime, Holding
<1>5. ASSUME NEW r \in Clients, AskTokenFails(r) PROVE KInv'
  BY <1>5, SMT
  DEF AskTokenFails, Moves, KInv, KTypeOK, Timely, Young, Ahead, TokenInTime, Holding
<1>6. ASSUME NEW r \in Clients, Write(r) PROVE KInv'
  BY <1>6, SMT
  DEF Write, Moves, KInv, KTypeOK, Timely, Young, Ahead, TokenInTime, Holding
<1>7. ASSUME NEW r \in Clients, Stamp(r) PROVE KInv'
  BY <1>7, SMT
  DEF Stamp, Moves, KInv, KTypeOK, Timely, Young, Ahead, TokenInTime, Holding
<1>8. ASSUME NEW r \in Clients, GiveToken(r) PROVE KInv'
  BY <1>8, SMT
  DEF GiveToken, Moves, KInv, KTypeOK, Timely, Young, Ahead, TokenInTime, Holding
<1>9. ASSUME NEW r \in Clients, ClientDone(r) PROVE KInv'
  BY <1>9, SMT
  DEF ClientDone, Moves, KInv, KTypeOK, Timely, Young, Ahead, TokenInTime, Holding
<1>10. CASE UNCHANGED tvars
  BY <1>10, SMT DEF tvars, KInv, KTypeOK, Timely, Young, Ahead, TokenInTime, Holding
<1> QED
  BY <1>1, <1>2, <1>3, <1>4, <1>5, <1>6, <1>7, <1>8, <1>9, <1>10 DEF KNext

\* A request is made with an expired token only if its thread found it under
\* the expiry of another, and the token ended less than the difference of two
\* lives ago; no lock guards the two (FeishuLib/client.py,
\* get_tenant_access_token).
THEOREM TokensAreInTime == KSpec => []TokenInTime
<1>1. KSpec => []KInv
  BY KInitInv, KNextInv, PTL DEF KSpec
<1>2. KInv => TokenInTime
  BY DEF KInv
<1> QED
  BY <1>1, <1>2, PTL

\* The clock, the token and the expiry are numbers, and every thread is at one
\* of the places of get_tenant_access_token().
THEOREM TokenTyped == KSpec => []KTypeOK
<1>1. KSpec => []KInv
  BY KInitInv, KNextInv, PTL DEF KSpec
<1>2. KInv => KTypeOK
  BY DEF KInv
<1> QED
  BY <1>1, <1>2, PTL

(***************************************************************************)
(* FeishuEvents: for any events, requests and retention.                   *)
(*                                                                         *)
(* An id is removed from the cache, or chosen for removal, only after its  *)
(* retention; so a repetition that comes before finds it there.            *)
(***************************************************************************)

\* From its arrival to its answer a request has an event and a time; only an
\* event with an id is looked up.
Looking == {"collecting", "purging", "entering"}

CallbackTypes ==
  /\ clock \in Nat
  /\ eventCache \in [FEvents -> Nat \union {Never}]
  /\ oldest \in [FEvents -> Nat \union {Never}]
  /\ cpc \in [Callbacks -> {"none", "collecting", "purging", "entering", "putting", "done"}]
  /\ event \in [Callbacks -> FEvents \union {Never}]
  /\ now \in [Callbacks -> Nat \union {Never}]
  /\ staleIds \in [Callbacks -> SUBSET FEvents]
  /\ late \subseteq Callbacks /\ answered \subseteq FEvents

\* What the variables of a request mean at each of its steps.
RequestOK(c) ==
  /\ now[c] # Never => now[c] <= clock
  /\ cpc[c] \in Looking => event[c] \in FEvents \ Unidentified /\ now[c] # Never
  /\ cpc[c] = "putting" =>
       /\ event[c] \in FEvents
       /\ event[c] \notin Unidentified => oldest[event[c]] # Never
  /\ c \in late =>
       /\ cpc[c] \in Looking \union {"putting"}
       /\ event[c] \in FEvents \ Unidentified /\ oldest[event[c]] # Never
Requests == \A c \in Callbacks : RequestOK(c)

\* The retention of an event has passed since it was first entered.
Forgettable(e) == oldest[e] # Never /\ clock > oldest[e] + Retention

\* An entry is no older than the first one, and an id that was entered once is
\* removed, or chosen for removal, only after its retention.
Cached ==
  /\ \A e \in FEvents :
       /\ eventCache[e] # Never => oldest[e] # Never /\ oldest[e] <= eventCache[e]
       /\ eventCache[e] = Never /\ oldest[e] # Never => Forgettable(e)
       /\ e \in answered \ Unidentified => oldest[e] # Never
  /\ \A c \in Callbacks : \A e \in staleIds[c] : Forgettable(e)

RepeatInv == CallbackTypes /\ Requests /\ Cached /\ RepeatIsIgnored

\* Nothing has come yet.
LEMMA RepeatInit == FInit => RepeatInv
<1> SUFFICES ASSUME FInit PROVE RepeatInv
  OBVIOUS
<1> USE FeishuEventsAssumption DEF FInit, Looking, Forgettable, RequestOK
<1>1. CallbackTypes
  BY DEF CallbackTypes
<1>2. Requests
  BY DEF Requests
<1>3. Cached
  BY DEF Cached
<1>4. RepeatIsIgnored
  BY DEF RepeatIsIgnored
<1> QED
  BY <1>1, <1>2, <1>3, <1>4 DEF RepeatInv

\* A step of a request changes its own place alone.
LEMMA RequestStep ==
  ASSUME RepeatInv, NEW c \in Callbacks,
         \/ Callback(c)
         \/ \E e \in FEvents : Push(c, e) \/ Arrive(c, e)
  PROVE  RepeatInv'
<1> USE FeishuEventsAssumption DEF Looking, Forgettable, RequestOK, CStep, CacheKept, RunKept
<1>t. RepeatInv
  OBVIOUS
<1>1. CASE TurnAway(c)
  <2>1. CallbackTypes' BY <1>t, <1>1 DEF RepeatInv, CallbackTypes, TurnAway
  <2>2. Requests' BY <1>t, <1>1 DEF RepeatInv, CallbackTypes, Requests, TurnAway
  <2>3. Cached' BY <1>t, <1>1 DEF RepeatInv, CallbackTypes, Cached, TurnAway
  <2>4. RepeatIsIgnored' BY <1>t, <1>1 DEF RepeatInv, CallbackTypes, RepeatIsIgnored, TurnAway
  <2> QED BY <2>1, <2>2, <2>3, <2>4 DEF RepeatInv
<1>2. ASSUME NEW e \in FEvents, Push(c, e) PROVE RepeatInv'
  <2>1. CallbackTypes' BY <1>t, <1>2 DEF RepeatInv, CallbackTypes, Push
  <2>2. Requests' BY <1>t, <1>2 DEF RepeatInv, CallbackTypes, Requests, Push
  <2>3. Cached' BY <1>t, <1>2 DEF RepeatInv, CallbackTypes, Cached, Push
  <2>4. RepeatIsIgnored' BY <1>t, <1>2 DEF RepeatInv, CallbackTypes, RepeatIsIgnored, Push
  <2> QED BY <2>1, <2>2, <2>3, <2>4 DEF RepeatInv
<1>3. ASSUME NEW e \in FEvents, Arrive(c, e) PROVE RepeatInv'
  <2>1. CallbackTypes' BY <1>t, <1>3 DEF RepeatInv, CallbackTypes, Arrive
  <2>2. Requests' BY <1>t, <1>3 DEF RepeatInv, CallbackTypes, Requests, Cached, Arrive
  <2>3. Cached' BY <1>t, <1>3 DEF RepeatInv, CallbackTypes, Cached, Arrive
  <2>4. RepeatIsIgnored'
    BY <1>t, <1>3 DEF RepeatInv, CallbackTypes, Requests, RepeatIsIgnored, Arrive
  <2> QED BY <2>1, <2>2, <2>3, <2>4 DEF RepeatInv
<1>4. CASE Collect(c)
  <2>1. CallbackTypes' BY <1>t, <1>4 DEF RepeatInv, CallbackTypes, Collect
  <2>2. Requests' BY <1>t, <1>4 DEF RepeatInv, CallbackTypes, Requests, Collect
  <2>3. Cached'
    <3>1. ASSUME NEW e \in FEvents, IsStale(c, e) PROVE Forgettable(e)
      BY <1>t, <1>4, <3>1 DEF RepeatInv, CallbackTypes, Requests, Cached, Collect, IsStale
    <3> QED BY <1>t, <1>4, <3>1 DEF RepeatInv, CallbackTypes, Cached, Collect
  <2>4. RepeatIsIgnored' BY <1>t, <1>4 DEF RepeatInv, CallbackTypes, RepeatIsIgnored, Collect
  <2> QED BY <2>1, <2>2, <2>3, <2>4 DEF RepeatInv
<1>5. CASE CollectFails(c)
  <2>1. CallbackTypes' BY <1>t, <1>5 DEF RepeatInv, CallbackTypes, CollectFails, Answer
  <2>2. Requests' BY <1>t, <1>5 DEF RepeatInv, CallbackTypes, Requests, CollectFails, Answer
  <2>3. Cached' BY <1>t, <1>5 DEF RepeatInv, CallbackTypes, Cached, CollectFails
  <2>4. RepeatIsIgnored'
    BY <1>t, <1>5 DEF RepeatInv, CallbackTypes, RepeatIsIgnored, CollectFails, Answer
  <2> QED BY <2>1, <2>2, <2>3, <2>4 DEF RepeatInv
<1>6. ASSUME NEW e \in FEvents, Purge(c, e) PROVE RepeatInv'
  <2>1. CallbackTypes' BY <1>t, <1>6 DEF RepeatInv, CallbackTypes, Purge
  <2>2. Requests' BY <1>t, <1>6 DEF RepeatInv, CallbackTypes, Requests, Purge
  <2>3. Cached' BY <1>t, <1>6 DEF RepeatInv, CallbackTypes, Cached, Purge
  <2>4. RepeatIsIgnored' BY <1>t, <1>6 DEF RepeatInv, CallbackTypes, RepeatIsIgnored, Purge
  <2> QED BY <2>1, <2>2, <2>3, <2>4 DEF RepeatInv
<1>7. CASE Ignore(c)
  <2>1. CallbackTypes' BY <1>t, <1>7 DEF RepeatInv, CallbackTypes, Requests, Ignore, Answer
  <2>2. Requests' BY <1>t, <1>7 DEF RepeatInv, CallbackTypes, Requests, Ignore, Answer
  <2>3. Cached' BY <1>t, <1>7 DEF RepeatInv, CallbackTypes, Requests, Cached, Ignore, Known
  <2>4. RepeatIsIgnored' BY <1>t, <1>7 DEF RepeatInv, CallbackTypes, RepeatIsIgnored, Ignore, Answer
  <2> QED BY <2>1, <2>2, <2>3, <2>4 DEF RepeatInv
<1>8. CASE Pass(c)
  <2>1. CallbackTypes' BY <1>t, <1>8 DEF RepeatInv, CallbackTypes, Pass
  <2>2. Requests' BY <1>t, <1>8 DEF RepeatInv, CallbackTypes, Requests, Pass
  <2>3. Cached' BY <1>t, <1>8 DEF RepeatInv, CallbackTypes, Cached, Pass
  <2>4. RepeatIsIgnored'
    BY <1>t, <1>8 DEF RepeatInv, CallbackTypes, Requests, Cached, RepeatIsIgnored, Pass, Known
  <2> QED BY <2>1, <2>2, <2>3, <2>4 DEF RepeatInv
<1>9. CASE Enter(c)
  <2>1. PICK e \in FEvents \ Unidentified : e = event[c]
    BY <1>t, <1>9 DEF RepeatInv, Requests, Enter
  <2>2. PICK t \in Nat : t = now[c] /\ t <= clock
    BY <1>t, <1>9 DEF RepeatInv, CallbackTypes, Requests, Enter
  <2>3. /\ eventCache' = [eventCache EXCEPT ![e] = t]
        /\ cpc' = [cpc EXCEPT ![c] = "putting"] /\ cpc[c] = "entering"
        /\ UNCHANGED <<clock, event, now, staleIds, late, answered>>
    BY <1>9, <2>1, <2>2 DEF Enter
  <2>4. /\ oldest' \in [FEvents -> Nat \union {Never}]
        /\ \A d \in FEvents \ {e} : oldest'[d] = oldest[d]
        /\ oldest'[e] \in Nat /\ oldest'[e] <= t
        /\ oldest[e] # Never => oldest'[e] <= oldest[e]
    BY <1>t, <1>9, <2>1, <2>2 DEF RepeatInv, CallbackTypes, Enter
  <2>5. CallbackTypes' BY <1>t, <2>3, <2>4, <2>2 DEF RepeatInv, CallbackTypes
  <2>6. Requests'
    <3> SUFFICES ASSUME NEW d \in Callbacks PROVE RequestOK(d)'
      BY DEF Requests
    <3>1. RequestOK(d)
      BY <1>t DEF RepeatInv, Requests
    <3>2. \A f \in FEvents : oldest[f] # Never => oldest'[f] # Never
      BY <2>4
    <3>3. d # c => cpc'[d] = cpc[d]
      BY <1>t, <2>3 DEF RepeatInv, CallbackTypes
    <3>4. cpc'[c] = "putting"
      BY <1>t, <2>3 DEF RepeatInv, CallbackTypes
    <3> QED BY <3>1, <3>2, <3>3, <3>4, <2>1, <2>3, <2>4
  <2>7. \A f \in FEvents : Forgettable(f) => Forgettable(f)'
    BY <1>t, <2>3, <2>4 DEF RepeatInv, CallbackTypes
  <2>8. Cached'
    <3>1. \A f \in FEvents : f # e => eventCache'[f] = eventCache[f] /\ oldest'[f] = oldest[f]
      BY <1>t, <2>3, <2>4 DEF RepeatInv, CallbackTypes
    <3>2. eventCache'[e] = t
      BY <1>t, <2>3 DEF RepeatInv, CallbackTypes
    <3>3. ASSUME NEW f \in FEvents
          PROVE  /\ eventCache'[f] # Never => oldest'[f] # Never /\ oldest'[f] <= eventCache'[f]
                 /\ eventCache'[f] = Never /\ oldest'[f] # Never => Forgettable(f)'
                 /\ f \in answered' \ Unidentified => oldest'[f] # Never
      BY <1>t, <3>1, <3>2, <2>2, <2>3, <2>4, <2>7 DEF RepeatInv, Cached
    <3>4. \A d \in Callbacks : \A f \in staleIds'[d] : Forgettable(f)'
      BY <1>t, <2>3, <2>7 DEF RepeatInv, CallbackTypes, Cached
    <3> QED BY <3>3, <3>4 DEF Cached
  <2>9. RepeatIsIgnored'
    <3> SUFFICES ASSUME NEW d \in late', cpc'[d] \in {"entering", "putting"}
                 PROVE  clock' > oldest'[event'[d]] + Retention
      BY DEF RepeatIsIgnored
    <3>1. d \in late /\ d \in Callbacks /\ event'[d] = event[d] /\ event[d] \in FEvents
          /\ oldest[event[d]] # Never
      BY <1>t, <2>3 DEF RepeatInv, CallbackTypes, Requests
    <3>2. cpc[d] \in {"entering", "putting"}
      BY <1>t, <2>3, <3>1 DEF RepeatInv, CallbackTypes
    <3>3. Forgettable(event[d])
      BY <1>t, <3>1, <3>2 DEF RepeatInv, RepeatIsIgnored
    <3> QED BY <3>1, <3>3, <2>7, <2>3
  <2> QED BY <2>5, <2>6, <2>8, <2>9 DEF RepeatInv
<1>10. CASE Put(c)
  <2>1. CallbackTypes' BY <1>t, <1>10 DEF RepeatInv, CallbackTypes, Requests, Put, Answer
  <2>2. Requests' BY <1>t, <1>10 DEF RepeatInv, CallbackTypes, Requests, Put, Answer
  <2>3. Cached' BY <1>t, <1>10 DEF RepeatInv, CallbackTypes, Requests, Cached, Put
  <2>4. RepeatIsIgnored' BY <1>t, <1>10 DEF RepeatInv, CallbackTypes, RepeatIsIgnored, Put, Answer
  <2> QED BY <2>1, <2>2, <2>3, <2>4 DEF RepeatInv
<1> QED
  BY <1>1, <1>2, <1>3, <1>4, <1>5, <1>6, <1>7, <1>8, <1>9, <1>10 DEF Callback

\* run(), stop() and the clock leave the requests alone; time only passes.
LEMMA OtherStep ==
  ASSUME RepeatInv, Tick \/ RunStarts \/ FRun \/ FStop \/ UNCHANGED fvars
  PROVE  RepeatInv'
<1>1. UNCHANGED fcallback /\ (clock' = clock \/ clock' = clock + 1)
  BY DEF Tick, RunStarts, FRun, FStop, fvars, SetActiveQueue, SetServer, Loop, GetLast, Get,
         StopFlag, StopActive, StopServer
<1>2. UNCHANGED <<eventCache, cpc, event, now, staleIds, late, oldest, answered>>
  BY <1>1 DEF fcallback
<1>3. clock \in Nat /\ clock' \in Nat /\ clock <= clock'
  BY <1>1 DEF RepeatInv, CallbackTypes
<1>4. \A e \in FEvents : Forgettable(e) => Forgettable(e)'
  BY <1>2, <1>3, FeishuEventsAssumption DEF Forgettable, RepeatInv, CallbackTypes
<1>5. CallbackTypes'
  BY <1>2, <1>3 DEF RepeatInv, CallbackTypes
<1>6. Requests'
  BY <1>2, <1>3 DEF RepeatInv, CallbackTypes, Requests, RequestOK
<1>7. Cached'
  BY <1>2, <1>4 DEF RepeatInv, CallbackTypes, Cached
<1>8. RepeatIsIgnored'
  BY <1>2, <1>3, FeishuEventsAssumption
  DEF RepeatInv, CallbackTypes, Requests, RequestOK, Looking, RepeatIsIgnored
<1> QED BY <1>5, <1>6, <1>7, <1>8 DEF RepeatInv

\* A repeated event is put again only after its retention (LecAdapters/Feishu.py:
\* feishu_callback() collects, removes and enters ids under no lock).
THEOREM RepeatsAreIgnored == FSpec => []RepeatIsIgnored
<1>1. RepeatInv /\ [FNext]_fvars => RepeatInv'
  BY RequestStep, OtherStep DEF FNext
<1>2. RepeatInv => RepeatIsIgnored
  BY DEF RepeatInv
<1> QED
  BY RepeatInit, <1>1, <1>2, PTL DEF FSpec

(***************************************************************************)
(* MilkySend: for any texts, limits, number of attempts and faults.        *)
(***************************************************************************)

Piece == [first : Nat, last : Nat]

\* The chunks go on, one after the other, from a position to another.
Tiles(chunks, from, to) ==
  /\ chunks \in Seq(Piece)
  /\ IF chunks = <<>> THEN to = from - 1
     ELSE chunks[1].first = from /\ chunks[Len(chunks)].last = to
  /\ \A i \in 2 .. Len(chunks) : chunks[i].first = chunks[i - 1].last + 1

\* Chunks that go on where others end.
LEMMA TilesJoin ==
  ASSUME NEW a, NEW b, NEW p \in Nat, NEW q \in Nat, NEW r \in Nat,
         Tiles(a, p, q), Tiles(b, q + 1, r)
  PROVE  Tiles(a \o b, p, r)
<1> DEFINE c == a \o b
<1>1. a \in Seq(Piece) /\ b \in Seq(Piece) /\ Len(a) \in Nat /\ Len(b) \in Nat
  BY DEF Tiles
<1>2. /\ c \in Seq(Piece) /\ Len(c) = Len(a) + Len(b)
      /\ \A i \in 1 .. Len(a) : c[i] = a[i]
      /\ \A i \in 1 .. Len(b) : c[Len(a) + i] = b[i]
      /\ a = <<>> => c = b
      /\ b = <<>> => c = a
  <2>1. c \in Seq(Piece) /\ Len(c) = Len(a) + Len(b)
    BY <1>1
  <2>2. \A i \in 1 .. Len(a) : c[i] = a[i]
    BY <1>1
  <2>3. \A i \in 1 .. Len(b) : c[Len(a) + i] = b[i]
    BY <1>1
  <2>4. (a = <<>> => c = b) /\ (b = <<>> => c = a)
    BY <1>1, ConcatEmptySeq
  <2> QED
    BY <2>1, <2>2, <2>3, <2>4
<1> HIDE DEF c
<1>3. CASE a = <<>> \/ b = <<>>
  <2>1. CASE a = <<>>
    <3>1. q = p - 1 /\ q + 1 = p
      BY <2>1 DEF Tiles
    <3> QED
      BY <1>2, <2>1, <3>1 DEF c
  <2>2. CASE b = <<>>
    <3>1. r = q
      BY <2>2 DEF Tiles
    <3> QED
      BY <1>2, <2>2, <3>1 DEF c
  <2> QED
    BY <1>3, <2>1, <2>2
<1>4. CASE a # <<>> /\ b # <<>>
  <2>1. Len(a) >= 1 /\ Len(b) >= 1 /\ c # <<>>
    BY <1>1, <1>2, <1>4
  <2>2. a[1].first = p /\ a[Len(a)].last = q /\ b[1].first = q + 1 /\ b[Len(b)].last = r
    BY <1>4 DEF Tiles
  <2>3. c[1] = a[1] /\ c[Len(a)] = a[Len(a)] /\ c[Len(a) + 1] = b[1] /\ c[Len(c)] = b[Len(b)]
    BY <1>1, <1>2, <2>1
  <2>4. ASSUME NEW i \in 2 .. Len(c) PROVE c[i].first = c[i - 1].last + 1
    <3>1. CASE i <= Len(a)
      <4>1. i \in 2 .. Len(a) /\ i \in 1 .. Len(a) /\ i - 1 \in 1 .. Len(a)
        BY <1>1, <3>1
      <4>2. c[i] = a[i] /\ c[i - 1] = a[i - 1]
        BY <1>2, <4>1
      <4> QED
        BY <4>1, <4>2 DEF Tiles
    <3>2. CASE i = Len(a) + 1
      BY <1>1, <2>1, <2>2, <2>3, <3>2
    <3>3. CASE i > Len(a) + 1
      <4>1. PICK j \in 2 .. Len(b) : i = Len(a) + j
        <5>1. i - Len(a) \in 2 .. Len(b) /\ i = Len(a) + (i - Len(a))
          BY <1>1, <1>2, <3>3
        <5> QED
          BY <5>1
      <4>2. j \in 1 .. Len(b) /\ j - 1 \in 1 .. Len(b) /\ i - 1 = Len(a) + (j - 1)
        BY <1>1, <4>1
      <4>3. c[i] = b[j] /\ c[i - 1] = b[j - 1]
        BY <1>2, <4>1, <4>2
      <4> QED
        BY <4>3 DEF Tiles
    <3> QED
      BY <1>1, <3>1, <3>2, <3>3
  <2> QED
    BY <1>2, <2>1, <2>2, <2>3, <2>4 DEF Tiles, c
<1> QED
  BY <1>3, <1>4

\* A chunk by itself.
LEMMA OneTile ==
  ASSUME NEW p \in Nat, NEW q \in Nat
  PROVE  Tiles(<<Chars(p, q)>>, p, q)
<1>1. Chars(p, q) \in Piece /\ Chars(p, q).first = p /\ Chars(p, q).last = q
  BY DEF Chars, Piece
<1> QED
  BY <1>1 DEF Tiles

\* A long line is cut without a gap.
LEMMA SlicesTile ==
  ASSUME NEW p \in Nat, NEW q \in Nat, p <= q, NEW limit \in Nat \ {0}
  PROVE  Tiles(Slices(p, q, limit), p, q)
<1> DEFINE n == (q - p) \div limit + 1
           s == Slices(p, q, limit)
<1>1. n \in Nat \ {0}
  <2>1. q - p \in Nat
    OBVIOUS
  <2>2. (q - p) \div limit \in Nat
    BY <2>1, Division
  <2> QED
    BY <2>2
<1>2. s = [k \in 1 .. n |->
             Chars(p + (k - 1) * limit, IF k = n THEN q ELSE p + k * limit - 1)]
  BY DEF Slices
<1> HIDE DEF n, s
<1>3. \A k \in 1 .. n : k * limit \in Nat /\ (k - 1) * limit \in Nat /\ k * limit >= 1
  BY <1>1
<1>4. \A k \in 1 .. n : /\ s[k].first = p + (k - 1) * limit
                        /\ s[k].last = IF k = n THEN q ELSE p + k * limit - 1
                        /\ s[k] \in Piece
  BY <1>2, <1>3 DEF Chars, Piece
<1>5. s \in Seq(Piece) /\ Len(s) = n
  <2>1. s \in [1 .. n -> Piece]
    BY <1>2, <1>4
  <2> QED
    BY <1>1, <2>1
<1>6. s[1].first = p /\ s[n].last = q
  <2>1. s[1].first = p + (1 - 1) * limit
    BY <1>1, <1>4
  <2> QED
    BY <1>1, <1>4, <2>1
<1>7. ASSUME NEW i \in 2 .. n PROVE s[i].first = s[i - 1].last + 1
  <2>1. i - 1 \in 1 .. n /\ i - 1 # n /\ i \in 1 .. n
    BY <1>1
  <2>2. s[i - 1].last = p + (i - 1) * limit - 1 /\ s[i].first = p + (i - 1) * limit
    BY <1>4, <2>1
  <2> QED
    BY <1>3, <2>1, <2>2
<1> QED
  BY <1>1, <1>5, <1>6, <1>7 DEF Tiles, s

----------------------------------------------------------------------------
(* The lines, collected in chunks.                                          *)

Collected == [chunks : Seq(Piece), from : Nat]

\* The chunks so far tile the text up to the one in work, which ends with the lines
\* that were read.
Gathered(acc, next) ==
  /\ acc \in Collected /\ acc.from \in 1 .. next
  /\ Tiles(acc.chunks, 1, acc.from - 1)

\* When the line in work is put out, the chunks reach its end.
LEMMA FlushedTile ==
  ASSUME NEW end \in Nat, NEW acc, Gathered(acc, end + 1)
  PROVE  Tiles(Flushed(acc, end), 1, end)
<1>1. acc.from \in 1 .. end + 1 /\ Tiles(acc.chunks, 1, acc.from - 1)
  BY DEF Gathered
<1>2. CASE acc.from > end
  <2>1. acc.from - 1 = end /\ Flushed(acc, end) = acc.chunks
    BY <1>1, <1>2 DEF Flushed
  <2> QED
    BY <1>1, <2>1
<1>3. CASE ~ (acc.from > end)
  <2>1. acc.from \in Nat /\ acc.from - 1 \in Nat /\ acc.from - 1 + 1 = acc.from
    BY <1>1
  <2>2. Tiles(<<Chars(acc.from, end)>>, acc.from - 1 + 1, end)
    BY <2>1, OneTile
  <2>3. Tiles(acc.chunks \o <<Chars(acc.from, end)>>, 1, end)
    BY <1>1, <2>1, <2>2, TilesJoin
  <2>4. Flushed(acc, end) = acc.chunks \o <<Chars(acc.from, end)>>
    <3>1. acc.chunks \in Seq(Piece)
      BY <1>1 DEF Tiles
    <3> QED
      BY <1>3, <3>1 DEF Flushed
  <2> QED
    BY <2>3, <2>4
<1> QED
  BY <1>2, <1>3

\* A line more makes chunks of chunks.
LEMMA AddLineTyped ==
  ASSUME NEW acc \in Collected, NEW p \in Nat \ {0}, NEW q \in Nat, p <= q,
         NEW limit \in Nat \ {0}
  PROVE  AddLine(acc, p, q, limit) \in Collected
<1>1. acc.chunks \in Seq(Piece) /\ acc.from \in Nat
  BY DEF Collected
<1>2. Flushed(acc, p - 1) \in Seq(Piece)
  <2>1. Chars(acc.from, p - 1) \in Piece
    BY <1>1 DEF Chars, Piece
  <2> QED
    BY <1>1, <2>1 DEF Flushed
<1>3. Slices(p, q, limit) \in Seq(Piece)
  BY SlicesTile DEF Tiles
<1>4. Flushed(acc, p - 1) \o Slices(p, q, limit) \in Seq(Piece)
  BY <1>2, <1>3
<1> QED
  BY <1>2, <1>4 DEF AddLine, Collected

\* A line more, and the chunks still follow each other without a gap.
LEMMA AddLineGathers ==
  ASSUME NEW acc, NEW p \in Nat \ {0}, NEW q \in Nat, p <= q, Gathered(acc, p),
         NEW limit \in Nat \ {0}
  PROVE  Gathered(AddLine(acc, p, q, limit), q + 1)
<1> DEFINE more == AddLine(acc, p, q, limit)
<1>1. more \in Collected
  BY AddLineTyped DEF Gathered
<1>2. p - 1 \in Nat /\ p - 1 + 1 = p
  OBVIOUS
<1>3. Tiles(Flushed(acc, p - 1), 1, p - 1)
  BY <1>2, FlushedTile
<1>4. CASE q - p + 1 > limit
  <2>1. more = [chunks |-> Flushed(acc, p - 1) \o Slices(p, q, limit), from |-> q + 1]
    BY <1>4 DEF AddLine
  <2>2. Tiles(Slices(p, q, limit), p - 1 + 1, q)
    BY <1>2, SlicesTile
  <2>3. Tiles(Flushed(acc, p - 1) \o Slices(p, q, limit), 1, q)
    BY <1>2, <1>3, <2>2, TilesJoin
  <2>4. more.from = q + 1 /\ more.chunks = Flushed(acc, p - 1) \o Slices(p, q, limit)
    BY <2>1
  <2>5. more.from - 1 = q /\ more.from \in 1 .. q + 1
    BY <2>4
  <2> HIDE DEF more
  <2>6. Gathered(more, q + 1)
    BY <1>1, <2>3, <2>4, <2>5 DEF Gathered
  <2> QED
    BY <2>6 DEF more
<1>5. CASE ~ (q - p + 1 > limit) /\ q - acc.from + 1 > limit
  <2>1. more.from = p /\ more.chunks = Flushed(acc, p - 1)
    BY <1>5 DEF AddLine
  <2>2. more.from \in 1 .. q + 1
    BY <2>1
  <2> HIDE DEF more
  <2>3. Gathered(more, q + 1)
    BY <1>1, <1>3, <2>1, <2>2 DEF Gathered
  <2> QED
    BY <2>3 DEF more
<1>6. CASE ~ (q - p + 1 > limit) /\ ~ (q - acc.from + 1 > limit)
  <2>1. more = acc
    BY <1>6 DEF AddLine
  <2>2. acc.from \in 1 .. q + 1
    BY DEF Gathered
  <2> QED
    BY <2>1, <2>2 DEF Gathered
<1> QED
  BY <1>4, <1>5, <1>6

\* Where a line of a text begins.
StartOf(text, i) == IF i = 1 THEN 1 ELSE text[i - 1] + 1

\* The lines of a text begin where the ones before them end.
LEMMA TextIs ==
  ASSUME NEW text \in Texts
  PROVE  /\ text \in Seq(Nat \ {0}) /\ Len(text) \in Nat
         /\ \A i \in 1 .. Len(text) :
              text[i] \in Nat /\ StartOf(text, i) \in Nat \ {0} /\ StartOf(text, i) <= text[i]
         /\ Length(text) \in Nat
         /\ Len(text) > 0 => Length(text) = text[Len(text)]
         /\ Len(text) = 0 => Length(text) = 0
<1>1. text \in Seq(Nat \ {0}) /\ Len(text) \in Nat
  BY MilkySendAssumption
<1>2. \A i \in 1 .. Len(text) : text[i] \in Nat \ {0}
  BY <1>1, ElementOfSeq
<1>3. ASSUME NEW i \in 1 .. Len(text)
      PROVE  StartOf(text, i) \in Nat \ {0} /\ StartOf(text, i) <= text[i]
  <2>1. CASE i = 1
    BY <1>2, <2>1 DEF StartOf
  <2>2. CASE i # 1
    <3>1. i \in 2 .. Len(text) /\ i - 1 \in 1 .. Len(text)
      BY <1>1, <2>2
    <3>2. text[i - 1] < text[i]
      BY <3>1, MilkySendAssumption
    <3> QED
      BY <1>2, <2>2, <3>1, <3>2 DEF StartOf
  <2> QED
    BY <2>1, <2>2
<1>4. CASE text = <<>>
  BY <1>1, <1>2, <1>3, <1>4 DEF Length
<1>5. CASE text # <<>>
  <2>1. Len(text) \in 1 .. Len(text) /\ Length(text) = text[Len(text)]
    BY <1>1, <1>5 DEF Length, Last
  <2> QED
    BY <1>1, <1>2, <1>3, <2>1
<1> QED
  BY <1>4, <1>5

\* The chunks of a text tile it, whatever its lines and the limit are.
LEMMA SplitTiles ==
  ASSUME NEW text \in Texts, NEW limit \in Nat \ {0}
  PROVE  Tiles(SplitText(text, limit), 1, Length(text)) /\ SplitText(text, limit) # <<>>
<1> DEFINE n == Len(text)
           V == Collected
           base == [chunks |-> <<>>, from |-> 1]
           step == [i \in 1 .. n |-> [v \in V |-> AddLine(v, StartOf(text, i), text[i], limit)]]
           Rule(f) == f = [i \in 0 .. n |->
                             IF i = 0 THEN [chunks |-> <<>>, from |-> 1]
                             ELSE AddLine(f[i - 1], IF i = 1 THEN 1 ELSE text[i - 1] + 1,
                                          text[i], limit)]
<1>1. n \in Nat /\ Length(text) \in Nat
  BY TextIs
<1>2. base \in V
  BY DEF Collected
<1>3. step \in [1 .. n -> [V -> V]]
  <2>1. \A i \in 1 .. n : \A v \in V : AddLine(v, StartOf(text, i), text[i], limit) \in V
    BY TextIs, AddLineTyped
  <2> HIDE DEF V
  <2> QED
    BY <2>1
<1>4. PICK f \in [0 .. n -> V] : GoesOn(f, n, base, step)
  <2> HIDE DEF V, base, step, n
  <2> QED
    BY <1>1, <1>2, <1>3, Recursion
<1>5. f[0] = base /\ \A i \in 1 .. n : f[i] = AddLine(f[i - 1], StartOf(text, i), text[i], limit)
  <2>1. f[0] = base /\ \A i \in 1 .. n : f[i] = step[i][f[i - 1]]
    BY <1>4 DEF GoesOn
  <2>2. \A i \in 1 .. n : i - 1 \in 0 .. n
    BY <1>1
  <2>3. \A i \in 1 .. n : f[i - 1] \in V
    BY <1>4, <2>2
  <2> HIDE DEF V, base
  <2> QED
    BY <2>1, <2>3
<1>6. Rule(f)
  <2> DEFINE g == [i \in 0 .. n |-> IF i = 0 THEN [chunks |-> <<>>, from |-> 1]
                             ELSE AddLine(f[i - 1], IF i = 1 THEN 1 ELSE text[i - 1] + 1,
                                          text[i], limit)]
  <2>1. \A i \in 0 .. n : f[i] = g[i]
    <3>1. f[0] = g[0]
      BY <1>1, <1>5
    <3>2. \A i \in 1 .. n : f[i] = g[i]
      BY <1>5 DEF StartOf
    <3> HIDE DEF g
    <3> QED
      BY <1>1, <3>1, <3>2
  <2>2. DOMAIN f = 0 .. n /\ DOMAIN g = 0 .. n /\ f = [i \in DOMAIN f |-> f[i]]
    BY <1>4
  <2> QED
    BY <2>1, <2>2
<1>7. PICK g : Rule(g) /\ (Length(text) > limit => SplitText(text, limit) = Flushed(g[n], Length(text)))
  <2>1. Rule(CHOOSE g : Rule(g))
    <3> HIDE DEF Rule
    <3> QED
      BY <1>6
  <2>2. Length(text) > limit =>
          SplitText(text, limit) = Flushed((CHOOSE g : Rule(g))[n], Length(text))
    BY <1>1 DEF SplitText
  <2> HIDE DEF Rule
  <2> QED
    BY <2>1, <2>2
<1>8. g[0] = base
      /\ \A i \in 1 .. n : g[i] = AddLine(g[i - 1], StartOf(text, i), text[i], limit)
  <2>1. \A i \in 0 .. n : g[i] = IF i = 0 THEN [chunks |-> <<>>, from |-> 1]
                             ELSE AddLine(g[i - 1], IF i = 1 THEN 1 ELSE text[i - 1] + 1,
                                          text[i], limit)
    BY <1>7
  <2> QED
    BY <1>1, <2>1 DEF StartOf
<1> DEFINE After(i) == IF i = 0 THEN 1 ELSE text[i] + 1
<1>9. \A i \in 0 .. n : Gathered(g[i], After(i))
  <2> DEFINE Bad == {i \in 0 .. n : ~ Gathered(g[i], After(i))}
  <2>1. SUFFICES ASSUME Bad # {} PROVE FALSE
    OBVIOUS
  <2>2. PICK i \in Bad : \A j \in Bad : i <= j
    <3>1. Bad \in SUBSET Nat
      OBVIOUS
    <3> HIDE DEF Bad
    <3> QED
      BY <2>1, <3>1, LeastNat
  <2>3. i # 0
    <3>1. Gathered(base, 1)
      BY <1>2 DEF Gathered, Tiles
    <3> QED
      BY <1>8, <2>2, <3>1
  <2>4. i \in 1 .. n /\ i - 1 \in 0 .. n /\ i - 1 \notin Bad
    <3>1. i \in 1 .. n /\ i - 1 \in 0 .. n /\ ~ (i <= i - 1)
      BY <1>1, <2>2, <2>3
    <3> HIDE DEF Bad
    <3> QED
      BY <2>2, <3>1
  <2>5. Gathered(g[i - 1], StartOf(text, i))
    BY <2>4 DEF StartOf
  <2>6. Gathered(AddLine(g[i - 1], StartOf(text, i), text[i], limit), text[i] + 1)
    BY <2>4, <2>5, TextIs, AddLineGathers
  <2>7. Gathered(g[i], text[i] + 1)
    BY <1>8, <2>4, <2>6
  <2> QED
    BY <2>2, <2>3, <2>7
<1> HIDE DEF Rule, After, V, base, step
<1>10. CASE Length(text) <= limit
  <2>1. SplitText(text, limit) = <<Chars(1, Length(text))>>
    BY <1>10 DEF SplitText
  <2> QED
    BY <1>1, <2>1, OneTile
<1>11. CASE ~ (Length(text) <= limit)
  <2>1. n > 0 /\ Length(text) = text[n] /\ Length(text) > limit
    BY <1>1, <1>11, TextIs
  <2>2. Gathered(g[n], Length(text) + 1)
    BY <1>1, <1>9, <2>1 DEF After
  <2>3. Tiles(SplitText(text, limit), 1, Length(text))
    BY <1>1, <1>7, <2>1, <2>2, FlushedTile
  <2>4. SplitText(text, limit) # <<>>
    BY <1>1, <2>1, <2>3 DEF Tiles
  <2> QED
    BY <2>3, <2>4
<1> QED
  BY <1>10, <1>11

----------------------------------------------------------------------------
(* The forms of a message.                                                  *)

\* The payloads of a form carry the message: the first one what is not text.
Carries(payloads, m) ==
  /\ payloads \in Seq(Payload) /\ payloads # <<>>
  /\ payloads[1].text.first = 1 /\ payloads[1].others = m.others
  /\ payloads[1].replies = m.replies
  /\ \A i \in 2 .. Len(payloads) : payloads[i].text.first = payloads[i - 1].text.last + 1
  /\ payloads[Len(payloads)].text.last = Length(m.text)

\* The chunks of a message, as payloads, carry its text, once.
LEMMA ChunksCarry ==
  ASSUME NEW m \in Messages, NEW limit \in Nat \ {0}, ChunkPayloads(m, limit) # <<>>
  PROVE  Carries(ChunkPayloads(m, limit), m)
<1> DEFINE chunks == SplitText(m.text, limit)
           n == Len(chunks)
           P == ChunkPayloads(m, limit)
<1>1. m.text \in Texts /\ m.replies \in 0 .. 2 /\ m.others \in 0 .. 1
  BY DEF Messages
<1>2. Tiles(chunks, 1, Length(m.text)) /\ chunks # <<>>
  BY <1>1, SplitTiles
<1>3. /\ ~ (m.others > 0 \/ m.replies > 1 \/ n <= 1)
      /\ P = [i \in 1 .. n |-> [replies |-> IF i = 1 THEN m.replies ELSE 0,
                                text |-> chunks[i], others |-> 0]]
  <2> HIDE DEF chunks
  <2>1. P = IF m.others > 0 \/ m.replies > 1 \/ n <= 1 THEN <<>>
            ELSE [i \in 1 .. n |-> [replies |-> IF i = 1 THEN m.replies ELSE 0,
                                    text |-> chunks[i], others |-> 0]]
    BY DEF ChunkPayloads, chunks
  <2> HIDE DEF P
  <2>2. P # <<>>
    BY DEF P
  <2> QED
    BY <2>1, <2>2
<1> HIDE DEF chunks, P
<1>4. chunks \in Seq(Piece) /\ n \in Nat /\ n > 1
  BY <1>2, <1>3 DEF Tiles
<1>5. \A i \in 1 .. n : chunks[i] \in Piece
  BY <1>4, ElementOfSeq
<1>6. P \in Seq(Payload) /\ Len(P) = n /\ P # <<>>
  <2>1. \A i \in 1 .. n : P[i] \in Payload
    BY <1>1, <1>3, <1>5 DEF Payload, Piece
  <2>2. P \in [1 .. n -> Payload]
    BY <1>3, <2>1
  <2> QED
    BY <1>4, <2>2
<1>7. \A i \in 1 .. n : P[i].text = chunks[i] /\ P[i].others = 0
                       /\ P[i].replies = IF i = 1 THEN m.replies ELSE 0
  BY <1>3
<1>8. P[1].text.first = 1 /\ P[n].text.last = Length(m.text)
      /\ P[1].others = m.others /\ P[1].replies = m.replies
  <2>1. 1 \in 1 .. n /\ n \in 1 .. n /\ m.others = 0
    BY <1>1, <1>3, <1>4
  <2> QED
    BY <1>2, <1>7, <2>1 DEF Tiles
<1>9. \A i \in 2 .. n : P[i].text.first = P[i - 1].text.last + 1
  <2>1. \A i \in 2 .. n : i \in 1 .. n /\ i - 1 \in 1 .. n
    BY <1>4
  <2> QED
    BY <1>2, <1>7, <2>1 DEF Tiles
<1>10. Carries(P, m)
  BY <1>6, <1>8, <1>9 DEF Carries
<1> QED
  BY <1>10 DEF P

\* So do the payloads of its first form.
LEMMA PayloadsCarry ==
  ASSUME NEW m \in Messages
  PROVE  Carries(Payloads(m), m)
<1>1. CASE ChunkPayloads(m, Limit) # <<>>
  BY <1>1, ChunksCarry, MilkySendAssumption DEF Payloads
<1>2. CASE ~ (ChunkPayloads(m, Limit) # <<>>)
  <2>1. Payloads(m) = <<Whole(m)>>
    BY <1>2 DEF Payloads
  <2>2. /\ Whole(m).replies = m.replies /\ Whole(m).others = m.others
        /\ Whole(m).text.first = 1 /\ Whole(m).text.last = Length(m.text)
    BY DEF Whole, Chars
  <2>3. Length(m.text) \in Nat /\ m.replies \in 0 .. 2 /\ m.others \in 0 .. 1
    BY TextIs DEF Messages
  <2>4. Whole(m) \in Payload
    BY <2>3 DEF Whole, Chars, Payload
  <2> QED
    BY <2>1, <2>2, <2>4 DEF Carries
<1> QED
  BY <1>1, <1>2

----------------------------------------------------------------------------
(* What the recipient has seen of the form that is being sent.              *)

\* A payload that begins the message, the one with what is not text.
Begins(p) ==
  p.text.first = 1 /\ p.others = msg.others /\ (p.replies = msg.replies \/ faults > 0)

\* From there on nothing is left out up to p.
Seen(p) ==
  /\ received # <<>> /\ Last(received) = p
  /\ \E k \in 1 .. Len(received) :
       Begins(received[k]) /\ \A i \in k + 1 .. Len(received) : Follows(received[i], received[i - 1])

\* What is posted begins the message or follows what has been seen.
Posted == Begins(rest[1]) \/ \E p \in Payload : Seen(p) /\ Follows(rest[1], p)

Sending ==
  /\ rest # <<>>
  /\ \A i \in 2 .. Len(rest) : rest[i].text.first = rest[i - 1].text.last + 1
  /\ rest[Len(rest)].text.last = Length(msg.text)
  /\ Posted
  /\ plan # "first" => ~Successful(adopted.res) /\ faults > 0

Answered ==
  /\ IF Successful(res) THEN Seen(rest[1]) ELSE faults > 0
  /\ res.kind = "ok" => res.seq = Len(received)

\* The report under the current echo, when it is there, is the last answer.
Reported ==
  \A r \in reports :
    /\ r.packet <= packet /\ (spc = "posting" => r.packet < packet)
    /\ spc \in {"answered", "fetching"} /\ r.packet = packet => r.res = res

AllSeen ==
  /\ res.kind = "ok" /\ res.seq = Len(received)
  /\ \E p \in Payload : Seen(p) /\ p.text.last = Length(msg.text)

MilkyInv ==
  /\ STypeOK /\ NoGaps
  /\ spc = "start" => plan = "first" /\ received = <<>>
  /\ spc \in {"posting", "answered"} => Sending
  /\ spc = "answered" => Answered
  /\ spc = "fetching" => adopted = [packet |-> packet, res |-> res]
  /\ spc \in {"fetching", "returned"} => AllSeen
  /\ Reported

\* A form of the message begins its text anew.
LEMMA FormBegins ==
  ASSUME MilkyInv, NEW m \in Messages, NEW P, Carries(P, m), m.text = msg.text,
         m.others = msg.others, m.replies = msg.replies \/ faults > 0,
         NEW name \in {"first", "fallback", "recovery"}, SendForm(name, P), adopted' \in Packets,
         name # "first" => ~Successful(adopted'.res) /\ faults > 0
  PROVE  MilkyInv'
<1>1. /\ plan' = name /\ rest' = P /\ packet' = packet + 1 /\ attempt' = 1 /\ spc' = "posting"
      /\ UNCHANGED <<msg, res, reports, received, faults>>
  BY DEF SendForm
<1>2. STypeOK'
  BY <1>1, MilkySendAssumption DEF MilkyInv, STypeOK, Carries
<1>3. NoGaps'
  BY <1>1 DEF MilkyInv, NoGaps, Follows
<1>4. Reported'
  <2>1. packet \in Nat /\ \A r \in reports : r.packet \in Nat
    BY DEF MilkyInv, STypeOK, Packets
  <2> QED
    BY <1>1, <2>1 DEF MilkyInv, Reported
<1>5. Sending'
  <2>1. \A p : p = rest'[1] => Begins(p)'
    BY <1>1 DEF Begins, Carries
  <2>2. Posted'
    BY <2>1 DEF Posted, Begins
  <2> QED
    BY <1>1, <2>2 DEF Sending, Carries
<1> QED
  BY <1>1, <1>2, <1>3, <1>4, <1>5 DEF MilkyInv

\* The payload that is posted is received: it is the last of what has been seen.
LEMMA IsReceived ==
  ASSUME MilkyInv, spc = "posting", NEW CONSTANT new, new = rest[1],
         received' = Append(received, new), UNCHANGED msg, faults' \in {faults, faults + 1}
  PROVE  /\ received' \in Seq(Payload) /\ Len(received') = Len(received) + 1
         /\ NoGaps' /\ Seen(new)'
<1>1. /\ rest \in Seq(Payload) /\ rest # <<>> /\ received \in Seq(Payload) /\ faults \in Nat
      /\ Posted
  BY MilkySendAssumption DEF MilkyInv, STypeOK, Sending
<1>2. new \in Payload
  <2>1. 1 \in 1 .. Len(rest)
    BY <1>1
  <2> QED
    BY <1>1, <2>1, ElementOfSeq
<1> DEFINE n == Len(received) + 1
<1>3. /\ received' \in Seq(Payload) /\ Len(received') = n /\ Len(received) \in Nat
      /\ \A i \in 1 .. Len(received) : received'[i] = received[i]
      /\ received'[n] = new
      /\ \A i \in 1 .. Len(received') : i \in 1 .. Len(received) \/ i = n
  BY <1>1, <1>2, OneMore
<1>4. received' # <<>> /\ Last(received') = new
  BY <1>3 DEF Last
<1>5. CASE Begins(new)
  <2>1. new.text.first = 1 /\ Begins(new)'
    BY <1>1, <1>5 DEF Begins
  <2>2. NoGaps'
    <3> SUFFICES ASSUME NEW i \in 1 .. Len(received')
                 PROVE  \/ received'[i].text.first = 1
                        \/ i > 1 /\ Follows(received'[i], received'[i - 1])
      BY DEF NoGaps, Follows
    <3>1. CASE i = n
      BY <1>3, <2>1, <3>1
    <3>2. CASE i \in 1 .. Len(received)
      <4>1. i > 1 => i - 1 \in 1 .. Len(received)
        BY <1>3, <3>2
      <4> QED
        BY <1>3, <3>2, <4>1 DEF MilkyInv, NoGaps
    <3> QED
      BY <1>3, <3>1, <3>2
  <2>3. (\A p : p = received'[n] => Begins(p)') /\ n \in 1 .. Len(received') /\ n + 1 .. Len(received') = {}
    BY <1>3, <2>1 DEF Begins
  <2>4. Seen(new)'
    BY <1>4, <2>3 DEF Seen, Begins
  <2> QED
    BY <1>3, <2>2, <2>4
<1>6. CASE ~Begins(new)
  <2>1. PICK p \in Payload : Seen(p) /\ Follows(new, p)
    BY <1>1, <1>6 DEF Posted
  <2>2. received # <<>> /\ Last(received) = p
    BY <2>1 DEF Seen
  <2>3. Len(received) >= 1 /\ received'[n - 1] = p
    BY <1>1, <1>3, <2>2 DEF Last
  <2>4. Follows(received'[n], received'[n - 1]) /\ n > 1
    BY <1>3, <2>1, <2>3
  <2>5. NoGaps'
    <3> SUFFICES ASSUME NEW i \in 1 .. Len(received')
                 PROVE  \/ received'[i].text.first = 1
                        \/ i > 1 /\ Follows(received'[i], received'[i - 1])
      BY DEF NoGaps, Follows
    <3>1. CASE i = n
      BY <2>4, <3>1
    <3>2. CASE i \in 1 .. Len(received)
      <4>1. i > 1 => i - 1 \in 1 .. Len(received)
        BY <1>3, <3>2
      <4> QED
        BY <1>3, <3>2, <4>1 DEF MilkyInv, NoGaps
    <3> QED
      BY <1>3, <3>1, <3>2
  <2>6. PICK k \in 1 .. Len(received) :
          /\ Begins(received[k])
          /\ \A i \in k + 1 .. Len(received) : Follows(received[i], received[i - 1])
    BY <2>1 DEF Seen
  <2>7. \A q : q = received'[k] => Begins(q)'
    BY <1>1, <1>3, <2>6 DEF Begins
  <2>8. ASSUME NEW i \in k + 1 .. Len(received') PROVE Follows(received'[i], received'[i - 1])
    <3>1. CASE i = n
      BY <2>4, <3>1
    <3>2. CASE i # n
      <4>1. i \in k + 1 .. Len(received) /\ i \in 1 .. Len(received) /\ i - 1 \in 1 .. Len(received)
        BY <1>3, <3>2
      <4> QED
        BY <1>3, <2>6, <4>1
    <3> QED
      BY <3>1, <3>2
  <2>9. k \in 1 .. Len(received')
    BY <1>3
  <2>10. Seen(new)'
    <3>1. Begins(received[k])'
      BY <2>7 DEF Begins
    <3>2. \A i \in k + 1 .. Len(received') : Follows(received[i], received[i - 1])'
      BY <2>8 DEF Follows
    <3> QED
      BY <1>4, <2>9, <3>1, <3>2 DEF Seen
  <2> QED
    BY <1>3, <2>5, <2>10
<1> QED
  BY <1>5, <1>6

\* Nothing is taken back.
LEMMA StaysSeen ==
  ASSUME UNCHANGED <<msg, received>>, faults \in Nat, faults' \in {faults, faults + 1}
  PROVE  /\ \A p : Begins(p) => Begins(p)'
         /\ \A p : Seen(p) => Seen(p)'
<1>1. \A p : Begins(p) => Begins(p)'
  BY DEF Begins
<1>2. \A p : Seen(p) => Seen(p)'
  BY DEF Seen, Begins, Follows
<1> QED
  BY <1>1, <1>2

\* A request that is processed shows the next chunk, or the same again.
LEMMA PostKeeps ==
  ASSUME MilkyInv, NEW answer \in {"ok", "no_seq", "rejection", "failure", "lost"},
         NEW processed \in BOOLEAN, Post(answer, processed)
  PROVE  MilkyInv'
<1>1. /\ spc = "posting" /\ (answer \in {"ok", "no_seq"} => processed)
      /\ answer # "ok" => faults < MaxFaults
      /\ faults' = IF answer = "ok" THEN faults ELSE faults + 1
      /\ received' = IF processed THEN Append(received, Head(rest)) ELSE received
      /\ UNCHANGED <<msg, plan, rest, packet, adopted>>
  BY DEF Post
<1>2. faults \in Nat /\ faults' \in Nat /\ faults' \in {faults, faults + 1}
      /\ faults' \in 0 .. MaxFaults /\ (faults > 0 => faults' > 0)
      /\ (answer # "ok" => faults' > 0)
  BY <1>1, MilkySendAssumption DEF MilkyInv, STypeOK
<1>3. Sending /\ rest # <<>> /\ Head(rest) = rest[1] /\ rest[1] \in Payload
  <2>1. rest \in Seq(Payload) /\ rest # <<>>
    BY <1>1 DEF MilkyInv, STypeOK
  <2>2. 1 \in 1 .. Len(rest)
    BY <2>1
  <2> QED
    BY <1>1, <2>1, <2>2, ElementOfSeq DEF MilkyInv
<1>n. PICK new : new = rest[1]
  OBVIOUS
<1>4. /\ received' \in Seq(Payload) /\ Len(received') \in Nat /\ NoGaps'
      /\ processed => Seen(new)'
      /\ ~processed => \A p : (Begins(p) => Begins(p)') /\ (Seen(p) => Seen(p)')
  <2>1. CASE processed
    <3>1. received' \in Seq(Payload) /\ NoGaps' /\ Seen(new)'
      BY <1>1, <1>2, <1>3, <1>n, <2>1, IsReceived
    <3> QED
      BY <2>1, <3>1
  <2>2. CASE ~processed
    <3>1. UNCHANGED <<msg, received>>
      BY <1>1, <2>2
    <3>2. NoGaps'
      BY <3>1 DEF MilkyInv, NoGaps, Follows
    <3> QED
      BY <1>2, <2>2, <3>1, <3>2, StaysSeen DEF MilkyInv, STypeOK
  <2> QED
    BY <2>1, <2>2
<1>5. Posted'
  <2>1. CASE processed
    <3>1. Seen(new)' /\ Follows(rest'[1], new) /\ new \in Payload
      BY <1>1, <1>3, <1>4, <1>n, <2>1 DEF Follows
    <3> QED
      BY <3>1 DEF Posted, Follows
  <2>2. CASE ~processed /\ Begins(rest[1])
    <3>1. Begins(new)' /\ rest'[1] = new
      BY <1>1, <1>4, <1>n, <2>2
    <3> QED
      BY <3>1 DEF Posted, Begins
  <2>3. CASE ~processed /\ ~Begins(rest[1])
    <3>1. PICK p \in Payload : Seen(p) /\ Follows(rest[1], p)
      BY <1>3, <2>3 DEF Sending, Posted
    <3>2. Seen(p)' /\ Follows(rest'[1], p)
      BY <1>1, <1>4, <2>3, <3>1
    <3> QED
      BY <3>2 DEF Posted, Follows
  <2> QED
    BY <2>1, <2>2, <2>3
<1>6. Sending'
  BY <1>1, <1>2, <1>3, <1>5 DEF Sending
<1>7. CASE Repeats(answer)
  <2>1. attempt' = attempt + 1 /\ UNCHANGED <<spc, res, reports>>
    BY <1>7 DEF Post
  <2>2. STypeOK'
    <3>1. attempt' \in 1 .. Attempts
      BY <1>7, <2>1, MilkySendAssumption DEF Repeats, MilkyInv, STypeOK
    <3> QED
      BY <1>1, <1>2, <1>4, <2>1, <3>1 DEF MilkyInv, STypeOK
  <2>3. Reported'
    BY <1>1, <2>1 DEF MilkyInv, Reported
  <2> QED
    BY <1>1, <1>4, <1>6, <2>1, <2>2, <2>3 DEF MilkyInv
<1>8. CASE ~Repeats(answer)
  <2>1. /\ res' = [kind |-> IF answer = "lost" THEN "failure" ELSE answer,
                   seq |-> IF answer = "ok" THEN Len(received') ELSE 0]
        /\ reports' = reports \union {[packet |-> packet, res |-> res']}
        /\ spc' = "answered" /\ UNCHANGED attempt
    BY <1>8 DEF Post
  <2>2. res' \in Answers
    BY <1>4, <2>1 DEF Answers
  <2>3. STypeOK'
    <3>1. reports' \subseteq Packets
      BY <2>1, <2>2 DEF MilkyInv, STypeOK, Packets
    <3> QED
      BY <1>1, <1>2, <1>4, <2>1, <2>2, <3>1 DEF MilkyInv, STypeOK
  <2>4. Reported'
    <3>1. packet \in Nat /\ \A r \in reports : r.packet \in Nat /\ r.packet < packet
      BY <1>1 DEF MilkyInv, STypeOK, Packets, Reported
    <3>2. \A r \in reports' : r \in reports \/ (r.packet = packet /\ r.res = res')
      BY <2>1
    <3> QED
      BY <1>1, <2>1, <3>1, <3>2 DEF Reported
  <2>5. Answered'
    <3>1. Successful(res') => answer \in {"ok", "no_seq"}
      BY <2>1 DEF Successful
    <3>2. ~Successful(res') => answer # "ok"
      BY <2>1 DEF Successful
    <3>3. rest'[1] = new
      BY <1>1, <1>n
    <3>4. res'.kind = "ok" => res'.seq = Len(received')
      BY <2>1
    <3> QED
      BY <1>1, <1>2, <1>4, <3>1, <3>2, <3>3, <3>4 DEF Answered, Successful, Seen
  <2> QED
    BY <1>4, <1>6, <2>1, <2>3, <2>4, <2>5 DEF MilkyInv
<1> QED
  BY <1>7, <1>8

\* After a chunk that has gone through comes the one that goes on.
LEMMA NextKeeps ==
  ASSUME MilkyInv, NextChunk
  PROVE  MilkyInv'
<1>1. /\ spc = "answered" /\ Successful(res) /\ Len(rest) > 1
      /\ plan' = plan /\ rest' = Tail(rest) /\ packet' = packet + 1 /\ attempt' = 1
      /\ spc' = "posting" /\ UNCHANGED <<msg, res, reports, received, faults, adopted>>
  BY DEF NextChunk, MoreChunks, SendForm
<1>2. Sending /\ Seen(rest[1]) /\ rest \in Seq(Payload)
  BY <1>1 DEF MilkyInv, STypeOK, Answered
<1>3. /\ rest' \in Seq(Payload) /\ rest' # <<>> /\ Len(rest') = Len(rest) - 1
      /\ \A i \in 1 .. Len(rest') : rest'[i] = rest[i + 1]
      /\ Len(rest) \in Nat /\ Len(rest') >= 1
  <2>1. rest # <<>> /\ rest \in Seq(Payload) /\ rest' = Tail(rest) /\ Len(rest) > 1
    BY <1>1, <1>2
  <2>2. Len(rest) \in Nat
    BY <2>1
  <2>3. rest' \in Seq(Payload) /\ Len(rest') = Len(rest) - 1
    BY <2>1
  <2>4. \A i \in 1 .. Len(rest') : rest'[i] = rest[i + 1]
    BY <2>1
  <2>5. Len(rest') >= 1
    BY <2>1, <2>2, <2>3
  <2> QED
    BY <2>2, <2>3, <2>4, <2>5
<1>4. /\ \A i \in 2 .. Len(rest') : rest'[i].text.first = rest'[i - 1].text.last + 1
      /\ rest'[Len(rest')].text.last = Length(msg.text)
      /\ rest'[1].text.first = rest[1].text.last + 1
  <2>1. \A i \in 2 .. Len(rest) : rest[i].text.first = rest[i - 1].text.last + 1
    BY <1>2 DEF Sending
  <2>2. rest[Len(rest)].text.last = Length(msg.text)
    BY <1>2 DEF Sending
  <2>3. ASSUME NEW i \in 2 .. Len(rest') PROVE rest'[i].text.first = rest'[i - 1].text.last + 1
    <3>1. i + 1 \in 2 .. Len(rest) /\ i \in 1 .. Len(rest') /\ i - 1 \in 1 .. Len(rest')
          /\ (i - 1) + 1 = i /\ (i + 1) - 1 = i
      BY <1>3
    <3>2. rest[i + 1].text.first = rest[(i + 1) - 1].text.last + 1
      BY <2>1, <3>1
    <3>3. rest'[i] = rest[i + 1] /\ rest'[i - 1] = rest[i]
      BY <1>3, <3>1
    <3> QED
      BY <3>1, <3>2, <3>3
  <2>4. rest'[Len(rest')] = rest[Len(rest)] /\ rest'[1] = rest[2]
    <3>1. Len(rest') \in 1 .. Len(rest') /\ 1 \in 1 .. Len(rest') /\ Len(rest') + 1 = Len(rest)
      BY <1>3
    <3> QED
      BY <1>3, <3>1
  <2>5. 2 \in 2 .. Len(rest)
    BY <1>1, <1>3
  <2> QED
    BY <2>1, <2>2, <2>3, <2>4, <2>5
<1>5. Posted'
  <2>1. PICK p : p = rest[1]
    OBVIOUS
  <2>2. Seen(p)'
    BY <1>1, <1>2, <2>1 DEF Seen, Begins, Follows
  <2>3. p \in Payload
    <3>1. 1 \in 1 .. Len(rest)
      BY <1>1, <1>3
    <3> QED
      BY <1>2, <2>1, <3>1, ElementOfSeq
  <2>4. Follows(rest'[1], p)
    BY <1>4, <2>1 DEF Follows
  <2> QED
    BY <2>2, <2>3, <2>4 DEF Posted, Follows
<1>6. Sending'
  BY <1>1, <1>2, <1>3, <1>4, <1>5 DEF Sending
<1>7. STypeOK'
  BY <1>1, <1>3, MilkySendAssumption DEF MilkyInv, STypeOK
<1>8. NoGaps'
  BY <1>1 DEF MilkyInv, NoGaps, Follows
<1>9. Reported'
  <2>1. packet \in Nat /\ \A r \in reports : r.packet \in Nat
    BY DEF MilkyInv, STypeOK, Packets
  <2> QED
    BY <1>1, <2>1 DEF MilkyInv, Reported
<1> QED
  BY <1>1, <1>6, <1>7, <1>8, <1>9 DEF MilkyInv

\* send() goes by an answer that has succeeded only when it is the last one.
LEMMA OutcomeIs ==
  ASSUME MilkyInv, spc = "answered"
  PROVE  /\ Outcome \in Packets
         /\ Successful(Outcome.res) => Successful(res) /\ Outcome = [packet |-> packet, res |-> res]
         /\ ~Successful(Outcome.res) => faults > 0
<1>1. adopted \in Packets /\ [packet |-> packet, res |-> res] \in Packets
  BY DEF MilkyInv, STypeOK, Packets
<1>2. CASE plan = "first" \/ Successful(res)
  <2>1. Outcome = [packet |-> packet, res |-> res]
    BY <1>2 DEF Outcome
  <2> QED
    BY <1>1, <1>2, <2>1 DEF MilkyInv, Answered
<1>3. CASE ~ (plan = "first" \/ Successful(res))
  <2>1. Outcome = adopted
    BY <1>3 DEF Outcome
  <2> QED
    BY <1>1, <1>3, <2>1 DEF MilkyInv, Sending
<1> QED
  BY <1>2, <1>3

\* send() goes by the last answer of the form that ended.
LEMMA ConcludeKeeps ==
  ASSUME MilkyInv, Conclude
  PROVE  MilkyInv'
<1>1. /\ spc = "answered" /\ ~MoreChunks /\ adopted' = Outcome
      /\ spc' = IF Outcome.res.kind = "ok" THEN "fetching" ELSE "failed"
      /\ UNCHANGED <<msg, plan, rest, packet, attempt, res, reports, received, faults>>
  BY DEF Conclude, FormEnds
<1>2. adopted' \in Packets
  BY <1>1, OutcomeIs
<1>3. STypeOK'
  BY <1>1, <1>2 DEF MilkyInv, STypeOK
<1>4. NoGaps'
  BY <1>1 DEF MilkyInv, NoGaps, Follows
<1>5. Reported'
  BY <1>1 DEF MilkyInv, Reported
<1>6. CASE Outcome.res.kind = "ok"
  <2>1. Successful(res) /\ Outcome = [packet |-> packet, res |-> res] /\ res.kind = "ok"
    BY <1>1, <1>6, OutcomeIs DEF Successful
  <2>2. Len(rest) = 1 /\ rest \in Seq(Payload) /\ rest[1].text.last = Length(msg.text)
    <3>1. rest \in Seq(Payload) /\ rest # <<>> /\ ~ (Len(rest) > 1)
      BY <1>1, <2>1 DEF MoreChunks, MilkyInv, STypeOK
    <3>2. Len(rest) = 1
      <4>1. PICK n \in Nat : n = Len(rest)
        BY <3>1
      <4>2. n # 0 /\ ~ (n > 1)
        BY <3>1, <4>1
      <4> QED
        BY <4>1, <4>2
    <3> QED
      BY <1>1, <3>1, <3>2 DEF MilkyInv, Sending
  <2>3. rest[1] \in Payload
    <3>1. 1 \in 1 .. Len(rest)
      BY <2>2
    <3> QED
      BY <2>2, <3>1, ElementOfSeq
  <2>4. AllSeen
    BY <1>1, <2>1, <2>2, <2>3 DEF AllSeen, MilkyInv, Answered
  <2>5. AllSeen'
    BY <1>1, <2>4 DEF AllSeen, Seen, Begins, Follows
  <2> QED
    BY <1>1, <1>3, <1>4, <1>5, <1>6, <2>1, <2>5 DEF MilkyInv
<1>7. CASE ~ (Outcome.res.kind = "ok")
  BY <1>1, <1>3, <1>4, <1>5, <1>7 DEF MilkyInv
<1> QED
  BY <1>6, <1>7

\* What is fetched is the answer that send() goes by.
LEMMA FetchKeeps ==
  ASSUME MilkyInv, Fetch
  PROVE  MilkyInv'
<1>1. PICK report \in reports : report.packet = adopted.packet /\ reports' = reports \ {report}
                              /\ res' = report.res
  BY DEF Fetch
<1>2. /\ spc = "fetching" /\ spc' = "returned"
      /\ UNCHANGED <<msg, plan, rest, packet, attempt, adopted, received, faults>>
  BY DEF Fetch
<1>3. adopted = [packet |-> packet, res |-> res]
  BY <1>2 DEF MilkyInv
<1>4. res' = res
  BY <1>1, <1>2, <1>3 DEF MilkyInv, Reported
<1>5. STypeOK' /\ NoGaps' /\ Reported'
  BY <1>1, <1>2, <1>4 DEF MilkyInv, STypeOK, NoGaps, Follows, Reported
<1>6. AllSeen'
  BY <1>2, <1>4 DEF MilkyInv, AllSeen, Seen, Begins, Follows
<1> QED
  BY <1>2, <1>5, <1>6 DEF MilkyInv

\* Every step of send() keeps the invariant.
LEMMA MilkyStep == MilkyInv /\ [SNext]_svars => MilkyInv'
<1> SUFFICES ASSUME MilkyInv, [SNext]_svars PROVE MilkyInv'
  OBVIOUS
<1>0. msg \in Messages /\ WithoutReply(msg) \in Messages
      /\ WithoutReply(msg).text = msg.text /\ WithoutReply(msg).others = msg.others
  BY DEF MilkyInv, STypeOK, Messages, WithoutReply
<1>1. CASE Refuse
  BY <1>1 DEF Refuse, MilkyInv, STypeOK, NoGaps, Follows, Reported
<1>2. CASE Begin
  <2>1. Carries(Payloads(msg), msg)
    BY <1>0, PayloadsCarry
  <2>2. SendForm("first", Payloads(msg)) /\ adopted' = adopted /\ adopted \in Packets
    BY <1>2 DEF Begin, MilkyInv, STypeOK
  <2> QED
    BY <1>0, <2>1, <2>2, FormBegins
<1>3. ASSUME NEW answer \in {"ok", "no_seq", "rejection", "failure", "lost"},
             NEW processed \in BOOLEAN, Post(answer, processed)
      PROVE  MilkyInv'
  BY <1>3, PostKeeps
<1>4. CASE NextChunk
  BY <1>4, NextKeeps
<1>5. CASE Fallback
  <2>1. spc = "answered" /\ Outcome.res.kind = "rejection" /\ adopted' = Outcome
        /\ SendForm("fallback", Payloads(WithoutReply(msg)))
    BY <1>5 DEF Fallback, FormEnds, FallsBack
  <2>2. adopted' \in Packets /\ ~Successful(adopted'.res) /\ faults > 0
    BY <2>1, OutcomeIs DEF Successful
  <2>3. Carries(Payloads(WithoutReply(msg)), WithoutReply(msg))
    BY <1>0, PayloadsCarry
  <2> QED
    BY <1>0, <2>1, <2>2, <2>3, FormBegins
<1>6. CASE Recover
  <2>1. spc = "answered" /\ ~Successful(Outcome.res) /\ adopted' = Outcome /\ Smaller # <<>>
        /\ SendForm("recovery", Smaller)
    BY <1>6 DEF Recover, FormEnds, Recovers
  <2>2. adopted' \in Packets /\ ~Successful(adopted'.res) /\ faults > 0
    BY <2>1, OutcomeIs
  <2>3. Carries(Smaller, WithoutReply(msg))
    BY <1>0, <2>1, ChunksCarry, MilkySendAssumption DEF Smaller
  <2> QED
    BY <1>0, <2>1, <2>2, <2>3, FormBegins
<1>7. CASE Conclude
  BY <1>7, ConcludeKeeps
<1>8. CASE Fetch
  BY <1>8, FetchKeeps
<1>9. CASE UNCHANGED svars
  BY <1>9 DEF svars, MilkyInv, STypeOK, NoGaps, Follows, Reported, Sending, Posted, Answered,
     AllSeen, Seen, Begins
<1> QED
  BY <1>1, <1>2, <1>3, <1>4, <1>5, <1>6, <1>7, <1>8, <1>9 DEF SNext

\* Nothing has been sent.
LEMMA MilkyInit == SInit => MilkyInv
<1> SUFFICES ASSUME SInit PROVE MilkyInv
  OBVIOUS
<1>1. /\ msg \in Messages /\ spc = "start" /\ plan = "first" /\ rest = <<>> /\ packet = 0
      /\ attempt = 1 /\ res = NoAnswer.res /\ adopted = NoAnswer /\ reports = {}
      /\ received = <<>> /\ faults = 0
  BY DEF SInit
<1>2. NoAnswer \in Packets /\ NoAnswer.res \in Answers
  BY DEF NoAnswer, Packets, Answers
<1>3. STypeOK
  BY <1>1, <1>2, MilkySendAssumption DEF STypeOK
<1> QED
  BY <1>1, <1>3 DEF MilkyInv, NoGaps, Reported

\* What the recipient of a text sees has no gaps, and the last of it is the whole
\* message when send() returns: for any lines, limits and faults.
LEMMA MilkyWhole == MilkyInv => NoGaps /\ Delivered
<1> SUFFICES ASSUME MilkyInv, spc = "returned" PROVE Delivered
  BY DEF MilkyInv, Delivered
<1>1. PICK p \in Payload : Seen(p) /\ p.text.last = Length(msg.text)
  BY DEF MilkyInv, AllSeen
<1>2. res.seq = Len(received) /\ received \in Seq(Payload) /\ received # <<>>
  BY <1>1 DEF MilkyInv, AllSeen, STypeOK, Seen
<1>3. Len(received) > 0 /\ Last(received).text.last = Length(msg.text)
  BY <1>1, <1>2 DEF Seen
<1> QED
  BY <1>1, <1>2, <1>3 DEF Delivered, Seen, Begins

\* Whatever is lost, refused or sent again, a text has no gaps for its recipient, and
\* all of it is there when send() returns (Actions.send of Milky.py): for any texts.
THEOREM SendingIsWhole == SSpec => [](NoGaps /\ Delivered)
BY MilkyInit, MilkyStep, MilkyWhole, PTL DEF SSpec

(***************************************************************************)
(* FeishuSend: for messages of any length, whatever is uploaded and sent.  *)
(***************************************************************************)

Entry == [of : Seq(1 .. MaxParts), answers : 0 .. MaxParts]
Rising(s) == \A i, j \in 1 .. Len(s) : i < j => s[i] < s[j]
InChat(i) == \E k \in 1 .. Len(chat) : Contains(chat[k].of, i)
OnTheWay == upc \in {"parts", "sending"}

\* The fields, and what each says of how far send() has come.
Sizes ==
  /\ parts \in Seq(PartKinds) /\ Len(parts) <= MaxParts
  /\ upc \in {"parts", "sending", "concluding", "returned", "raised"}
  /\ at \in 1 .. Len(parts) + 1 /\ replyTo \in 0 .. Len(parts)
  /\ upc = "sending" => at <= Len(parts) /\ parts[at] = "media"
  /\ textParts \in Seq(1 .. MaxParts) /\ sentIds \in Seq(0 .. MaxParts + 1)
  /\ chat \in Seq(Entry) /\ Len(chat) <= MaxParts + 1
  /\ OnTheWay => Len(chat) < at

\* What is collected and shown keeps the order of the parts.
InOrder ==
  /\ Rising(textParts) /\ \A i \in 1 .. Len(textParts) : textParts[i] < at
  /\ \A k \in 1 .. Len(chat) : Rising(chat[k].of)

\* The last reply that has been passed is the one that is kept.
Reply ==
  IF replyTo = 0 THEN \A i \in 1 .. at - 1 : parts[i] # "reply"
  ELSE replyTo < at /\ parts[replyTo] = "reply"

Ids ==
  /\ returnedId \in 0 .. Len(chat)
  /\ \A i \in 1 .. Len(sentIds) : sentIds[i] <= Len(chat)

\* Each part that has been passed is in the conversation or goes into the text.
Passed ==
  OnTheWay =>
    \A i \in 1 .. at - 1 : parts[i] \in {"media", "text"} => Contains(textParts, i) \/ InChat(i)

Concluded ==
  upc \in {"concluding", "returned"} =>
    /\ at = Len(parts) + 1
    /\ \A i \in 1 .. Len(parts) : parts[i] \in {"media", "text"} => InChat(i)
    /\ HasText => chat # <<>> /\ Last(chat).answers = replyTo

SendInv == Sizes /\ InOrder /\ Reply /\ Ids /\ Passed /\ Concluded

\* Nothing has been collected or shown.
LEMMA SendInit == UInit => SendInv
<1> SUFFICES ASSUME UInit PROVE SendInv
  OBVIOUS
<1>1. PICK n \in 0 .. MaxParts : parts \in [1 .. n -> PartKinds]
  BY DEF UInit
<1>2. parts \in Seq(PartKinds) /\ Len(parts) = n /\ n \in Nat /\ n <= MaxParts /\ MaxParts \in Nat
  BY <1>1, FeishuSendAssumption
<1>3. at = 1 /\ upc = "parts" /\ replyTo = 0 /\ textParts = <<>> /\ sentIds = <<>> /\ chat = <<>>
      /\ returnedId = 0
  BY DEF UInit
<1>4. Sizes
  BY <1>2, <1>3 DEF Sizes, OnTheWay
<1> QED
  BY <1>2, <1>3, <1>4 DEF SendInv, InOrder, Rising, Reply, Ids, Passed, Concluded

\* A text part or a notice is added, and send() goes on.
LEMMA Collects ==
  ASSUME SendInv, OnTheWay, at <= Len(parts), NextPart, textParts' = Append(textParts, at),
         parts[at] # "reply", UNCHANGED <<replyTo, sentIds>>,
         \/ UNCHANGED chat
         \/ upc = "sending" /\ chat' = Append(chat, Media)
  PROVE  SendInv'
<1>1. /\ upc' = "parts" /\ at' = at + 1 /\ UNCHANGED <<parts, returnedId, replyTo, sentIds>>
      /\ at \in Nat /\ Len(parts) \in Nat /\ at >= 1 /\ MaxParts \in Nat /\ Len(parts) <= MaxParts
  BY FeishuSendAssumption DEF NextPart, SendInv, Sizes
<1>2. at \in 1 .. MaxParts
  BY <1>1
<1>t. /\ textParts' \in Seq(1 .. MaxParts) /\ Len(textParts') = Len(textParts) + 1
      /\ Len(textParts) \in Nat
      /\ \A i \in 1 .. Len(textParts) : textParts'[i] = textParts[i]
      /\ textParts'[Len(textParts) + 1] = at
      /\ \A i \in 1 .. Len(textParts') : i \in 1 .. Len(textParts) \/ i = Len(textParts) + 1
  BY <1>2, OneMore DEF SendInv, Sizes
<1>c. /\ chat' \in Seq(Entry) /\ Len(chat') \in Len(chat) .. Len(chat) + 1 /\ Len(chat) \in Nat
      /\ \A k \in 1 .. Len(chat) : chat'[k] = chat[k]
      /\ \A k \in 1 .. Len(chat') : k \in 1 .. Len(chat) \/ chat'[k] = Media
  <2>1. Media \in Entry
    <3>1. <<at>> \in Seq(1 .. MaxParts) /\ 0 \in 0 .. MaxParts
      BY <1>1, <1>2
    <3> QED
      BY <3>1 DEF Media, Entry
  <2>2. CASE UNCHANGED chat
    BY <2>2 DEF SendInv, Sizes
  <2>3. CASE chat' = Append(chat, Media)
    BY <2>1, <2>3, OneMore DEF SendInv, Sizes
  <2> QED
    BY <2>2, <2>3
<1>3. Sizes'
  <2>1. Len(chat) < at
    BY DEF SendInv, Sizes
  <2> QED
    BY <1>1, <1>t, <1>c, <2>1 DEF SendInv, Sizes, OnTheWay
<1>4. InOrder'
  <2>1. \A i \in 1 .. Len(textParts) : textParts[i] \in Nat /\ textParts[i] < at
    <3>1. \A i \in 1 .. Len(textParts) : textParts[i] \in 1 .. MaxParts
      BY ElementOfSeq DEF SendInv, Sizes
    <3> QED
      BY <1>1, <3>1 DEF SendInv, InOrder
  <2>2. Rising(textParts')
    BY <1>1, <1>t, <2>1 DEF SendInv, InOrder, Rising
  <2>3. \A i \in 1 .. Len(textParts') : textParts'[i] < at'
    BY <1>1, <1>t, <2>1
  <2>4. Rising(Media.of)
    BY DEF Rising, Media
  <2>5. \A k \in 1 .. Len(chat') : Rising(chat'[k].of)
    BY <1>c, <2>4 DEF SendInv, InOrder
  <2> QED
    BY <2>2, <2>3, <2>5 DEF InOrder
<1>5. Reply'
  BY <1>1 DEF SendInv, Reply, Sizes
<1>6. Ids'
  <2>1. \A i \in 1 .. Len(sentIds) : sentIds[i] \in Nat /\ sentIds[i] <= Len(chat)
    <3>1. \A i \in 1 .. Len(sentIds) : sentIds[i] \in 0 .. MaxParts + 1
      BY ElementOfSeq DEF SendInv, Sizes
    <3> QED
      BY <1>1, <3>1 DEF SendInv, Ids
  <2> QED
    BY <1>1, <1>c, <2>1 DEF SendInv, Ids
<1>7. Passed'
  <2> SUFFICES ASSUME NEW i \in 1 .. at, parts[i] \in {"media", "text"}
               PROVE  Contains(textParts', i) \/ InChat(i)'
    BY <1>1 DEF Passed
  <2>1. CASE i = at
    BY <1>t, <2>1 DEF Contains
  <2>2. CASE i # at /\ Contains(textParts, i)
    BY <1>t, <2>2 DEF Contains
  <2>3. CASE i # at /\ InChat(i)
    BY <1>c, <2>3 DEF InChat
  <2> QED
    BY <1>1, <2>1, <2>2, <2>3 DEF SendInv, Passed
<1> QED
  BY <1>1, <1>3, <1>4, <1>5, <1>6, <1>7 DEF SendInv, Concluded

\* A message goes into the conversation and its id into the list.
LEMMA Arrives ==
  ASSUME SendInv, NEW m \in Entry, Rising(m.of), NEW hasId \in BOOLEAN, Len(chat) <= MaxParts,
         chat' = Append(chat, m), sentIds' = Append(sentIds, ItsId(m, hasId)), UNCHANGED returnedId
  PROVE  /\ chat' \in Seq(Entry) /\ Len(chat') = Len(chat) + 1 /\ Len(chat) \in Nat
         /\ \A k \in 1 .. Len(chat) : chat'[k] = chat[k]
         /\ chat'[Len(chat) + 1] = m
         /\ sentIds' \in Seq(0 .. MaxParts + 1) /\ Ids'
         /\ \A k \in 1 .. Len(chat') : Rising(chat'[k].of)
         /\ \A i \in Nat : Contains(m.of, i) \/ InChat(i) => InChat(i)'
<1>1. ItsId(m, hasId) \in 0 .. MaxParts + 1 /\ ItsId(m, hasId) <= Len(chat) + 1 /\ Len(chat) \in Nat
  BY FeishuSendAssumption DEF SendInv, Sizes, ItsId
<1>c. /\ chat' \in Seq(Entry) /\ Len(chat') = Len(chat) + 1 /\ Len(chat) \in Nat
      /\ \A k \in 1 .. Len(chat) : chat'[k] = chat[k]
      /\ chat'[Len(chat) + 1] = m
      /\ \A k \in 1 .. Len(chat') : k \in 1 .. Len(chat) \/ k = Len(chat) + 1
  BY OneMore DEF SendInv, Sizes
<1>i. /\ sentIds' \in Seq(0 .. MaxParts + 1) /\ Len(sentIds) \in Nat
      /\ \A k \in 1 .. Len(sentIds) : sentIds'[k] = sentIds[k]
      /\ sentIds'[Len(sentIds) + 1] = ItsId(m, hasId)
      /\ \A k \in 1 .. Len(sentIds') : k \in 1 .. Len(sentIds) \/ k = Len(sentIds) + 1
  <2>1. sentIds \in Seq(0 .. MaxParts + 1)
    BY DEF SendInv, Sizes
  <2> QED
    BY <1>1, <2>1, OneMore
<1>2. Ids'
  <2>1. \A i \in 1 .. Len(sentIds) : sentIds[i] \in Nat /\ sentIds[i] <= Len(chat)
    <3>1. \A i \in 1 .. Len(sentIds) : sentIds[i] \in 0 .. MaxParts + 1
      BY ElementOfSeq DEF SendInv, Sizes
    <3> QED
      BY <3>1, FeishuSendAssumption DEF SendInv, Ids
  <2>2. returnedId' \in 0 .. Len(chat')
    BY <1>c DEF SendInv, Ids
  <2>3. \A i \in 1 .. Len(sentIds') : sentIds'[i] <= Len(chat')
    BY <1>1, <1>c, <1>i, <2>1
  <2> QED
    BY <2>2, <2>3 DEF Ids
<1>3. \A k \in 1 .. Len(chat') : Rising(chat'[k].of)
  BY <1>c DEF SendInv, InOrder
<1>4. ASSUME NEW i \in Nat, Contains(m.of, i) \/ InChat(i) PROVE InChat(i)'
  <2>1. CASE InChat(i)
    BY <1>c, <2>1 DEF InChat
  <2>2. CASE Contains(m.of, i)
    <3>1. Len(chat) + 1 \in 1 .. Len(chat') /\ Contains(chat'[Len(chat) + 1].of, i)
      BY <1>c, <2>2
    <3> QED
      BY <3>1 DEF InChat
  <2> QED
    BY <1>4, <2>1, <2>2
<1> QED
  BY <1>c, <1>i, <1>2, <1>3, <1>4

\* A medium is in the conversation, under its own id.
LEMMA MediaArrives ==
  ASSUME SendInv, NEW hasId \in BOOLEAN, SendMedia(hasId)
  PROVE  SendInv'
<1>1. /\ upc = "sending" /\ upc' = "parts" /\ at' = at + 1
      /\ UNCHANGED <<parts, returnedId, replyTo, textParts>>
      /\ chat' = Append(chat, Media) /\ sentIds' = Append(sentIds, ItsId(Media, hasId))
  BY DEF SendMedia, NextPart, Shown
<1>2. /\ at \in 1 .. Len(parts) /\ at \in Nat /\ Len(parts) \in Nat /\ Len(parts) <= MaxParts
      /\ MaxParts \in Nat /\ Len(chat) < at /\ Len(chat) \in Nat
  BY <1>1, FeishuSendAssumption DEF SendInv, Sizes, OnTheWay
<1>3. Media \in Entry /\ Rising(Media.of) /\ Contains(Media.of, at)
  <2>1. <<at>> \in Seq(1 .. MaxParts) /\ 0 \in 0 .. MaxParts
    BY <1>2
  <2> QED
    BY <2>1 DEF Media, Entry, Rising, Contains
<1>4. /\ chat' \in Seq(Entry) /\ Len(chat') = Len(chat) + 1
      /\ sentIds' \in Seq(0 .. MaxParts + 1) /\ Ids'
      /\ \A k \in 1 .. Len(chat') : Rising(chat'[k].of)
      /\ \A i \in Nat : Contains(Media.of, i) \/ InChat(i) => InChat(i)'
  <2>1. Len(chat) <= MaxParts
    BY <1>2
  <2> QED
    BY <1>1, <1>3, <2>1, Arrives
<1>5. Sizes'
  BY <1>1, <1>2, <1>4 DEF SendInv, Sizes, OnTheWay
<1>6. InOrder'
  <2>1. \A i \in 1 .. Len(textParts) : textParts[i] \in Nat /\ textParts[i] < at
    <3>1. \A i \in 1 .. Len(textParts) : textParts[i] \in 1 .. MaxParts
      BY ElementOfSeq DEF SendInv, Sizes
    <3> QED
      BY <1>2, <3>1 DEF SendInv, InOrder
  <2>2. \A i \in 1 .. Len(textParts) : textParts[i] < at + 1
    BY <1>2, <2>1
  <2> QED
    BY <1>1, <1>4, <2>2 DEF SendInv, InOrder, Rising
<1>7. Reply'
  BY <1>1, <1>2 DEF SendInv, Sizes, Reply
<1>8. Passed'
  <2> SUFFICES ASSUME NEW i \in 1 .. at, parts[i] \in {"media", "text"}
               PROVE  Contains(textParts', i) \/ InChat(i)'
    BY <1>1, <1>2 DEF Passed
  <2>1. CASE i = at
    BY <1>2, <1>3, <1>4, <2>1
  <2>2. CASE i # at /\ Contains(textParts, i)
    BY <1>1, <2>2
  <2>3. CASE i # at /\ InChat(i)
    BY <1>2, <1>4, <2>3
  <2> QED
    BY <1>1, <1>2, <2>1, <2>2, <2>3 DEF SendInv, Passed, OnTheWay
<1> QED
  BY <1>1, <1>4, <1>5, <1>6, <1>7, <1>8 DEF SendInv, Concluded

\* The text is there with all that was collected.
LEMMA TextArrives ==
  ASSUME SendInv, NEW hasId \in BOOLEAN, SendText(hasId)
  PROVE  SendInv'
<1>1. /\ upc = "parts" /\ at > Len(parts) /\ upc' = "concluding"
      /\ UNCHANGED <<parts, at, replyTo, textParts, returnedId>>
      /\ chat' = Append(chat, Text) /\ sentIds' = Append(sentIds, ItsId(Text, hasId))
  BY DEF SendText, PartsDone, Shown
<1>2. /\ at = Len(parts) + 1 /\ Len(parts) \in Nat /\ Len(parts) <= MaxParts
      /\ MaxParts \in Nat /\ Len(chat) < at /\ Len(chat) \in Nat
  <2>1. at \in 1 .. Len(parts) + 1 /\ Len(parts) \in Nat /\ Len(parts) <= MaxParts
    BY DEF SendInv, Sizes
  <2>2. Len(chat) < at /\ Len(chat) \in Nat
    BY <1>1 DEF SendInv, Sizes, OnTheWay
  <2> QED
    BY <1>1, <2>1, <2>2, FeishuSendAssumption
<1>3. Text \in Entry /\ Rising(Text.of)
  <2>1. replyTo \in 0 .. MaxParts /\ textParts \in Seq(1 .. MaxParts)
    BY <1>2 DEF SendInv, Sizes
  <2> QED
    BY <2>1 DEF Text, Entry, SendInv, InOrder
<1>4. /\ chat' \in Seq(Entry) /\ Len(chat') = Len(chat) + 1 /\ chat'[Len(chat) + 1] = Text
      /\ sentIds' \in Seq(0 .. MaxParts + 1) /\ Ids'
      /\ \A k \in 1 .. Len(chat') : Rising(chat'[k].of)
      /\ \A i \in Nat : Contains(Text.of, i) \/ InChat(i) => InChat(i)'
  BY <1>1, <1>2, <1>3, Arrives
<1>5. Sizes'
  BY <1>1, <1>2, <1>4 DEF SendInv, Sizes, OnTheWay
<1>6. InOrder'
  BY <1>1, <1>4 DEF SendInv, InOrder, Rising
<1>7. Reply'
  BY <1>1 DEF SendInv, Reply
<1>8. Concluded'
  <2>1. \A i \in 1 .. Len(parts) : parts[i] \in {"media", "text"} => InChat(i)'
    <3>1. \A i \in 1 .. Len(parts) :
            parts[i] \in {"media", "text"} => Contains(textParts, i) \/ InChat(i)
      BY <1>1, <1>2 DEF SendInv, Passed, OnTheWay
    <3> QED
      BY <1>4, <3>1 DEF Text
  <2>2. chat' # <<>> /\ Last(chat').answers = replyTo
    BY <1>2, <1>4 DEF Last, Text
  <2> QED
    BY <1>1, <1>2, <2>1, <2>2 DEF Concluded
<1> QED
  BY <1>1, <1>4, <1>5, <1>6, <1>7, <1>8 DEF SendInv, Passed, OnTheWay

\* The text is there or only its answer is lost; the caller gets the exception.
LEMMA TextLost ==
  ASSUME SendInv, NEW processed \in BOOLEAN, TextFails(processed)
  PROVE  SendInv'
<1>1. CASE processed
  <2>1. /\ upc = "parts" /\ at > Len(parts) /\ upc' = "raised" /\ chat' = Append(chat, Text)
        /\ UNCHANGED <<parts, at, replyTo, textParts, sentIds, returnedId>>
    BY <1>1 DEF TextFails, PartsDone, Shown
  <2>2. /\ at = Len(parts) + 1 /\ Len(parts) \in Nat /\ Len(parts) <= MaxParts
        /\ MaxParts \in Nat /\ Len(chat) < at /\ Len(chat) \in Nat
    <3>1. at \in 1 .. Len(parts) + 1 /\ Len(parts) \in Nat /\ Len(parts) <= MaxParts
      BY DEF SendInv, Sizes
    <3>2. Len(chat) < at /\ Len(chat) \in Nat
      BY <2>1 DEF SendInv, Sizes, OnTheWay
    <3> QED
      BY <2>1, <3>1, <3>2, FeishuSendAssumption
  <2>3. Text \in Entry /\ Rising(Text.of)
    <3>1. replyTo \in 0 .. MaxParts /\ textParts \in Seq(1 .. MaxParts)
      BY <2>2 DEF SendInv, Sizes
    <3> QED
      BY <3>1 DEF Text, Entry, SendInv, InOrder
  <2>c. /\ chat' \in Seq(Entry) /\ Len(chat') = Len(chat) + 1
        /\ \A k \in 1 .. Len(chat) : chat'[k] = chat[k]
        /\ chat'[Len(chat) + 1] = Text
        /\ \A k \in 1 .. Len(chat') : k \in 1 .. Len(chat) \/ k = Len(chat) + 1
    BY <2>1, <2>3, OneMore DEF SendInv, Sizes
  <2>4. Sizes'
    BY <2>1, <2>2, <2>c DEF SendInv, Sizes, OnTheWay
  <2>5. InOrder'
    BY <2>1, <2>3, <2>c DEF SendInv, InOrder, Rising
  <2>6. Ids'
    <3>1. \A i \in 1 .. Len(sentIds) : sentIds[i] \in Nat /\ sentIds[i] <= Len(chat)
      <4>1. \A i \in 1 .. Len(sentIds) : sentIds[i] \in 0 .. MaxParts + 1
        BY ElementOfSeq DEF SendInv, Sizes
      <4> QED
        BY <4>1, FeishuSendAssumption DEF SendInv, Ids
    <3> QED
      BY <2>1, <2>2, <2>c, <3>1 DEF SendInv, Ids
  <2>7. Reply' /\ Passed' /\ Concluded'
    BY <2>1 DEF SendInv, Reply, Passed, Concluded, OnTheWay
  <2> QED
    BY <2>4, <2>5, <2>6, <2>7 DEF SendInv
<1>2. CASE ~processed
  BY <1>2 DEF TextFails, Shown, SendInv, Sizes, InOrder, Rising, Reply, Ids, Passed, Concluded,
     OnTheWay
<1> QED
  BY <1>1, <1>2

\* The id handed over is one that was put into the list.
LEMMA IdGiven ==
  ASSUME SendInv
  PROVE  LastId \in 0 .. Len(chat)
<1> DEFINE filled == {i \in 1 .. Len(sentIds) : sentIds[i] # 0}
<1>1. CASE filled = {}
  BY <1>1 DEF LastId, SendInv, Sizes
<1>2. CASE filled # {}
  <2>1. PICK i \in filled : \A j \in filled : j <= i
    <3>1. Len(sentIds) \in Nat /\ filled \in SUBSET (1 .. Len(sentIds))
      BY DEF SendInv, Sizes
    <3> HIDE DEF filled
    <3> QED
      BY <1>2, <3>1, GreatestNat
  <2>2. Max(filled) \in filled
    <3>1. \A j \in filled : i >= j
      BY <2>1 DEF SendInv, Sizes
    <3> QED
      BY <2>1, <3>1 DEF Max
  <2>3. LastId = sentIds[Max(filled)]
    BY <1>2 DEF LastId
  <2>4. \A k \in 1 .. Len(sentIds) : sentIds[k] \in 0 .. MaxParts + 1
    BY ElementOfSeq DEF SendInv, Sizes
  <2>5. \A k \in 1 .. Len(sentIds) : sentIds[k] \in 0 .. Len(chat)
    BY <2>4 DEF SendInv, Sizes, Ids
  <2> QED
    BY <2>2, <2>3, <2>5
<1> QED
  BY <1>1, <1>2

\* Every step of send() keeps the invariant.
LEMMA SendStep == SendInv /\ [UNext]_uvars => SendInv'
<1> SUFFICES ASSUME SendInv, [UNext]_uvars PROVE SendInv'
  OBVIOUS
<1>0. at \in Nat /\ at >= 1 /\ Len(parts) \in Nat /\ parts \in Seq(PartKinds)
  BY DEF SendInv, Sizes
<1>1. CASE NoTarget
  BY <1>1 DEF NoTarget, SendInv, Sizes, InOrder, Rising, Reply, Ids, Passed, Concluded, OnTheWay
<1>2. CASE TakeReply
  <2>1. /\ upc = "parts" /\ at <= Len(parts) /\ parts[at] = "reply" /\ upc' = "parts"
        /\ at' = at + 1 /\ replyTo' = at
        /\ UNCHANGED <<parts, textParts, sentIds, chat, returnedId>>
    BY <1>2 DEF TakeReply, AtPart, NextPart
  <2>2. Sizes' /\ Reply' /\ Ids'
    BY <1>0, <2>1 DEF SendInv, Sizes, Reply, Ids, OnTheWay
  <2>3. InOrder'
    <3>1. \A i \in 1 .. Len(textParts) : textParts[i] \in 1 .. MaxParts
      BY ElementOfSeq DEF SendInv, Sizes
    <3>2. \A i \in 1 .. Len(textParts) : textParts[i] < at + 1
      BY <1>0, <3>1, FeishuSendAssumption DEF SendInv, InOrder
    <3> QED
      BY <2>1, <3>2 DEF SendInv, InOrder, Rising
  <2>4. Passed' /\ Concluded'
    <3>1. \A i \in 1 .. at : parts[i] \in {"media", "text"} => i \in 1 .. at - 1
      BY <1>0, <2>1
    <3> QED
      BY <1>0, <2>1, <3>1 DEF SendInv, Passed, Concluded, OnTheWay, InChat
  <2> QED
    BY <2>2, <2>3, <2>4 DEF SendInv
<1>3. CASE TakeText
  BY <1>3, Collects DEF TakeText, AtPart, NextPart, OnTheWay
<1>4. CASE Uploaded
  BY <1>4 DEF Uploaded, AtPart, SendInv, Sizes, InOrder, Rising, Reply, Ids, Passed, Concluded,
     OnTheWay, InChat
<1>5. CASE UploadFails
  BY <1>5, Collects DEF UploadFails, AtPart, NextPart, OnTheWay, Notice
<1>6. CASE NoText
  <2>1. /\ upc = "parts" /\ at = Len(parts) + 1 /\ ~HasText /\ upc' = "concluding"
        /\ UNCHANGED <<parts, at, replyTo, textParts, sentIds, chat, returnedId>>
    BY <1>0, <1>6 DEF NoText, PartsDone, SendInv, Sizes
  <2>2. \A i \in 1 .. Len(parts) : parts[i] \in {"media", "text"} => InChat(i)
    <3> SUFFICES ASSUME NEW i \in 1 .. Len(parts), parts[i] \in {"media", "text"},
                        Contains(textParts, i)
                 PROVE  FALSE
      BY <2>1 DEF SendInv, Passed, OnTheWay
    <3> QED
      BY <2>1 DEF Contains, HasText
  <2> QED
    BY <2>1, <2>2 DEF SendInv, Sizes, InOrder, Rising, Reply, Ids, Passed, Concluded, OnTheWay,
       InChat, HasText
<1>7. CASE Hand
  <2>1. upc = "concluding" /\ upc' = "returned" /\ returnedId' = LastId
        /\ UNCHANGED <<parts, at, replyTo, textParts, sentIds, chat>>
    BY <1>7 DEF Hand
  <2>2. returnedId' \in 0 .. Len(chat)
    BY <2>1, IdGiven
  <2> QED
    BY <2>1, <2>2 DEF SendInv, Sizes, InOrder, Rising, Reply, Ids, Passed, Concluded, OnTheWay,
       InChat, HasText
<1>8. ASSUME NEW hasId \in BOOLEAN, SendMedia(hasId) \/ SendText(hasId) PROVE SendInv'
  BY <1>8, MediaArrives, TextArrives
<1>9. ASSUME NEW processed \in BOOLEAN, TextFails(processed) PROVE SendInv'
  BY <1>9, TextLost
<1>10. ASSUME NEW processed \in BOOLEAN, SendFails(processed) PROVE SendInv'
  <2>1. upc = "sending" /\ at <= Len(parts) /\ parts[at] = "media"
    BY <1>10 DEF SendFails, SendInv, Sizes
  <2>2. NextPart /\ textParts' = Append(textParts, at) /\ UNCHANGED <<replyTo, sentIds>>
        /\ (UNCHANGED chat \/ chat' = Append(chat, Media))
    BY <1>10 DEF SendFails, Notice, Shown
  <2> QED
    BY <2>1, <2>2, Collects DEF OnTheWay
<1>11. CASE UNCHANGED uvars
  BY <1>11 DEF uvars, SendInv, Sizes, InOrder, Rising, Reply, Ids, Passed, Concluded, OnTheWay,
     InChat, HasText
<1> QED
  BY <1>1, <1>2, <1>3, <1>4, <1>5, <1>6, <1>7, <1>8, <1>9, <1>10, <1>11 DEF UNext

\* What concludes a message shows all of it.
LEMMA PartsShown == SendInv => EachPartShown
<1> SUFFICES ASSUME SendInv, upc = "returned" PROVE EachPartShown
  BY DEF EachPartShown
<1>1. \A i \in 1 .. Len(parts) :
        parts[i] \in {"media", "text"} => \E k \in 1 .. Len(chat) : Contains(chat[k].of, i)
  BY DEF SendInv, Concluded, InChat
<1>2. \A k \in 1 .. Len(chat) : \A i, j \in 1 .. Len(chat[k].of) :
        i < j => chat[k].of[i] < chat[k].of[j]
  BY DEF SendInv, InOrder, Rising
<1>3. returnedId # 0 => returnedId \in 1 .. Len(chat)
  BY DEF SendInv, Ids, Sizes
<1>4. (\E i \in 1 .. Len(parts) : parts[i] = "reply") /\ HasText
        => parts[Last(chat).answers] = "reply"
  BY DEF SendInv, Concluded, Reply, Sizes
<1> QED
  BY <1>1, <1>2, <1>3, <1>4 DEF EachPartShown

\* When send() returns, every part is in the conversation in its order, under the
\* id of one of its messages, and a reply is kept: for any message, whichever
\* uploads and requests fail.
THEOREM PartsAreShown == USpec => []EachPartShown
BY PartsShown, SendInit, SendStep, PTL DEF USpec

\* The fields of send() have their types.
LEMMA SendTypes == SendInv => UTypeOK
<1> SUFFICES ASSUME SendInv PROVE UTypeOK
  OBVIOUS
<1>1. /\ Len(parts) \in Nat /\ Len(parts) <= MaxParts /\ MaxParts \in Nat /\ Len(chat) \in Nat
      /\ Len(chat) <= MaxParts + 1
  BY FeishuSendAssumption DEF SendInv, Sizes
<1>2. at \in 1 .. MaxParts + 1 /\ replyTo \in 0 .. MaxParts /\ returnedId \in 0 .. MaxParts + 1
  BY <1>1 DEF SendInv, Sizes, Ids
<1> QED
  BY <1>2 DEF SendInv, Sizes, UTypeOK, Entry

(***************************************************************************)
(* MilkyListener: for any retries and bound of the frames.                 *)
(***************************************************************************)

\* Each step of run(), stop() and the server stays within the types.
LEMMA MilkyListens == MLTypeOK /\ [MLNext]_mlvars => MLTypeOK'
<1> SUFFICES ASSUME MLTypeOK, [MLNext]_mlvars PROVE MLTypeOK'
  OBVIOUS
<1> USE DEF Over, RunGoes
<1>1. /\ listening \in BOOLEAN /\ tries \in 0 .. ConnectRetries /\ frames \in Seq(FrameKinds)
      /\ ConnectRetries \in Nat
  BY MilkyListenerAssumption DEF MLTypeOK
<1>2. <<>> \in Seq(FrameKinds)
  OBVIOUS
<1>3. ASSUME UNCHANGED frames, tries' \in 0 .. ConnectRetries,
             \/ RunBegins \/ OuterTest \/ ConnectWorks \/ Wake \/ InnerTest \/ RecvRaises \/ LinkBreaks
             \/ StopListening
      PROVE  MLTypeOK'
  BY <1>1, <1>3 DEF MLTypeOK, RunBegins, OuterTest, ConnectWorks, Wake, InnerTest, RecvRaises,
     LinkBreaks, StopListening
<1>4. CASE RunBegins \/ OuterTest \/ ConnectWorks \/ Wake \/ InnerTest \/ RecvRaises \/ LinkBreaks
           \/ StopListening
  <2>1. UNCHANGED frames /\ tries' \in 0 .. ConnectRetries
    BY <1>1, <1>4 DEF RunBegins, OuterTest, ConnectWorks, Wake, InnerTest, RecvRaises, LinkBreaks,
       StopListening
  <2> QED
    BY <1>3, <1>4, <2>1
<1>5. CASE MakeConnection \/ CloseOwn \/ Interrupt \/ StopCloses \/ ConnectFails
  <2>1. frames' = <<>> \/ frames' = frames
    BY <1>5 DEF MakeConnection, CloseOwn, Interrupt, StopCloses, ConnectFails, LinkStopped, Closed
  <2>2. frames' \in Seq(FrameKinds)
    BY <1>1, <1>2, <2>1
  <2>3. tries' \in 0 .. ConnectRetries
    BY <1>1, <1>5 DEF MakeConnection, CloseOwn, Interrupt, StopCloses, ConnectFails
  <2> QED
    BY <1>5, <2>2, <2>3 DEF MLTypeOK, MakeConnection, CloseOwn, Interrupt, StopCloses, ConnectFails,
       LinkStopped, Closed
<1>6. CASE Event \/ Noise \/ Empty \/ Poison
  <2>1. frames # <<>> /\ frames' = Tail(frames) /\ UNCHANGED <<listening, tries, link, stopAt>>
        /\ runAt' \in {"inner", "receiving", "leaving", "raised"}
    BY <1>6 DEF Event, Noise, Empty, Poison, NextFrame, Read
  <2>2. frames' \in Seq(FrameKinds)
    BY <1>1, <2>1
  <2> QED
    BY <2>1, <2>2 DEF MLTypeOK
<1>7. ASSUME NEW kind \in FrameKinds, ServerSendsFrame(kind) PROVE MLTypeOK'
  <2>1. frames' = Append(frames, kind) /\ UNCHANGED <<listening, runAt, tries, link, stopAt>>
    BY <1>7 DEF ServerSendsFrame
  <2>2. frames' \in Seq(FrameKinds)
    BY <1>1, <2>1
  <2> QED
    BY <2>1, <2>2 DEF MLTypeOK
<1>8. CASE UNCHANGED mlvars
  BY <1>8 DEF mlvars, MLTypeOK
<1> QED
  BY <1>4, <1>5, <1>6, <1>7, <1>8 DEF MLNext, RunStep

\* At first there is no connection.
LEMMA MilkyListenerStarts == MLInit => MLTypeOK
<1>1. <<>> \in Seq(FrameKinds) /\ 0 \in 0 .. ConnectRetries
  BY MilkyListenerAssumption
<1> QED
  BY <1>1 DEF MLInit, MLTypeOK

(***************************************************************************)
(* FeishuEvents, the types: run() and the requests use a queue only after  *)
(* it was made.                                                            *)
(***************************************************************************)

\* A queue of the adapter; once there is one, there always is.
Queues == Seq(FEvents \union {Never})
\* A request that has not been answered.
Working(c) == cpc[c] \in Looking \union {"putting"}

EventsInv ==
  /\ RepeatInv
  /\ mode \in {"webhook", "long_connection"} /\ clock <= MaxTime
  /\ evRan \in BOOLEAN /\ rpc \in {"start", "queue", "server", "loop", "get", "ended"}
  /\ stopper \in {"none", "flag", "active", "stopped"}
  /\ activeQueue \in Queues \union {Never} /\ serverQueue \in Queues \union {Never}
  /\ rpc \in {"server", "loop", "get"} => activeQueue \in Queues
  /\ rpc \in {"loop", "get"} /\ mode = "webhook" => serverQueue \in Queues
  /\ \A c \in Callbacks : Working(c) => serverQueue \in Queues

\* A queue stays one when something is put in or taken out.
LEMMA QueueStays ==
  /\ <<>> \in Queues
  /\ \A q \in Queues : q # <<>> => Tail(q) \in Queues
  /\ \A q \in Queues : \A e \in FEvents \union {Never} : Append(q, e) \in Queues
<1>1. <<>> \in Queues
  BY DEF Queues
<1>2. ASSUME NEW q \in Queues, q # <<>> PROVE Tail(q) \in Queues
  BY <1>2 DEF Queues
<1>3. ASSUME NEW q \in Queues, NEW e \in FEvents \union {Never} PROVE Append(q, e) \in Queues
  BY <1>3 DEF Queues
<1> QED
  BY <1>1, <1>2, <1>3

\* A request puts its event into the server's queue, if anywhere.
LEMMA RequestKeepsEvents ==
  ASSUME EventsInv, NEW c \in Callbacks,
         \/ Callback(c)
         \/ \E e \in FEvents : Push(c, e) \/ Arrive(c, e)
  PROVE  EventsInv'
<1>1. RepeatInv'
  BY RequestStep DEF EventsInv
<1>2. UNCHANGED <<mode, clock, evRan, rpc, stopper>>
  BY DEF Callback, Push, Arrive, TurnAway, Collect, CollectFails, Ignore, Pass, Enter, Put, Purge,
     RunKept, frun
<1>3. cpc \in [Callbacks -> {"none", "collecting", "purging", "entering", "putting", "done"}]
  BY DEF EventsInv, RepeatInv, CallbackTypes
<1>4. \E l : cpc' = [cpc EXCEPT ![c] = l]
  BY DEF Callback, Push, Arrive, TurnAway, Collect, CollectFails, Ignore, Pass, Enter, Put, Purge, CStep
<1>5. \A d \in Callbacks \ {c} : cpc'[d] = cpc[d]
  BY <1>3, <1>4
<1>6. ASSUME UNCHANGED <<activeQueue, serverQueue>>, Working(c) \/ serverQueue # Never
      PROVE  EventsInv'
  <2>1. serverQueue \in Queues
    BY <1>6 DEF EventsInv
  <2> QED
    BY <1>1, <1>2, <1>6, <2>1 DEF EventsInv, Queues
<1>7. CASE Put(c)
  <2>1. event[c] \in FEvents /\ cpc[c] = "putting"
    BY <1>7 DEF Put, CStep, EventsInv, RepeatInv, Requests, RequestOK
  <2>2. serverQueue \in Queues
    BY <2>1 DEF EventsInv, Working
  <2>3. serverQueue' \in Queues /\ UNCHANGED activeQueue
    BY <1>7, <2>1, <2>2, QueueStays DEF Put, RunKept
  <2> QED
    BY <1>1, <1>2, <2>3 DEF EventsInv, Queues
<1>8. ASSUME NEW e \in FEvents, Push(c, e) PROVE EventsInv'
  <2>1. /\ activeQueue \in Queues /\ activeQueue' = Append(activeQueue, e)
        /\ UNCHANGED serverQueue /\ cpc' = [cpc EXCEPT ![c] = "done"]
    BY <1>8 DEF Push, EventsInv, CStep
  <2>2. activeQueue' \in Queues
    BY <2>1, QueueStays
  <2>3. \A d \in Callbacks : Working(d)' => Working(d)
    BY <1>3, <1>5, <2>1 DEF Working, Looking
  <2> QED
    BY <1>1, <1>2, <2>1, <2>2, <2>3 DEF EventsInv, Queues
<1>9. ASSUME NEW e \in FEvents, Arrive(c, e) PROVE EventsInv'
  BY <1>6, <1>9 DEF Arrive, RunKept
<1>10. CASE TurnAway(c)
  BY <1>6, <1>10 DEF TurnAway, RunKept
<1>11. CASE Collect(c) \/ CollectFails(c) \/ Ignore(c) \/ Pass(c) \/ Enter(c)
            \/ \E e \in FEvents : Purge(c, e)
  <2>1. UNCHANGED <<activeQueue, serverQueue>> /\ Working(c)
    BY <1>11 DEF Collect, CollectFails, Ignore, Pass, Enter, Purge, RunKept, CStep, Working, Looking
  <2> QED
    BY <1>6, <2>1
<1> QED
  BY <1>7, <1>8, <1>9, <1>10, <1>11 DEF Callback

\* run() makes the queues and takes from them, stop() puts the last entry in.
LEMMA OthersKeepEvents ==
  ASSUME EventsInv, Tick \/ RunStarts \/ FRun \/ FStop \/ UNCHANGED fvars
  PROVE  EventsInv'
<1>1. RepeatInv'
  BY OtherStep DEF EventsInv
<1>2. UNCHANGED <<mode, cpc>>
  BY DEF Tick, RunStarts, FRun, FStop, fvars, SetActiveQueue, SetServer, Loop, GetLast, Get,
         StopFlag, StopActive, StopServer, fcallback
<1>3. \A c \in Callbacks : Working(c)' = Working(c)
  BY <1>2 DEF Working
<1>4. ASSUME clock' = clock, evRan' \in BOOLEAN,
             rpc' \in {"start", "queue", "server", "loop", "get", "ended"},
             stopper' \in {"none", "flag", "active", "stopped"},
             activeQueue' \in Queues \union {Never}, serverQueue' \in Queues \union {Never},
             rpc' \in {"server", "loop", "get"} => activeQueue' \in Queues,
             rpc' \in {"loop", "get"} /\ mode = "webhook" => serverQueue' \in Queues,
             serverQueue \in Queues => serverQueue' \in Queues
      PROVE  EventsInv'
  BY <1>1, <1>2, <1>3, <1>4 DEF EventsInv, Queues
<1>5. CASE Tick
  <2>1. clock' <= MaxTime
    BY <1>5, FeishuEventsAssumption DEF Tick, EventsInv, RepeatInv, CallbackTypes
  <2>2. UNCHANGED <<evRan, rpc, activeQueue, serverQueue, stopper>>
    BY <1>5 DEF Tick, frun
  <2> QED
    BY <1>1, <1>2, <1>3, <2>1, <2>2 DEF EventsInv, Queues
<1>6. CASE RunStarts \/ Loop \/ StopFlag
  BY <1>4, <1>6 DEF RunStarts, Loop, StopFlag, RStep, EventsInv
<1>7. CASE SetActiveQueue
  BY <1>4, <1>7, QueueStays DEF SetActiveQueue, RStep, EventsInv
<1>8. CASE SetServer
  BY <1>4, <1>8, QueueStays DEF SetServer, RStep, EventsInv
<1>9. CASE GetLast \/ Get
  <2>1. rpc = "get" /\ Source # <<>> /\ TakeFromSource /\ rpc' \in {"loop", "ended"}
        /\ UNCHANGED <<clock, evRan, stopper>>
    BY <1>9 DEF GetLast, Get, RStep
  <2>2. activeQueue \in Queues /\ (mode = "webhook" => serverQueue \in Queues)
    BY <2>1 DEF EventsInv
  <2>3. CASE mode = "webhook"
    <3>1. activeQueue' = activeQueue /\ serverQueue' \in Queues
      BY <2>1, <2>2, <2>3, QueueStays DEF Source, TakeFromSource
    <3> QED
      BY <1>4, <2>1, <2>2, <3>1 DEF EventsInv
  <2>4. CASE mode # "webhook"
    <3>1. serverQueue' = serverQueue /\ activeQueue' \in Queues
      BY <2>1, <2>2, <2>4, QueueStays DEF Source, TakeFromSource
    <3> QED
      BY <1>4, <2>1, <2>4, <3>1 DEF EventsInv
  <2> QED
    BY <2>3, <2>4
<1>10. CASE StopActive
  <2>1. activeQueue' \in Queues \union {Never} /\ (activeQueue \in Queues => activeQueue' \in Queues)
    BY <1>10, QueueStays DEF StopActive, Wakened, EventsInv
  <2> QED
    BY <1>4, <1>10, <2>1 DEF StopActive, EventsInv, frun
<1>11. CASE StopServer
  <2>1. serverQueue' \in Queues \union {Never} /\ (serverQueue \in Queues => serverQueue' \in Queues)
    BY <1>11, QueueStays DEF StopServer, Wakened, EventsInv
  <2> QED
    BY <1>4, <1>11, <2>1 DEF StopServer, EventsInv, frun
<1>12. CASE UNCHANGED fvars
  BY <1>4, <1>12 DEF fvars, frun, EventsInv
<1> QED
  BY <1>5, <1>6, <1>7, <1>8, <1>9, <1>10, <1>11, <1>12 DEF FRun, FStop

\* At first there is no queue.
LEMMA EventsStart == FInit => EventsInv
<1> SUFFICES ASSUME FInit PROVE EventsInv
  OBVIOUS
<1>1. RepeatInv
  BY RepeatInit
<1>2. \A c \in Callbacks : ~ Working(c)
  BY DEF FInit, Working, Looking
<1>3. clock <= MaxTime
  BY FeishuEventsAssumption DEF FInit
<1> QED
  BY <1>1, <1>2, <1>3 DEF FInit, EventsInv

\* The types of FTypeOK are among them.
LEMMA EventsTypes == EventsInv => FTypeOK
<1> SUFFICES ASSUME EventsInv PROVE FTypeOK
  OBVIOUS
<1>1. clock \in 0 .. MaxTime
  BY FeishuEventsAssumption DEF EventsInv, RepeatInv, CallbackTypes
<1>2. \A queue \in {activeQueue, serverQueue} : queue # Never => queue \in Seq(FEvents \union {Never})
  BY DEF EventsInv, Queues
<1> QED
  BY <1>1, <1>2 DEF EventsInv, RepeatInv, CallbackTypes, FTypeOK

(***************************************************************************)
(* The adapters together, as the run composes them.                        *)
(***************************************************************************)

\* Each component keeps its invariant while it runs; a send() that does not run
\* has shown nothing and returned nothing.
RunningInv ==
  /\ moving \in Components
  /\ moving = "oneBotListener" => Listening
  /\ IF moving = "milkySend" THEN MilkyInv ELSE received = <<>> /\ spc = "refused"
  /\ moving = "milkyListener" => MLTypeOK
  /\ moving = "feishuEvents" => EventsInv
  /\ moving = "feishuToken" => KInv
  /\ IF moving = "feishuSend" THEN SendInv ELSE upc = "parts"

\* One component is at its beginning, the others are at their ends.
LEMMA RunningStarts == HInit => RunningInv
BY ListeningInit, MilkyInit, MilkyListenerStarts, EventsStart, KInitInv, SendInit
DEF HInit, RunningInv, SRest, URest, UInit

\* A step is one of the component that runs.
LEMMA RunningStep == RunningInv /\ [HNext]_allVars => RunningInv'
<1> SUFFICES ASSUME RunningInv, [HNext]_allVars PROVE RunningInv'
  OBVIOUS
<1>1. moving' = moving /\ moving \in Components
  BY DEF HNext, allVars, RunningInv
<1>2. [LNext]_lvars /\ [SNext]_svars /\ [MLNext]_mlvars /\ [FNext]_fvars /\ [KNext]_tvars /\ [UNext]_uvars
  BY DEF HNext, allVars
<1>3. moving # "milkySend" => UNCHANGED svars
  BY DEF HNext, allVars
<1>4. moving # "feishuSend" => UNCHANGED uvars
  BY DEF HNext, allVars
<1>5. moving = "oneBotListener" => Listening'
  BY <1>2, ListeningStep DEF RunningInv
<1>6. IF moving = "milkySend" THEN MilkyInv' ELSE received' = <<>> /\ spc' = "refused"
  BY <1>2, <1>3, MilkyStep DEF RunningInv, svars
<1>7. moving = "milkyListener" => MLTypeOK'
  BY <1>2, MilkyListens DEF RunningInv
<1>8. moving = "feishuEvents" => EventsInv'
  BY <1>2, RequestKeepsEvents, OthersKeepEvents DEF RunningInv, FNext
<1>9. moving = "feishuToken" => KInv'
  BY <1>2, KNextInv DEF RunningInv
<1>10. IF moving = "feishuSend" THEN SendInv' ELSE upc' = "parts"
  BY <1>2, <1>4, SendStep DEF RunningInv, uvars
<1> QED
  BY <1>1, <1>5, <1>6, <1>7, <1>8, <1>9, <1>10 DEF RunningInv, Components

\* The variables of the component that runs have their types: handler threads are
\* never more than were counted, and a queue, once made, stays one.
THEOREM AdaptersTyped == HSpec => []AdapterTypesOK
<1>1. RunningInv => AdapterTypesOK
  <2> SUFFICES ASSUME RunningInv PROVE AdapterTypesOK
    OBVIOUS
  <2>1. /\ moving = "oneBotListener" => LTypeOK
        /\ moving = "milkySend" => STypeOK
        /\ moving = "milkyListener" => MLTypeOK
        /\ moving = "feishuEvents" => FTypeOK
        /\ moving = "feishuToken" => KTypeOK
        /\ moving = "feishuSend" => UTypeOK
    BY ListeningTypes, EventsTypes, SendTypes DEF RunningInv, MilkyInv, KInv
  <2>2. moving \in Components
    BY DEF RunningInv
  <2> QED
    BY <2>1, <2>2 DEF AdapterTypesOK, Components
<1> QED
  BY <1>1, RunningStarts, RunningStep, PTL DEF HSpec

\* What the recipient of a text sees has no gaps, and all of the message is there
\* when send() returns, in Milky's chunks (Actions.send_chunked) or Feishu's parts.
THEOREM SendsAreWhole == HSpec => []SendsWhole
<1>1. RunningInv => SendsWhole
  <2> SUFFICES ASSUME RunningInv PROVE SendsWhole
    OBVIOUS
  <2>1. NoGaps /\ Delivered
    <3>1. CASE moving = "milkySend"
      BY <3>1, MilkyWhole DEF RunningInv
    <3>2. CASE moving # "milkySend"
      BY <3>2 DEF RunningInv, NoGaps, Delivered
    <3> QED
      BY <3>1, <3>2
  <2>2. EachPartShown
    <3>1. CASE moving = "feishuSend"
      BY <3>1, PartsShown DEF RunningInv
    <3>2. CASE moving # "feishuSend"
      BY <3>2 DEF RunningInv, EachPartShown
    <3> QED
      BY <3>1, <3>2
  <2> QED
    BY <2>1, <2>2 DEF SendsWhole
<1> QED
  BY <1>1, RunningStarts, RunningStep, PTL DEF HSpec
=============================================================================

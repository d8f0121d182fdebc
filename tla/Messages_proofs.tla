--------------------------- MODULE Messages_proofs ---------------------------
(***************************************************************************)
(* Proofs about the modules that carry messages: KeyQueue, which wakes     *)
(* every getter whose value is there; References, which recall what was    *)
(* named; MediaResolution, which stays within its policy and its limits;   *)
(* and EventTranslation, whose answers go back where an event came from.   *)
(***************************************************************************)
EXTENDS MCMessages, TLAPS

(***************************************************************************)
(* KeyQueue: for any keys, getters and values.                             *)
(***************************************************************************)

\* What a value is before it is put, in the queue, and after it was returned.
OneCopy ==
  /\ \A k \in Keys : contents[k] \notin unput
  /\ \A g \in Getters : got[g] \notin unput
  /\ \A j, k \in Keys : contents[j] = contents[k] => j = k \/ contents[j] = NoValue

\* At first nobody waits.
LEMMA InitTyped == QInit => QTypeOK
BY KQAssumption DEF QInit, QTypeOK, Fields, Registered, GetterLabels

\* The bookkeeping of futures is kept by every step.
LEMMA StepTyped == QTypeOK /\ [QNext]_qvars => QTypeOK'
<1> SUFFICES ASSUME QTypeOK, [QNext]_qvars PROVE QTypeOK'
  OBVIOUS
<1> USE KQAssumption DEF QTypeOK, Fields, Registered, GetterLabels
<1>1. CASE UNCHANGED qvars
  BY <1>1 DEF qvars
<1>2. ASSUME NEW k \in Keys, NEW v \in Values, PutNew(k, v) PROVE QTypeOK'
  <2>1. contents' \in [Keys -> Values \union {NoValue}]
    BY <1>2 DEF PutNew, Put, Expired
  <2>2. pc' \in [Getters -> GetterLabels]
    BY <1>2 DEF PutNew, Put
  <2>3. /\ scheduled' = scheduled \union waiters[k]
        /\ \A g \in Getters : pc'[g] # pc[g] =>
             g \notin AsyncGetters /\ pc[g] = "waiting" /\ pc'[g] = "woken"
    BY <1>2 DEF PutNew, Put, Woken, Notified, InWaitSet
  <2>4. UNCHANGED <<waiters, key, got>> /\ stale' = {} /\ unput' = unput \ {v}
    BY <1>2 DEF PutNew, Put
  <2> QED
    BY <2>1, <2>2, <2>3, <2>4
<1>3. ASSUME NEW k \in Keys, Age(k) PROVE QTypeOK'
  BY <1>3 DEF Age
<1>4. ASSUME NEW g \in Getters, NEW k \in Keys, Return(g, k), key' = [key EXCEPT ![g] = k],
             pc[g] \in {"idle", "woken", "checking", "late"},
             pc[g] = "woken" => g \notin AsyncGetters
      PROVE QTypeOK'
  BY <1>4 DEF Return, Pop, Has
<1>5. ASSUME NEW g \in Getters, NEW k \in Keys, Wait(g, k), key' = [key EXCEPT ![g] = k],
             pc[g] \in {"idle", "woken", "checking"}, pc[g] = "woken" => g \notin AsyncGetters
      PROVE QTypeOK'
  <2>1. pc' = [pc EXCEPT ![g] = "waiting"] /\ UNCHANGED <<contents, stale, scheduled, unput, got>>
    BY <1>5 DEF Wait
  <2>2. CASE g \in AsyncGetters
    <3>1. waiters' = [waiters EXCEPT ![k] = @ \union {g}]
      BY <1>5, <2>2 DEF Wait, Register
    <3> QED
      BY <1>5, <2>1, <2>2, <3>1
  <2>3. CASE g \notin AsyncGetters
    <3>1. UNCHANGED waiters
      BY <1>5, <2>3 DEF Wait
    <3> QED
      BY <1>5, <2>1, <2>3, <3>1
  <2> QED
    BY <2>2, <2>3
<1>6. ASSUME NEW g \in Getters, NEW k \in Keys, Get(g, k) PROVE QTypeOK'
  BY <1>4, <1>5, <1>6 DEF Get
<1>7. ASSUME NEW g \in Getters, CheckAgain(g) PROVE QTypeOK'
  <2>1. key[g] \in Keys /\ key' = [key EXCEPT ![g] = key[g]]
    BY <1>7 DEF CheckAgain
  <2>2. pc[g] \in {"woken", "checking"} /\ (pc[g] = "woken" => g \notin AsyncGetters)
    BY <1>7 DEF CheckAgain
  <2> QED
    BY <1>4, <1>5, <1>7, <2>1, <2>2 DEF CheckAgain
<1>8. ASSUME NEW g \in Getters, Wake(g) PROVE QTypeOK'
  BY <1>8 DEF Wake
<1>9. ASSUME NEW g \in Getters, Unregister(g), g \in AsyncGetters, pc[g] \in {"waiting", "woken"},
             NEW l \in {"checking", "timedOut", "cancelled"}, pc' = [pc EXCEPT ![g] = l],
             UNCHANGED <<contents, stale, unput, key, got>>
      PROVE QTypeOK'
  BY <1>9 DEF Unregister
<1>10. ASSUME NEW g \in Getters, Resume(g) PROVE QTypeOK'
  BY <1>9, <1>10 DEF Resume
<1>11. ASSUME NEW g \in Getters, NEW l \in {"timedOut", "cancelled"}, StopWaiting(g, l)
       PROVE  QTypeOK'
  BY <1>9, <1>11 DEF StopWaiting
<1>12. ASSUME NEW g \in Getters, SyncTimeout(g) PROVE QTypeOK'
  BY <1>12 DEF SyncTimeout
<1>13. ASSUME NEW g \in Getters, LastLook(g) PROVE QTypeOK'
  <2>1. key[g] \in Keys /\ key' = [key EXCEPT ![g] = key[g]] /\ pc[g] = "late"
    BY <1>13 DEF LastLook
  <2>2. CASE Return(g, key[g])
    BY <1>4, <2>1, <2>2
  <2>3. CASE ~Return(g, key[g])
    BY <1>13, <2>1, <2>3 DEF LastLook
  <2> QED
    BY <2>2, <2>3
<1> QED
  BY <1>1, <1>2, <1>3, <1>6, <1>7, <1>8, <1>10, <1>11, <1>12, <1>13 DEF QNext, Deliver

\* The fields of KeyQueue (utils/logic.py) keep their types, and a future is registered
\* while its getter waits.
THEOREM QueueTyped == QSpec => []QTypeOK
BY InitTyped, StepTyped, PTL DEF QSpec

----------------------------------------------------------------------------
\* A put takes every getter of its key with it; a getter looks before it waits.
LEMMA StepWakes == QTypeOK /\ NoLostWakeup /\ [QNext]_qvars => NoLostWakeup'
<1> SUFFICES ASSUME QTypeOK, NoLostWakeup, [QNext]_qvars PROVE NoLostWakeup'
  OBVIOUS
<1> USE KQAssumption DEF QTypeOK, Fields, Registered, NoLostWakeup, Has
<1>1. CASE UNCHANGED qvars
  BY <1>1 DEF qvars
<1>2. ASSUME NEW k \in Keys, NEW v \in Values, PutNew(k, v) PROVE NoLostWakeup'
  <2> SUFFICES ASSUME NEW g \in Getters, pc'[g] = "waiting", contents'[key[g]] # NoValue
               PROVE g \in scheduled'
    BY <1>2 DEF PutNew, Put
  <2>1. g \in AsyncGetters /\ pc[g] = "waiting" /\ key[g] \in Keys
    BY <1>2 DEF PutNew, Put, Notified, InWaitSet
  <2>2. scheduled' = scheduled \union waiters[k]
    BY <1>2 DEF PutNew, Put, Woken
  <2>3. CASE key[g] = k
    BY <2>1, <2>2, <2>3
  <2>4. CASE key[g] # k
    <3>1. contents[key[g]] # NoValue
      BY <1>2, <2>1, <2>4 DEF PutNew, Put, Expired
    <3> QED
      BY <2>1, <2>2, <3>1
  <2> QED
    BY <2>3, <2>4
<1>3. ASSUME NEW k \in Keys, Age(k) PROVE NoLostWakeup'
  BY <1>3 DEF Age
<1>4. ASSUME NEW g \in Getters, NEW k \in Keys, Return(g, k),
             \A h \in Getters \ {g} : key'[h] = key[h]
      PROVE NoLostWakeup'
  BY <1>4 DEF Return, Pop
<1>5. ASSUME NEW g \in Getters, NEW k \in Keys, Wait(g, k), key'[g] = k,
             \A h \in Getters \ {g} : key'[h] = key[h]
      PROVE NoLostWakeup'
  BY <1>5 DEF Wait
<1>6. ASSUME NEW g \in Getters, NEW k \in Keys, Get(g, k) PROVE NoLostWakeup'
  BY <1>4, <1>5, <1>6 DEF Get
<1>7. ASSUME NEW g \in Getters, CheckAgain(g) PROVE NoLostWakeup'
  <2>1. key[g] \in Keys
    BY <1>7 DEF CheckAgain
  <2> QED
    BY <1>4, <1>5, <1>7, <2>1 DEF CheckAgain
<1>8. ASSUME NEW g \in Getters, Wake(g) PROVE NoLostWakeup'
  BY <1>8 DEF Wake
<1>9. ASSUME NEW g \in Getters, Resume(g) PROVE NoLostWakeup'
  BY <1>9 DEF Resume, Unregister
<1>10. ASSUME NEW g \in Getters, NEW l \in {"timedOut", "cancelled"}, StopWaiting(g, l)
       PROVE  NoLostWakeup'
  BY <1>10 DEF StopWaiting, Unregister
<1>11. ASSUME NEW g \in Getters, SyncTimeout(g) PROVE NoLostWakeup'
  BY <1>11 DEF SyncTimeout
<1>12. ASSUME NEW g \in Getters, LastLook(g) PROVE NoLostWakeup'
  <2>1. key[g] \in Keys
    BY <1>12 DEF LastLook
  <2>2. CASE Return(g, key[g])
    BY <1>4, <1>12, <2>1, <2>2 DEF LastLook
  <2>3. CASE ~Return(g, key[g])
    BY <1>12, <2>3 DEF LastLook
  <2> QED
    BY <2>2, <2>3
<1> QED
  BY <1>1, <1>2, <1>3, <1>6, <1>7, <1>8, <1>9, <1>10, <1>11, <1>12 DEF QNext, Deliver

\* A getter whose value lies in the queue is woken or about to look: put() and
\* the waits of get() and get_async() leave no gap.
THEOREM NoWakeupLost == QSpec => []NoLostWakeup
<1>1. QInit => NoLostWakeup
  BY DEF QInit, NoLostWakeup
<1> QED
  BY <1>1, QueueTyped, StepWakes, PTL DEF QSpec

----------------------------------------------------------------------------
\* A value is put once, taken under the lock, and returned by who took it.
LEMMA StepCopies ==
  QTypeOK /\ OneCopy /\ ConsumedOnce /\ [QNext]_qvars => OneCopy' /\ ConsumedOnce'
<1> SUFFICES ASSUME QTypeOK, OneCopy, ConsumedOnce, [QNext]_qvars PROVE OneCopy' /\ ConsumedOnce'
  OBVIOUS
<1> USE KQAssumption DEF QTypeOK, Fields, OneCopy, ConsumedOnce
<1>1. ASSUME UNCHANGED <<contents, unput, got>> PROVE OneCopy' /\ ConsumedOnce'
  BY <1>1
<1>2. ASSUME NEW k \in Keys, NEW v \in Values, PutNew(k, v) PROVE OneCopy' /\ ConsumedOnce'
  <2>1. /\ v \in unput /\ unput' = unput \ {v} /\ UNCHANGED got
        /\ contents'[k] = v
        /\ \A j \in Keys \ {k} : contents'[j] \in {contents[j], NoValue}
    BY <1>2 DEF PutNew, Put, Expired
  <2>2. NoValue \notin unput
    OBVIOUS
  <2>3. OneCopy'
    BY <2>1, <2>2
  <2>4. ConsumedOnce'
    BY <2>1, <2>2
  <2> QED
    BY <2>3, <2>4
<1>3. ASSUME NEW g \in Getters, NEW k \in Keys, Return(g, k) PROVE OneCopy' /\ ConsumedOnce'
  <2>1. /\ contents[k] # NoValue /\ UNCHANGED unput
        /\ contents' = [contents EXCEPT ![k] = NoValue]
        /\ got' = [got EXCEPT ![g] = contents[k]]
    BY <1>3 DEF Return, Pop, Has
  <2>2. \A h \in Getters : got[h] # contents[k]
    BY <2>1
  <2>3. OneCopy'
    BY <2>1, <2>2
  <2>4. ConsumedOnce'
    BY <2>1, <2>2
  <2> QED
    BY <2>3, <2>4
<1>4. ASSUME NEW g \in Getters, NEW k \in Keys, Wait(g, k) PROVE UNCHANGED <<contents, unput, got>>
  BY <1>4 DEF Wait
<1>5. ASSUME NEW g \in Getters, NEW k \in Keys, Get(g, k) PROVE OneCopy' /\ ConsumedOnce'
  BY <1>1, <1>3, <1>4, <1>5 DEF Get
<1>6. ASSUME NEW g \in Getters, CheckAgain(g) PROVE OneCopy' /\ ConsumedOnce'
  <2>1. key[g] \in Keys
    BY <1>6 DEF CheckAgain, Registered
  <2> QED
    BY <1>1, <1>3, <1>4, <1>6, <2>1 DEF CheckAgain
<1>7. ASSUME NEW g \in Getters, LastLook(g) PROVE OneCopy' /\ ConsumedOnce'
  <2>1. key[g] \in Keys
    BY <1>7 DEF LastLook
  <2> QED
    BY <1>1, <1>3, <1>7, <2>1 DEF LastLook
<1>8. CASE UNCHANGED qvars
  BY <1>1, <1>8 DEF qvars
<1>9. ASSUME NEW k \in Keys, Age(k) PROVE OneCopy' /\ ConsumedOnce'
  BY <1>1, <1>9 DEF Age
<1>10. ASSUME NEW g \in Getters, Wake(g) \/ Resume(g) \/ SyncTimeout(g)
       PROVE  OneCopy' /\ ConsumedOnce'
  BY <1>1, <1>10 DEF Wake, Resume, SyncTimeout
<1>11. ASSUME NEW g \in Getters, NEW l \in {"timedOut", "cancelled"}, StopWaiting(g, l)
       PROVE OneCopy' /\ ConsumedOnce'
  BY <1>1, <1>11 DEF StopWaiting
<1> QED
  BY <1>2, <1>5, <1>6, <1>7, <1>8, <1>9, <1>10, <1>11 DEF QNext, Deliver

\* No value put is returned by two calls of get() or get_async().
THEOREM ConsumedAtMostOnce == QSpec => []ConsumedOnce
<1>1. QInit => OneCopy /\ ConsumedOnce
  BY KQAssumption DEF QInit, OneCopy, ConsumedOnce
<1> QED
  BY <1>1, QueueTyped, StepCopies, PTL DEF QSpec

(***************************************************************************)
(* MediaResolution: for any origins, policy and limits.                    *)
(***************************************************************************)

\* No lookup is pinned unless it was public; a request is under way only to
\* an origin of the policy that is pinned, after redirects that it allows.
Pinned ==
  /\ contacted \subseteq Allowed \X {"public"}
  /\ origin \in Origins /\ hops \in Nat /\ hops <= MaxRedirects
  /\ pinned \in [Origins -> {"public", "none"}]
  /\ mpc \in {"fetch", "body"} => origin \in Allowed /\ pinned[origin] = "public"

\* What has been read at each step: a download holds no more than what has come
\* and the limit; at the end all of the content is there, or one unit too much,
\* and a content does not change any more.
Reading ==
  /\ source \in {"remote", "data", "local", "adapter"}
  /\ size \in Nat /\ content \in 0..MaxContent /\ quality \in Qualities
  /\ mpc \in {"start", "fetch", "body", "check", "read", "finish", "done"}
  /\ mpc \in {"start", "fetch", "check", "read"} => size = 0
  /\ mpc = "body" => size <= content /\ size <= MaxBytes
  /\ mpc \in {"fetch", "body"} => source = "remote"
  /\ mpc \in {"check", "read"} => source = "local"
  /\ mpc = "finish" => size = content \/ size = MaxBytes + 1
  /\ source # "data" => size <= MaxBytes + 1
  /\ clock \in 0..TotalTimeout /\ size <= MaxContent
  /\ outcome # NoOutcome <=> mpc = "done"
  /\ outcome = Ok => size = content /\ size <= MaxBytes

MediaInv == Pinned /\ Reading

\* No address is known and nothing is read.
LEMMA MediaInitInv == MediaInit => MediaInv
  BY MediaAssumption DEF MediaInit, MediaInv, Pinned, Reading, NoOutcome, Ok, Qualities

\* One step per step of a download or of a local source.
LEMMA MediaNextInv == MediaInv /\ [MediaNext]_mediaVars => MediaInv'
<1> SUFFICES ASSUME MediaInv, [MediaNext]_mediaVars PROVE MediaInv'
  OBVIOUS
<1> USE MediaAssumption DEF At, World, Goto, End, NoOutcome, Failure, Ok, Qualities
<1>p. Pinned BY DEF MediaInv
<1>r. Reading BY DEF MediaInv
<1>1. CASE Finish
  <2>1. Pinned' BY <1>p, <1>1 DEF Pinned, Finish
  <2>2. /\ Finished(size, quality) = Ok => size <= MaxBytes
        /\ Finished(size, quality) # NoOutcome
    <3>1. size \in Nat /\ quality \in Qualities /\ MaxBytes \in Nat
      BY <1>r DEF Reading
    <3> QED BY <3>1 DEF Finished
  <2>3. Reading' BY <1>r, <1>1, <2>2 DEF Reading, Finish
  <2> QED BY <2>1, <2>3 DEF MediaInv
<1>2. CASE Refused
  BY <1>p, <1>r, <1>2 DEF MediaInv, Pinned, Reading, Refused
<1>3. CASE Validate
  <2>1. Pinned' BY <1>p, <1>3 DEF Pinned, Validate
  <2>2. Reading' BY <1>r, <1>3 DEF Reading, Validate
  <2> QED BY <2>1, <2>2 DEF MediaInv
<1>4. ASSUME \/ Denied \/ RedirectNowhere
             \/ \E o \in Origins : Redirect(o)
             \/ \E n \in {0, MaxBytes + 1} : Declared(n)
      PROVE  MediaInv'
  <2>1. Contact /\ mpc = "fetch"
    BY <1>4 DEF Denied, RedirectNowhere, Redirect, Declared
  <2>2. contacted' \subseteq Allowed \X {"public"}
    BY <1>p, <2>1 DEF Pinned, Contact, Address
  <2>3. CASE Denied
    BY <1>p, <1>r, <2>2, <2>3 DEF MediaInv, Pinned, Reading, Denied
  <2>4. ASSUME NEW o \in Origins, Redirect(o) PROVE MediaInv'
    BY <1>p, <1>r, <2>2, <2>4 DEF MediaInv, Pinned, Reading, Redirect, MayFollow
  <2>5. CASE RedirectNowhere
    BY <1>p, <1>r, <2>2, <2>5 DEF MediaInv, Pinned, Reading, RedirectNowhere
  <2>6. ASSUME NEW n \in {0, MaxBytes + 1}, Declared(n) PROVE MediaInv'
    BY <1>p, <1>r, <2>2, <2>6 DEF MediaInv, Pinned, Reading, Declared
  <2> QED BY <1>4, <2>3, <2>4, <2>5, <2>6
<1>5. CASE Chunk
  BY <1>p, <1>r, <1>5 DEF MediaInv, Pinned, Reading, Chunk
<1>6. CASE LastChunk
  BY <1>p, <1>r, <1>6 DEF MediaInv, Pinned, Reading, LastChunk
<1>7. CASE Breaks
  BY <1>p, <1>r, <1>7 DEF MediaInv, Pinned, Reading, Breaks
<1>8. CASE Timeout
  BY <1>p, <1>r, <1>8 DEF MediaInv, Pinned, Reading, Timeout
<1>9. CASE Inline
  BY <1>p, <1>r, <1>9 DEF MediaInv, Pinned, Reading, Inline
<1>10. CASE Open
  BY <1>p, <1>r, <1>10 DEF MediaInv, Pinned, Reading, Open
<1>11. CASE Stat
  BY <1>p, <1>r, <1>11 DEF MediaInv, Pinned, Reading, Stat
<1>12. CASE Read
  BY <1>p, <1>r, <1>12 DEF MediaInv, Pinned, Reading, Read, ReadLimited
<1>13. CASE Unsupported
  BY <1>p, <1>r, <1>13 DEF MediaInv, Pinned, Reading, Unsupported
<1>14. CASE Grow
  BY <1>p, <1>r, <1>14 DEF MediaInv, Pinned, Reading, Grow
<1>15. ASSUME NEW o \in Origins, Relookup(o) PROVE MediaInv'
  BY <1>p, <1>r, <1>15 DEF MediaInv, Pinned, Reading, Relookup
<1>16. CASE MediaTick
  BY <1>p, <1>r, <1>16 DEF MediaInv, Pinned, Reading, MediaTick
<1>17. CASE UNCHANGED mediaVars
  BY <1>p, <1>r, <1>17 DEF MediaInv, Pinned, Reading, mediaVars
<1>18. CASE Local
  BY <1>18, <1>1, <1>9, <1>10, <1>11, <1>12, <1>13 DEF Local
<1>19. CASE Remote
  BY <1>19, <1>2, <1>3, <1>4, <1>5, <1>6, <1>7 DEF Remote
<1> QED
  BY <1>18, <1>19, <1>8, <1>14, <1>15, <1>16, <1>17 DEF MediaNext

\* The invariant holds throughout.
LEMMA MediaInvariant == MediaSpec => []MediaInv
  BY MediaInitInv, MediaNextInv, PTL DEF MediaSpec

\* A resolution is at one of its steps, and its outcome is one of those the
\* resolver of adapters/media.py gives.
THEOREM MediaTypes == MediaSpec => []MediaTypeOK
<1>1. MediaInv => MediaTypeOK
  BY DEF MediaInv, Pinned, Reading, MediaTypeOK
<1> QED
  BY MediaInvariant, <1>1, PTL

\* Whatever names resolve to, and however often, no request leaves the policy.
THEOREM DownloadsStayWithin == MediaSpec => []WithinPolicy
<1>1. MediaInv => WithinPolicy
  BY DEF MediaInv, Pinned, WithinPolicy
<1> QED
  BY MediaInvariant, <1>1, PTL

\* Whatever a server sends and however a file grows, what is returned is whole.
THEOREM MediaAreWhole == MediaSpec => []WholeAndBounded
<1>1. MediaInv => WholeAndBounded
  BY DEF MediaInv, Reading, WholeAndBounded
<1> QED
  BY MediaInvariant, <1>1, PTL

(***************************************************************************)
(* References and EventTranslation: for any messages, peers and widths of  *)
(* the packed parts.                                                       *)
(***************************************************************************)

(* Packing and unpacking.                                                   *)

\* Multiples of P are at least P apart.
LEMMA ProductsGrow ==
  ASSUME NEW P \in Nat, NEW x \in Int, NEW y \in Int, x < y
  PROVE  x * P + P <= y * P
<1>1. PICK d \in Nat : y = x + 1 + d
  <2>1. y - x - 1 \in Nat /\ y = x + 1 + (y - x - 1)
    OBVIOUS
  <2> QED
    BY <2>1
<1>2. d * P \in Nat /\ y * P = x * P + P + d * P
  BY <1>1
<1> QED
  BY <1>2

\* A number packed with a smaller one is unpacked by \div and %.
LEMMA DivMod ==
  ASSUME NEW P \in Nat, P > 0, NEW a \in Int, NEW b \in 0..P - 1
  PROVE  (a * P + b) \div P = a /\ (a * P + b) % P = b
<1> DEFINE z == a * P + b
           q == z \div P
<1>1. q \in Int /\ z % P \in 0..P - 1 /\ z = q * P + (z % P)
  OBVIOUS
<1>2. ASSUME q < a PROVE FALSE
  <2>1. q * P + P <= a * P
    BY <1>1, <1>2, ProductsGrow
  <2> QED
    BY <2>1, <1>1
<1>3. ASSUME a < q PROVE FALSE
  <2>1. a * P + P <= q * P
    BY <1>1, <1>3, ProductsGrow
  <2> QED
    BY <2>1, <1>1
<1>4. q = a
  BY <1>1, <1>2, <1>3
<1> QED
  BY <1>1, <1>4

\* A number below the modulus stays as it is.
LEMMA SmallMod == ASSUME NEW P \in Nat, NEW b \in 0..P - 1 PROVE b % P = b
  OBVIOUS

\* The mask of the number leaves it as it is, and the scene out.
LEMMA DivOf == \E k \in Nat : SeqSlot = k * SeqMask
<1>1. SeqSlot = (SeqSlot \div SeqMask) * SeqMask + (SeqSlot % SeqMask)
  BY IdsAssumption
<1>2. SeqSlot \div SeqMask \in Nat
  BY IdsAssumption
<1>3. SeqSlot = (SeqSlot \div SeqMask) * SeqMask
  BY <1>1, <1>2, IdsAssumption
<1> QED
  BY <1>2, <1>3

\* msg_deid() undoes msg_enid(), for a scene below the mask and a peer that is
\* one, but for what it masks out of the sequence number; the id has all of it.
LEMMA UnpackedParts ==
  ASSUME NEW scene \in {0, 1}, NEW seq \in 0..SeqSlot - 1, NEW peer \in 0..PeerSlot - 1
  PROVE  LET id == Encode(scene, seq, peer)
         IN  /\ SceneOf(id) = scene /\ SequenceOf(id) = seq % SeqMask /\ PeerOf(id) = peer
             /\ (id \div PeerSlot) % SeqSlot = seq
             /\ Unpacked(id) = [kind |-> Kinds[scene + 1], seq |-> seq % SeqMask, peer |-> peer]
<1> DEFINE id == Encode(scene, seq, peer)
           upper == scene * SeqSlot + seq
<1> USE IdsAssumption
<1>1. upper \in Int /\ id = upper * PeerSlot + peer
  BY DEF Encode
<1>2. id \div PeerSlot = upper /\ id % PeerSlot = peer
  <2> HIDE DEF upper, id
  <2> QED
    BY <1>1, DivMod
<1>3. upper % SeqMask = seq % SeqMask
  <2>1. PICK k \in Nat : SeqSlot = k * SeqMask
    BY DivOf
  <2>2. PICK q \in Nat, r \in 0..SeqMask - 1 : seq = q * SeqMask + r
    <3>1. /\ seq = (seq \div SeqMask) * SeqMask + (seq % SeqMask)
          /\ seq \div SeqMask \in Nat /\ seq % SeqMask \in 0..SeqMask - 1
      OBVIOUS
    <3> QED
      BY <3>1
  <2>3. upper = (scene * k + q) * SeqMask + r /\ scene * k + q \in Int
    BY <2>1, <2>2
  <2>4. upper % SeqMask = r
    <3> HIDE DEF upper
    <3> QED
      BY <2>3, DivMod
  <2>5. seq % SeqMask = r
    BY <2>2, DivMod
  <2> QED
    BY <2>4, <2>5
<1>5. upper % SeqSlot = seq
  BY DivMod
<1>4. (id \div (SeqSlot * PeerSlot)) % SceneMask = scene
  <2> DEFINE lower == seq * PeerSlot + peer
             slot == SeqSlot * PeerSlot
  <2>1. slot \in Nat /\ lower \in Nat /\ id = scene * slot + lower
    BY DEF Encode
  <2>2. seq * PeerSlot + PeerSlot <= slot
    BY ProductsGrow
  <2>3. lower \in 0..slot - 1 /\ slot > 0
    BY <2>1, <2>2
  <2>4. id \div slot = scene
    <3> HIDE DEF lower, slot, id
    <3> QED
      BY <2>1, <2>3, DivMod
  <2>5. scene % SceneMask = scene
    BY SmallMod
  <2> QED
    BY <2>4, <2>5
<1> QED
  BY <1>2, <1>3, <1>4, <1>5 DEF SceneOf, SequenceOf, PeerOf, Unpacked

----------------------------------------------------------------------------
(* Resolution and recall.                                                   *)

MessageSpace == [kind : {"private", "group"}, seq : 0..SeqSlot - 1, peer : (0..PeerSlot - 1) \ {Self}]

\* The id of a message names it, but for what is masked out of its number.
LEMMA IdNames ==
  ASSUME NEW m \in MessageSpace
  PROVE  Unpacked(IdOf(m)) = ReadAs("milky", m) /\ PeerOf(IdOf(m)) = m.peer
<1>1. /\ m.seq \in 0..SeqSlot - 1 /\ m.peer \in 0..PeerSlot - 1
      /\ m.kind \in {"private", "group"}
      /\ m = [kind |-> m.kind, seq |-> m.seq, peer |-> m.peer]
  BY DEF MessageSpace
<1>2. SceneNumber(m) \in {0, 1} /\ Kinds[SceneNumber(m) + 1] = m.kind
  BY <1>1 DEF SceneNumber, Kinds
<1>3. Unpacked(IdOf(m)) = [kind |-> m.kind, seq |-> m.seq % SeqMask, peer |-> m.peer]
  BY <1>1, <1>2, UnpackedParts DEF IdOf
<1>4. ReadAs("milky", m) = [kind |-> m.kind, seq |-> m.seq % SeqMask, peer |-> m.peer]
  BY <1>1 DEF ReadAs
<1> QED
  BY <1>1, <1>2, <1>3, <1>4, UnpackedParts DEF IdOf

\* No two messages have one id.
LEMMA IdsDiffer ==
  ASSUME NEW m \in MessageSpace, NEW n \in MessageSpace, IdOf(m) = IdOf(n)
  PROVE  m = n
<1>1. ASSUME NEW x \in MessageSpace
      PROVE  LET id == IdOf(x)
             IN  x = [kind |-> Unpacked(id).kind, seq |-> (id \div PeerSlot) % SeqSlot, peer |-> PeerOf(id)]
  <2>1. /\ x.seq \in 0..SeqSlot - 1 /\ x.peer \in 0..PeerSlot - 1
        /\ x.kind \in {"private", "group"}
        /\ x = [kind |-> x.kind, seq |-> x.seq, peer |-> x.peer]
    BY DEF MessageSpace
  <2>2. SceneNumber(x) \in {0, 1} /\ Kinds[SceneNumber(x) + 1] = x.kind
    BY <2>1 DEF SceneNumber, Kinds
  <2>3. /\ Unpacked(IdOf(x)).kind = x.kind /\ PeerOf(IdOf(x)) = x.peer
        /\ (IdOf(x) \div PeerSlot) % SeqSlot = x.seq
    BY <2>1, <2>2, UnpackedParts DEF IdOf
  <2> QED
    BY <2>1, <2>3
<1> QED
  BY <1>1

\* What the mask leaves of a number is the number, or is below it by a multiple.
LEMMA MaskLeaves ==
  ASSUME NEW M \in Nat, 0 < M, NEW s \in Nat
  PROVE  IF s < M THEN s % M = s ELSE s % M < s /\ (s - (s % M)) % M = 0
<1>1. CASE s < M
  BY <1>1, SmallMod
<1>2. CASE ~(s < M)
  <2>1. PICK q \in Nat, r \in 0..M - 1 : s = q * M + r /\ s % M = r
    <3>1. s = (s \div M) * M + (s % M) /\ s \div M \in Nat /\ s % M \in 0..M - 1
      OBVIOUS
    <3> QED
      BY <3>1
  <2>2. s - r = q * M + 0
    BY <2>1
  <2>3. (q * M + 0) % M = 0
    BY <2>1, DivMod
  <2> QED
    BY <1>2, <2>1, <2>2, <2>3
<1> QED
  BY <1>1, <1>2

RecallInv == store \subseteq Messages /\ RecallHitsNamed

\* A recall by the id of a message deletes no message of another conversation,
\* and none but this one if the mask holds its number.
THEOREM RecallsHitNamed == RefSpec => []RecallHitsNamed
<1>1. RefInit => RecallInv
  BY DEF RefInit, RecallInv, RecallHitsNamed
<1>2. RecallInv /\ [RefNext]_refVars => RecallInv'
  <2> SUFFICES ASSUME RecallInv, [RefNext]_refVars PROVE RecallInv'
    OBVIOUS
  <2>1. ASSUME NEW m \in Messages, Recall(m) PROVE RecallInv'
    <3> DEFINE it == Unpacked(IdOf(m))
    <3>1. m \in MessageSpace /\ m.seq \in Nat /\ SeqMask \in Nat /\ 0 < SeqMask
      BY MessagesAssumption, IdsAssumption DEF MessageSpace
    <3>2. it = [m EXCEPT !.seq = m.seq % SeqMask]
      BY <3>1, IdNames DEF ReadAs
    <3>3. /\ it.kind = m.kind /\ it.peer = m.peer /\ it.seq = m.seq % SeqMask
          /\ m.seq % SeqMask = m.seq => it = m
      BY <3>1, <3>2 DEF MessageSpace
    <3> HIDE DEF it
    <3>m. IF m.seq < SeqMask THEN m.seq % SeqMask = m.seq
          ELSE m.seq % SeqMask < m.seq /\ (m.seq - (m.seq % SeqMask)) % SeqMask = 0
      BY <3>1, MaskLeaves
    <3>4. IF m.seq < SeqMask THEN it = m ELSE it.seq < m.seq /\ (m.seq - it.seq) % SeqMask = 0
      BY <3>3, <3>m
    <3>5. /\ meant' = meant \cup {m} /\ store' \subseteq store
          /\ hit' \subseteq hit \cup {it}
      BY <2>1 DEF Recall, it
    <3> QED
      BY <3>3, <3>4, <3>5 DEF RecallInv, RecallHitsNamed
  <2>2. ASSUME NEW m \in Messages, Vanish(m) PROVE RecallInv'
    BY <2>2 DEF Vanish, RecallInv, RecallHitsNamed
  <2>3. CASE Refuse \/ Ask \/ Answered \/ Failed \/ UNCHANGED refVars
    BY <2>3 DEF Refuse, Ask, Answered, Failed, refVars, RecallInv, RecallHitsNamed
  <2> QED
    BY <2>1, <2>2, <2>3 DEF RefNext
<1>3. RecallInv => RecallHitsNamed
  BY DEF RecallInv
<1> QED
  BY <1>1, <1>2, <1>3, PTL DEF RefSpec

\* When the platform is asked, no check of the adapter has applied.
Unrefused(a, q) ==
  /\ q.id # Malformed
  /\ a = "milky" => /\ ~NotPacked(q.id)
                    /\ Unpacked(q.id).kind = q.kind /\ PeerOf(q.id) = q.peer

\* Of two or three checks First() finds one that applies, or none does.
LEMMA FirstFindsOne ==
  ASSUME NEW checks, Len(checks) \in {2, 3}
  PROVE  LET I == {i \in 1..Len(checks) : checks[i][1]}
         IN  (First(checks) = 0 /\ I = {}) \/ First(checks) \in I
<1> DEFINE I == {i \in 1..Len(checks) : checks[i][1]}
<1>1. First(checks) = IF I # {} THEN Min(I) ELSE 0
  BY DEF First, SelectInSeq
<1>2. ASSUME I # {} PROVE Min(I) \in I
  <2>1. 1 \in I \/ (1 \notin I /\ 2 \in I) \/ (1 \notin I /\ 2 \notin I /\ 3 \in I)
    BY <1>2
  <2>2. \A i \in I : i \in {1, 2, 3}
    OBVIOUS
  <2> HIDE DEF I
  <2>3. \E x \in I : \A y \in I : x <= y
    BY <2>1, <2>2
  <2> QED
    BY <2>3 DEF Min
<1> HIDE DEF I
<1>3. (First(checks) = 0 /\ I = {}) \/ First(checks) \in I
  BY <1>1, <1>2
<1> QED
  BY <1>3 DEF I

\* When First() finds none, none applies.
LEMMA NoneOfThese ==
  ASSUME NEW checks, NEW i \in {2, 3}, Len(checks) \in {2, 3}, First(checks) = 0, i <= Len(checks)
  PROVE  ~checks[i][1]
<1> DEFINE I == {j \in 1..Len(checks) : checks[j][1]}
<1>1. (First(checks) = 0 /\ I = {}) \/ First(checks) \in I
  BY FirstFindsOne
<1>2. \A j \in I : j # 0
  OBVIOUS
<1>3. I = {}
  BY <1>1, <1>2
<1> QED
  BY <1>3

\* What First() finds is the place of a check.
LEMMA OneOfThese ==
  ASSUME NEW checks, Len(checks) \in {2, 3}, First(checks) # 0
  PROVE  First(checks) \in 1..Len(checks)
<1> DEFINE I == {j \in 1..Len(checks) : checks[j][1]}
<1>1. (First(checks) = 0 /\ I = {}) \/ First(checks) \in I
  BY FirstFindsOne
<1> QED
  BY <1>1

\* The checks of each adapter, in order.
LEMMA TheChecks ==
  ASSUME NEW a \in Adapters, NEW q
  PROVE  LET checks == Refusals(a, q)
         IN  /\ a = "onebot" =>
                  checks = <<OtherProtocol(q), BadTimeout(q), BadId(q.id = Malformed)>>
             /\ a = "feishu" =>
                  checks = <<OtherProtocol(q), BadId(q.id = Malformed), BadTimeout(q)>>
             /\ a = "milky" /\ (q.id = Malformed \/ NotPacked(q.id))
                  => checks = <<OtherProtocol(q), BadId(TRUE)>>
             /\ a = "milky" /\ ~(q.id = Malformed \/ NotPacked(q.id))
                  => checks = <<OtherProtocol(q), OtherConversation(q), BadTimeout(q)>>
  BY DEF Refusals

\* A request that passes the checks names a message of its own conversation.
LEMMA NoneApplies ==
  ASSUME NEW a \in Adapters, NEW q \in Requests, First(Refusals(a, q)) = 0
  PROVE  Unrefused(a, q)
<1> DEFINE checks == Refusals(a, q)
<1>1. ASSUME Len(checks) = 3 PROVE ~checks[2][1] /\ ~checks[3][1]
  <2>1. 2 <= Len(checks) /\ 3 <= Len(checks)
    BY <1>1
  <2>2. ~checks[2][1]
    BY <1>1, <2>1, NoneOfThese
  <2>3. ASSUME NEW i \in {2, 3}, i <= Len(checks) PROVE ~checks[i][1]
    BY <1>1, <2>3, NoneOfThese
  <2> QED
    BY <2>1, <2>2, <2>3
<1>2. ASSUME a = "onebot", q.id = Malformed PROVE FALSE
  <2>1. checks[3][1] /\ Len(checks) = 3
    BY <1>2 DEF Refusals, BadId
  <2> QED
    BY <1>1, <2>1
<1>3. ASSUME a = "feishu", q.id = Malformed PROVE FALSE
  <2>1. checks[2][1] /\ Len(checks) = 3
    BY <1>3 DEF Refusals, BadId
  <2> QED
    BY <1>1, <2>1
<1>4. ASSUME a = "milky", q.id = Malformed \/ NotPacked(q.id) PROVE FALSE
  <2>1. checks[2][1] /\ Len(checks) = 2
    BY <1>4 DEF Refusals, BadId
  <2>2. ~checks[2][1]
    BY <2>1, NoneOfThese
  <2> QED
    BY <2>1, <2>2
<1>5. ASSUME a = "milky", ~(q.id = Malformed \/ NotPacked(q.id)),
             Unpacked(q.id).kind # q.kind \/ PeerOf(q.id) # q.peer
      PROVE  FALSE
  <2>1. checks[2][1] /\ Len(checks) = 3
    BY <1>5 DEF Refusals, OtherConversation
  <2> QED
    BY <1>1, <2>1
<1> QED
  BY <1>2, <1>3, <1>4, <1>5 DEF Unrefused, Adapters

\* A check that applies rejects.
LEMMA RefusalsReject ==
  ASSUME NEW a \in Adapters, NEW q, First(Refusals(a, q)) > 0
  PROVE  Refusals(a, q)[First(Refusals(a, q))][2].status = "rejected"
<1> DEFINE checks == Refusals(a, q)
<1>1. Len(checks) \in {2, 3} /\ \A i \in 1..Len(checks) : checks[i][2].status = "rejected"
  <2> USE DEF OtherProtocol, BadTimeout, BadId, OtherConversation, Rejected, Wrong
  <2>1. CASE a = "onebot"
    <3>1. checks = <<OtherProtocol(q), BadTimeout(q), BadId(q.id = Malformed)>>
      BY <2>1, TheChecks
    <3> HIDE DEF checks
    <3> QED
      BY <3>1
  <2>2. CASE a = "feishu"
    <3>1. checks = <<OtherProtocol(q), BadId(q.id = Malformed), BadTimeout(q)>>
      BY <2>2, TheChecks
    <3> HIDE DEF checks
    <3> QED
      BY <3>1
  <2>3. CASE a = "milky" /\ (q.id = Malformed \/ NotPacked(q.id))
    <3>1. checks = <<OtherProtocol(q), BadId(TRUE)>>
      BY <2>3, TheChecks
    <3> HIDE DEF checks
    <3> QED
      BY <3>1
  <2>4. CASE a = "milky" /\ ~(q.id = Malformed \/ NotPacked(q.id))
    <3>1. checks = <<OtherProtocol(q), OtherConversation(q), BadTimeout(q)>>
      BY <2>4, TheChecks
    <3> HIDE DEF checks
    <3> QED
      BY <3>1
  <2> QED
    BY <2>1, <2>2, <2>3, <2>4 DEF Adapters
<1>2. First(checks) \in 1..Len(checks)
  BY <1>1, OneOfThese
<1> QED
  BY <1>1, <1>2

\* What is asked of the platform is the message that the id names.
AskedInv ==
  /\ adapter \in Adapters /\ request \in Requests /\ store \subseteq Messages
  /\ rpc \in {"start", "asked", "done"}
  /\ rpc = "asked" =>
       /\ Unrefused(adapter, request)
       /\ \A m \in asked \cap store : m = NamedBy(adapter, request.id) /\ Known(adapter, request.id)
  /\ SameConversation

\* The message that is named is the one that has the id, but for what Milky's
\* mask leaves out; no other has it.
LEMMA TheNamed ==
  ASSUME NEW a \in Adapters, NEW id, NEW m \in Messages, m = NamedBy(a, id), Known(a, id),
         NEW n \in Messages, id = IdOf(n)
  PROVE  m = ReadAs(a, n)
<1>1. m \in MessageSpace /\ n \in MessageSpace
  BY MessagesAssumption DEF MessageSpace
<1>2. CASE a = "milky"
  BY <1>1, <1>2, IdNames DEF NamedBy
<1>3. CASE a # "milky"
  <2>1. IdOf(m) = id
    BY <1>3 DEF NamedBy, Known
  <2> QED
    BY <1>1, <1>3, <2>1, IdsDiffer DEF ReadAs
<1> QED
  BY <1>2, <1>3

\* An answer that leads to a message is of the conversation that was expected.
LEMMA AnswersMatch ==
  ASSUME NEW q \in Requests, NEW m \in MessageSpace, adapter \in Adapters, Unrefused(adapter, q),
         adapter = "milky" => m = Unpacked(q.id),
         NEW r \in Results(adapter, q, m), r.status = "ok"
  PROVE  r.found = {m} /\ m.kind = q.kind /\ m.peer = q.peer
<1>q. q.kind \in {"private", "group"} /\ q.peer \in Nat /\ q.peer # Self
  BY IdsAssumption DEF Requests
<1>m. m.kind \in {"private", "group"} /\ m.peer \in Nat /\ m.peer # Self
  BY IdsAssumption DEF MessageSpace
<1> USE DEF Wrong, Rejected
<1>c. ASSUME NEW kind, NEW chat, NEW sender, r = Conclude(q, kind, chat, sender, m)
      PROVE  r.found = {m} /\ kind = q.kind /\ chat = Chat(adapter, q.kind, q.peer)
             /\ chat # Absent
  BY <1>c DEF Conclude
<1>1. CASE adapter = "onebot"
  <2>1. r # Wrong("error", "malformed_response")
    OBVIOUS
  <2>2. r \in OneBotResults(q, m)
    BY <1>1 DEF Results
  <2>3. PICK target \in Reported(m.peer), sender \in Senders(m) :
          r = Conclude(q, m.kind,
                       IF m.kind = "group" \/ target # Absent THEN target
                       ELSE IF sender = Self THEN Absent ELSE sender, sender, m)
    BY <2>1, <2>2 DEF OneBotResults
  <2> QED
    BY <2>3, <1>c, <1>1, <1>m, <1>q DEF Chat, Reported, Senders
<1>2. CASE adapter = "feishu"
  <2>1. r # Wrong("error", "malformed_response")
    OBVIOUS
  <2>2. r \in FeishuResults(q, m)
    BY <1>2 DEF Results
  <2>3. PICK type \in {m.kind, "unreported"}, chat \in Reported(Chat("feishu", m.kind, m.peer)),
             sender \in Senders(m) :
          r = Conclude(q, IF type = "private" THEN "private" ELSE "group", chat, sender, m)
    BY <2>1, <2>2 DEF FeishuResults
  <2>4. r.found = {m} /\ Chat("feishu", m.kind, m.peer) = Chat("feishu", q.kind, q.peer)
    BY <2>3, <1>c, <1>2 DEF Reported
  <2> QED
    BY <2>4, <1>m, <1>q DEF Chat
<1>3. CASE adapter = "milky"
  <2>1. PICK sender \in Senders(m) : r = Conclude(q, m.kind, PeerOf(q.id), sender, m)
    BY <1>3 DEF Results, MilkyResults
  <2>2. m.kind = q.kind /\ PeerOf(q.id) = q.peer /\ m.peer = PeerOf(q.id)
    BY <1>3 DEF Unrefused, Unpacked
  <2> QED
    BY <2>1, <2>2, <1>c
<1> QED
  BY <1>1, <1>2, <1>3 DEF Adapters

\* Nothing has been asked.
LEMMA AskedInit == RefInit => AskedInv
  BY DEF RefInit, AskedInv, SameConversation

\* One step per answer: only the platform's is resolved to a message.
LEMMA AskedStep == AskedInv /\ [RefNext]_refVars => AskedInv'
<1> SUFFICES ASSUME AskedInv, [RefNext]_refVars PROVE AskedInv'
  OBVIOUS
<1> USE DEF AskedInv, Keep
<1>1. CASE Refuse
  <2>1. result'.status = "rejected"
    BY <1>1, RefusalsReject DEF Refuse
  <2> QED
    BY <1>1, <2>1 DEF Refuse, SameConversation
<1>2. CASE Ask
  <2>1. Unrefused(adapter, request)
    BY <1>2, NoneApplies DEF Ask
  <2> QED
    BY <1>2, <2>1 DEF Ask, SameConversation
<1>3. CASE Answered
  <2>1. PICK m \in asked \cap store : result' \in Results(adapter, request, m)
    BY <1>3 DEF Answered
  <2>2. /\ m \in Messages /\ m \in MessageSpace
        /\ m = NamedBy(adapter, request.id) /\ Known(adapter, request.id)
        /\ Unrefused(adapter, request)
    BY <1>3, <2>1, MessagesAssumption DEF Answered, MessageSpace
  <2>3. SameConversation'
    <3> SUFFICES ASSUME result'.status = "ok"
                 PROVE  /\ \A n \in result'.found : n.kind = request.kind /\ n.peer = request.peer
                        /\ \A n \in Messages : request.id = IdOf(n) => result'.found = {ReadAs(adapter, n)}
      BY <1>3 DEF Answered, SameConversation
    <3>1. adapter = "milky" => m = Unpacked(request.id)
      BY <2>2 DEF NamedBy
    <3>2. result'.found = {m} /\ m.kind = request.kind /\ m.peer = request.peer
      BY <2>1, <2>2, <3>1, AnswersMatch
    <3>3. \A n \in Messages : request.id = IdOf(n) => m = ReadAs(adapter, n)
      BY <2>2, TheNamed
    <3> QED
      BY <3>2, <3>3
  <2> QED
    BY <1>3, <2>3 DEF Answered
<1>4. CASE Failed
  BY <1>4 DEF Failed, Failures, Wrong, SameConversation
<1>5. ASSUME NEW m \in Messages, Recall(m) PROVE AskedInv'
  BY <1>5 DEF Recall, SameConversation
<1>6. ASSUME NEW m \in Messages, Vanish(m) PROVE AskedInv'
  BY <1>6 DEF Vanish, SameConversation
<1>7. CASE UNCHANGED refVars
  BY <1>7 DEF refVars, SameConversation
<1> QED
  BY <1>1, <1>2, <1>3, <1>4, <1>5, <1>6, <1>7 DEF RefNext

\* A resolved reference is the message its id names, of the expected conversation.
THEOREM ReferencesStay == RefSpec => []SameConversation
<1>1. AskedInv => SameConversation
  BY DEF AskedInv
<1> QED
  BY AskedInit, AskedStep, <1>1, PTL DEF RefSpec

----------------------------------------------------------------------------
(* Translation: what an entry says of the fact it was made from.            *)

\* Peers are numbers a packed id has room for.
LEMMA PeersArePositive == \A n \in Peers : n \in Int /\ n >= 1 /\ n < PeerSlot
  BY FramesAssumption, IdsAssumption

\* What the facts of each platform are.
LEMMA FactTypes ==
  ASSUME NEW p \in Adapters, NEW f \in Facts(p)
  PROVE  /\ f.what \in Carried(p) /\ f.kind \in {"private", "group"} /\ f.chat \in Peers
         /\ f.sender \in Peers \cup {Self} /\ f.seq \in Numbers
         /\ f.quote \in {Absent} \cup Numbers /\ f.via \in {Absent} \cup Peers
         /\ f.via # Absent => p = "onebot" /\ f.what = "message" /\ f.kind = "private"
         /\ f.kind = "private" => f.what \in {"message", "menu"} /\ f.sender \in {f.chat, Self}
         /\ f.what = "menu" => f.kind = "private" /\ f.sender = f.chat
  BY DEF Facts

\* What each platform tells the bot of.
LEMMA CarriedBy ==
  /\ Carried("onebot") = {"message", "meta"} \cup Notices \cup JoinRequests
  /\ Carried("milky") = {"message", "meta", "group_increase", "group_decrease"} \cup JoinRequests
  /\ Carried("feishu") = {"message", "menu", "unheard"}
  BY DEF Carried

\* The entry a frame of OneBot becomes.
LEMMA OneBotEntry ==
  ASSUME NEW f \in Facts("onebot"), NEW l, NEW d \in OneBotData(f, l), d.type # "missing"
  PROVE  /\ f.what # "meta"
         /\ f.what = "message" => d.post = "message" /\ d.type = f.kind
         /\ f.what # "message" => d.post # "message"
         /\ d.group = (IF f.kind = "group" THEN f.chat ELSE f.via) /\ d.user = f.sender
         /\ d.conversation = Absent /\ d.flag \subseteq {Announced(f)}
<1>1. f.what # "meta"
  BY DEF OneBotData
<1> DEFINE post == CASE f.what = "message" -> "message"
                       [] f.what \in Notices -> "notice"
                       [] f.what \in JoinRequests -> "request"
           type == CASE post = "message" -> f.kind
                       [] post = "notice"  -> f.what
                       [] post = "request" -> "group"
<1>2. d = [Entry(post, IF "type" \in l THEN "missing" ELSE type,
                    IF f.kind = "group" THEN f.chat ELSE f.via, f.sender)
                EXCEPT !.id = IF "message_id" \in l THEN Absent ELSE f.seq,
                       !.quote = f.quote, !.body = "message" \notin l, !.sender = "sender" \notin l,
                       !.flag = IF post = "request" THEN {Announced(f)} ELSE {}]
  BY <1>1, Zenon DEF OneBotData
<1>3. f.what \in {"message"} \cup Notices \cup JoinRequests
  BY <1>1, FactTypes, CarriedBy DEF Adapters
<1>4. /\ f.what = "message" => post = "message" /\ type = f.kind
      /\ f.what # "message" => post \in {"notice", "request"}
  BY <1>3 DEF Notices, JoinRequests
<1> HIDE DEF post, type
<1>5. /\ d.post = post /\ d.group = (IF f.kind = "group" THEN f.chat ELSE f.via)
      /\ d.user = f.sender /\ d.conversation = Absent
      /\ d.flag = (IF post = "request" THEN {Announced(f)} ELSE {})
  BY <1>2 DEF Entry
<1>6. d.type = type
  BY <1>2 DEF Entry
<1> QED
  BY <1>1, <1>4, <1>5, <1>6

\* That of Milky's: the ids it packs are of the conversation of the event.
LEMMA MilkyEntry ==
  ASSUME NEW f \in Facts("milky"), NEW l \in SUBSET Omissible("milky", f), f.sender # Self,
         NEW d \in MilkyData(f, l)
  PROVE  /\ f.what # "meta" /\ f.what # "menu"
         /\ f.what = "message" =>
              /\ d.post = "message" /\ d.type = f.kind
              /\ d.id = Encode(Scene(f), f.seq, f.chat) /\ d.quote = MilkyQuote(f, f.chat)
         /\ f.what # "message" => d.post # "message"
         /\ d.group = (IF f.kind = "group" THEN f.chat ELSE 0)
         /\ d.user = f.sender /\ d.conversation = Absent
<1>1. /\ f.what \in {"message", "meta", "group_increase", "group_decrease"} \cup JoinRequests
      /\ f.kind \in {"private", "group"}
      /\ f.kind = "private" => f.what \in {"message", "menu"} /\ f.sender \in {f.chat, Self}
      /\ f.seq \in Numbers
  BY FactTypes, CarriedBy DEF Adapters
<1>2. CASE f.what = "message"
  <2>1. /\ d = MilkyMessage(f, l)
        /\ MilkyNumber(f, l) # Absent
    BY <1>2 DEF MilkyData, Notices, JoinRequests
  <2>2. MilkyNumber(f, l) = f.seq
    BY <2>1 DEF MilkyNumber
  <2>3. "peer_id" \in l => f.kind = "private"
    BY <1>1, <1>2 DEF Omissible
  <2> DEFINE peer == IF "peer_id" \in l THEN f.sender ELSE f.chat
  <2>4. peer = f.chat
    BY <1>1, <2>3
  <2>5. d = [Entry("message", f.kind, IF f.kind = "group" THEN f.chat ELSE 0, f.sender)
               EXCEPT !.id = Encode(Scene(f), f.seq, f.chat), !.quote = MilkyQuote(f, f.chat)]
    BY <2>1, <2>2, <2>4 DEF MilkyMessage
  <2> QED
    BY <1>2, <2>5 DEF Entry
<1>3. CASE f.what \in Notices
  <2>1. d = Entry("notice", f.what, f.chat, f.sender) /\ f.what # "message" /\ f.what # "meta"
    BY <1>3 DEF MilkyData, Notices, JoinRequests
  <2> QED
    BY <1>1, <1>3, <2>1 DEF Entry, Notices
<1>4. CASE f.what \in JoinRequests
  <2>1. d = [Entry("request", "group", f.chat, f.sender) EXCEPT !.flag = {Announced(f)}]
    BY <1>4 DEF MilkyData, Notices, JoinRequests
  <2> QED
    BY <1>1, <1>4, <2>1 DEF Entry, JoinRequests
<1>5. CASE f.what = "meta"
  BY <1>5 DEF MilkyData, Notices, JoinRequests
<1> QED
  BY <1>1, <1>2, <1>3, <1>4, <1>5 DEF Notices

\* The entry a request of Feishu's becomes.
LEMMA FeishuEntry ==
  ASSUME NEW f \in Facts("feishu"), NEW l, NEW d \in FeishuData(f, l)
  PROVE  /\ d.post = "message" /\ d.flag = {} /\ d.user \in {Absent, f.sender}
         /\ f.what = "message" =>
              /\ d.type = f.kind /\ d.conversation = Chat("feishu", f.kind, f.chat)
              /\ f.kind = "group" => d.group = Chat("feishu", "group", f.chat)
         /\ f.what # "message" => f.kind = "private" /\ d.type = "private"
<1>1. /\ f.what \in {"message", "menu", "unheard"}
      /\ f.what = "menu" => f.kind = "private"
  BY FactTypes, CarriedBy DEF Adapters
<1> DEFINE user == IF "open_id" \in l THEN Absent ELSE f.sender
<1>2. CASE f.what = "message"
  <2>1. d = [Entry("message", f.kind,
                   IF f.kind = "group" THEN Chat("feishu", "group", f.chat) ELSE Absent, user)
                 EXCEPT !.conversation = Chat("feishu", f.kind, f.chat), !.id = f.seq,
                        !.quote = f.quote]
    BY <1>2 DEF FeishuData
  <2> QED
    BY <1>2, <2>1 DEF Entry
<1>3. CASE f.what = "menu"
  <2>1. d = [Entry("message", "private", Absent, user) EXCEPT !.conversation = user, !.id = f.seq]
    BY <1>3 DEF FeishuData
  <2> QED
    BY <1>1, <1>3, <2>1 DEF Entry
<1>4. CASE f.what = "unheard"
  BY <1>4 DEF FeishuData
<1> QED
  BY <1>1, <1>2, <1>3, <1>4

----------------------------------------------------------------------------
(* The event.                                                               *)

\* The flag of a request is its notification's; nothing else has one.
LEMMA FlagAnnounces ==
  ASSUME NEW p \in Adapters, NEW f \in Facts(p), NEW l,
         NEW d \in Translated(p, f, l), Constructible(p, d)
  PROVE  Made(p, d).flag \subseteq {Announced(f)}
<1>1. Made(p, d).flag = d.flag /\ d.type # "missing"
  BY DEF Made, Constructible
<1>2. CASE p = "onebot"
  BY <1>1, <1>2, OneBotEntry DEF Translated
<1>3. CASE p = "milky"
  <2>1. d \in MilkyData(f, l)
    BY <1>3 DEF Translated
  <2>2. f.what \in {"message", "meta"} \cup Notices \cup JoinRequests
    BY <1>3, FactTypes, CarriedBy DEF Notices
  <2>3. CASE f.what = "message"
    <3>1. d = MilkyMessage(f, l)
      BY <2>1, <2>3 DEF MilkyData, Notices, JoinRequests
    <3> QED
      BY <1>1, <3>1 DEF MilkyMessage, Entry
  <2>4. CASE f.what \in Notices
    <3>1. d = Entry("notice", f.what, f.chat, f.sender)
      BY <2>1, <2>4 DEF MilkyData, Notices, JoinRequests
    <3> QED
      BY <1>1, <3>1 DEF Entry
  <2>5. CASE f.what \in JoinRequests
    <3>1. d = [Entry("request", "group", f.chat, f.sender) EXCEPT !.flag = {Announced(f)}]
      BY <2>1, <2>5 DEF MilkyData, Notices, JoinRequests
    <3> QED
      BY <1>1, <3>1 DEF Entry
  <2>6. CASE f.what = "meta"
    BY <2>1, <2>6 DEF MilkyData, Notices, JoinRequests
  <2> QED
    BY <2>2, <2>3, <2>4, <2>5, <2>6
<1>4. CASE p = "feishu"
  BY <1>1, <1>4, FeishuEntry DEF Translated
<1> QED
  BY <1>2, <1>3, <1>4 DEF Adapters

\* Where an answer to a fact goes; Feishu's groups have ids of their own.
Origin(p, f) ==
  [kind |-> f.kind, peer |-> IF f.kind = "group" THEN Chat(p, "group", f.chat) ELSE f.chat]

\* The event of a fact is answered where the fact came from.
LEMMA TargetIsOrigin ==
  ASSUME NEW p \in Adapters, NEW f \in Facts(p), NEW l \in SUBSET Omissible(p, f),
         NEW d \in Translated(p, f, l), Constructible(p, d), f.sender # Self
  PROVE  Target(Made(p, d)) = Origin(p, f)
<1>1. /\ f.kind \in {"private", "group"} /\ f.chat \in Int /\ f.chat >= 1
      /\ f.via # Absent => f.what = "message" /\ f.kind = "private"
      /\ f.kind = "private" => f.what \in {"message", "menu"} /\ f.sender = f.chat
  <2>1. /\ f.kind \in {"private", "group"} /\ f.chat \in Peers
        /\ f.via # Absent => f.what = "message" /\ f.kind = "private"
        /\ f.kind = "private" => f.what \in {"message", "menu"} /\ f.sender \in {f.chat, Self}
    BY FactTypes
  <2>2. f.chat \in Int /\ f.chat >= 1
    BY <2>1, PeersArePositive, Zenon
  <2> QED
    BY <2>1, <2>2
<1>2. d.type # "missing" /\ (p = "feishu" => d.user # Absent)
  BY DEF Constructible
<1>3. /\ Made(p, d).group = IF d.post = "message" /\ d.type = "private" THEN Absent ELSE d.group
      /\ Made(p, d).user = d.user
  BY DEF Made, EventGroup
<1>4. CASE p = "onebot"
  <2>1. d \in OneBotData(f, l)
    BY <1>4 DEF Translated
  <2>2. /\ f.what # "meta"
        /\ f.what = "message" => d.post = "message" /\ d.type = f.kind
        /\ f.what # "message" => d.post # "message"
        /\ d.group = (IF f.kind = "group" THEN f.chat ELSE f.via) /\ d.user = f.sender
    BY <1>2, <1>4, <2>1, OneBotEntry
  <2>3. f.what # "menu"
    BY <1>4, FactTypes, CarriedBy DEF Adapters, Notices, JoinRequests
  <2>4. Made(p, d).group = IF f.kind = "group" THEN f.chat ELSE Absent
    BY <1>1, <1>3, <2>2, <2>3
  <2> QED
    BY <1>1, <1>3, <1>4, <2>2, <2>4 DEF Target, Origin, Chat, Absent
<1>5. CASE p = "milky"
  <2>1. d \in MilkyData(f, l)
    BY <1>5 DEF Translated
  <2>2. /\ f.what # "meta" /\ f.what # "menu"
        /\ f.what = "message" => d.post = "message" /\ d.type = f.kind
        /\ f.what # "message" => d.post # "message"
        /\ d.group = (IF f.kind = "group" THEN f.chat ELSE 0)
        /\ d.user = f.sender
    BY <1>5, <2>1, MilkyEntry
  <2>3. Made(p, d).group = IF f.kind = "group" THEN f.chat ELSE Absent
    BY <1>1, <1>3, <2>2
  <2> QED
    BY <1>1, <1>3, <1>5, <2>2, <2>3 DEF Target, Origin, Chat, Absent
<1>6. CASE p = "feishu"
  <2>1. d \in FeishuData(f, l)
    BY <1>6 DEF Translated
  <2>2. /\ d.post = "message" /\ d.flag = {} /\ d.user \in {Absent, f.sender}
        /\ f.what = "message" =>
             /\ d.type = f.kind
             /\ f.kind = "group" => d.group = Chat("feishu", "group", f.chat)
        /\ f.what # "message" => f.kind = "private" /\ d.type = "private"
    BY <1>6, <2>1, FeishuEntry
  <2>3. Made(p, d).group = IF f.kind = "group" THEN Chat("feishu", "group", f.chat) ELSE Absent
    BY <1>1, <1>3, <2>2
  <2>4. Chat("feishu", "group", f.chat) # Absent
    BY <1>1 DEF Chat, Absent
  <2> QED
    BY <1>1, <1>2, <1>3, <1>6, <2>2, <2>3, <2>4 DEF Target, Origin
<1> QED
  BY <1>4, <1>5, <1>6 DEF Adapters

\* What a handler of a message knows of it: its conversation, and ids that
\* unpack to it.
LEMMA KeyIsOrigin ==
  ASSUME NEW p \in Adapters, NEW f \in Facts(p), NEW l \in SUBSET Omissible(p, f),
         NEW d \in Translated(p, f, l), Constructible(p, d),
         f.what = "message", f.sender # Self, f.via = Absent
  PROVE  /\ Key(Made(p, d)) = [kind |-> f.kind, peer |-> Chat(p, f.kind, f.chat)]
         /\ p = "milky" =>
              /\ Made(p, d).id # Absent => Made(p, d).id = Encode(Scene(f), f.seq, f.chat)
              /\ Made(p, d).quote # Absent =>
                   f.quote \in Numbers \ {0} /\ Made(p, d).quote = Encode(Scene(f), f.quote, f.chat)
<1>1. /\ f.kind \in {"private", "group"} /\ f.chat \in Nat \ {0}
      /\ f.kind = "private" => f.sender = f.chat
      /\ f.quote \in {Absent} \cup Numbers
  <2>1. /\ f.kind \in {"private", "group"} /\ f.chat \in Peers
        /\ f.kind = "private" => f.sender \in {f.chat, Self}
        /\ f.quote \in {Absent} \cup Numbers
    BY FactTypes
  <2>2. Peers \subseteq Nat \ {0}
    BY FramesAssumption, IdsAssumption
  <2> QED
    BY <2>1, <2>2
<1>2. d.type # "missing"
  BY DEF Constructible
<1>3. /\ Made(p, d).group = IF d.post = "message" /\ d.type = "private" THEN Absent ELSE d.group
      /\ Made(p, d).conversation = DefaultConversation(p, d)
      /\ Made(p, d).id \in {d.id, Absent} /\ Made(p, d).quote \in {d.quote, Absent}
  BY DEF Made, EventGroup
<1>4. CASE p = "onebot"
  <2>1. d \in OneBotData(f, l)
    BY <1>4 DEF Translated
  <2>2. /\ d.post = "message" /\ d.type = f.kind /\ d.conversation = Absent
        /\ d.group = (IF f.kind = "group" THEN f.chat ELSE Absent) /\ d.user = f.sender
    BY <1>2, <1>4, <2>1, OneBotEntry
  <2>3. DefaultConversation(p, d) = f.chat
    BY <1>1, <1>4, <2>2 DEF DefaultConversation, Absent
  <2> QED
    BY <1>1, <1>3, <1>4, <2>2, <2>3 DEF Key, Chat, Absent
<1>5. CASE p = "milky"
  <2>1. d \in MilkyData(f, l)
    BY <1>5 DEF Translated
  <2>2. /\ d.post = "message" /\ d.type = f.kind /\ d.conversation = Absent
        /\ d.group = (IF f.kind = "group" THEN f.chat ELSE 0) /\ d.user = f.sender
        /\ d.id = Encode(Scene(f), f.seq, f.chat) /\ d.quote = MilkyQuote(f, f.chat)
    BY <1>5, <2>1, MilkyEntry
  <2>3. DefaultConversation(p, d) = f.chat
    BY <1>1, <1>5, <2>2 DEF DefaultConversation, Absent
  <2>4. Key(Made(p, d)) = [kind |-> f.kind, peer |-> Chat(p, f.kind, f.chat)]
    BY <1>1, <1>3, <1>5, <2>2, <2>3 DEF Key, Chat, Absent
  <2>5. Made(p, d).quote # Absent =>
          f.quote \in Numbers \ {0} /\ Made(p, d).quote = Encode(Scene(f), f.quote, f.chat)
    BY <1>1, <1>3, <2>2 DEF MilkyQuote
  <2> QED
    BY <1>3, <2>2, <2>4, <2>5
<1>6. CASE p = "feishu"
  <2>1. d \in FeishuData(f, l)
    BY <1>6 DEF Translated
  <2>2. /\ d.post = "message" /\ d.type = f.kind
        /\ d.conversation = Chat("feishu", f.kind, f.chat)
        /\ f.kind = "group" => d.group = Chat("feishu", "group", f.chat)
    BY <1>6, <2>1, FeishuEntry
  <2>3. Chat("feishu", f.kind, f.chat) # Absent
    BY <1>1 DEF Chat, Absent
  <2>4. DefaultConversation(p, d) = Chat("feishu", f.kind, f.chat)
    BY <2>2, <2>3 DEF DefaultConversation
  <2> QED
    BY <1>1, <1>3, <1>6, <2>2, <2>3, <2>4 DEF Key
<1> QED
  BY <1>4, <1>5, <1>6 DEF Adapters

\* A message resolved in the conversation of its event is found, except number
\* 0 of a direct chat of Milky.
LEMMA ResolvesToIt ==
  ASSUME NEW p \in Adapters, NEW f \in Facts(p), NEW e, NEW id, NEW seq \in Numbers,
         Key(e) = [kind |-> f.kind, peer |-> Chat(p, f.kind, f.chat)],
         p = "milky" => id = Encode(Scene(f), seq, f.chat)
  PROVE  \/ Resolution(p, f, e, id, seq).message
              = {ReadAs(p, [kind |-> f.kind, seq |-> seq, peer |-> f.chat])}
         \/ p = "milky" /\ f.kind = "private" /\ seq = 0
<1>1. /\ f.kind \in {"private", "group"} /\ f.chat \in 0..PeerSlot - 1 /\ seq \in 0..SeqSlot - 1
  <2>1. f.kind \in {"private", "group"} /\ f.chat \in Peers
    BY FactTypes
  <2>2. f.chat \in 1..PeerSlot - 1 /\ seq \in 0..SeqSlot - 1
    BY <2>1, FramesAssumption
  <2> QED
    BY <2>1, <2>2, IdsAssumption
<1> DEFINE it == ReadAs(p, [kind |-> f.kind, seq |-> seq, peer |-> f.chat])
<1>2. CASE p # "milky"
  BY <1>2 DEF Resolution, ReadAs
<1>3. CASE p = "milky"
  <2>1. Scene(f) \in {0, 1} /\ Kinds[Scene(f) + 1] = f.kind
    BY <1>1 DEF Scene, Kinds
  <2>2. /\ Unpacked(id) = [kind |-> f.kind, seq |-> seq % SeqMask, peer |-> f.chat]
        /\ SceneOf(id) = Scene(f)
    BY <1>1, <1>3, <2>1, UnpackedParts
  <2>5. it = [kind |-> f.kind, seq |-> seq % SeqMask, peer |-> f.chat]
    BY <1>3 DEF ReadAs
  <2>3. CASE NotPacked(id)
    <3>1. id < PeerSlot
      BY <2>1, <2>2, <2>3 DEF NotPacked
    <3> DEFINE upper == Scene(f) * SeqSlot + seq
    <3>2. upper \in Nat /\ id = upper * PeerSlot + f.chat
      BY <1>1, <1>3, <2>1, IdsAssumption DEF Encode
    <3>3. ~(0 < upper)
      <4>1. ASSUME 0 < upper PROVE FALSE
        <5>1. 0 * PeerSlot + PeerSlot <= upper * PeerSlot
          BY <3>2, <4>1, IdsAssumption, ProductsGrow
        <5> QED
          BY <3>1, <3>2, <5>1, <1>1, IdsAssumption
      <4> QED
        BY <4>1
    <3>4. Scene(f) = 0 /\ seq = 0
      BY <1>1, <2>1, <3>2, <3>3, IdsAssumption
    <3> QED
      BY <1>1, <1>3, <3>4 DEF Scene
  <2>4. CASE ~NotPacked(id)
    BY <1>3, <2>2, <2>4, <2>5 DEF Resolution
  <2> QED
    BY <2>3, <2>4
<1> QED
  BY <1>2, <1>3

----------------------------------------------------------------------------
(* The invariant.                                                           *)

\* An event was made from an entry of the fact at hand.
EventInv ==
  /\ protocol \in Adapters /\ fact \in Facts(protocol) /\ lacks \in SUBSET Omissible(protocol, fact)
  /\ data \subseteq Translated(protocol, fact, lacks)
  /\ \A e \in event : \E d \in Translated(protocol, fact, lacks) :
       Constructible(protocol, d) /\ e = Made(protocol, d)
  /\ AnswerGoesBack /\ QuoteResolves

\* Nothing has come yet.
LEMMA EventInitInv == EventInit => EventInv
  BY DEF EventInit, EventInv, AnswerGoesBack, QuoteResolves

\* One step per step of an event.
LEMMA EventNextInv == EventInv /\ [EventNext]_eventVars => EventInv'
<1> SUFFICES ASSUME EventInv, [EventNext]_eventVars PROVE EventInv'
  OBVIOUS
<1> USE DEF EventInv, Fixed
<1>1. CASE Receive
  BY <1>1 DEF Receive, AnswerGoesBack, QuoteResolves
<1>2. CASE Construct
  BY <1>2 DEF Construct, AnswerGoesBack, QuoteResolves
<1>3. CASE ReplyTo
  <2>1. PICK e \in event :
          /\ Target(e).peer # Absent
          /\ replies' = IF protocol = "feishu" /\ Target(e).kind = "group"
                        THEN {c \in [kind : {"private", "group"}, peer : Peers] :
                                Chat("feishu", c.kind, c.peer) = Target(e).peer}
                        ELSE {Target(e)}
    BY <1>3 DEF ReplyTo
  <2>2. fact.sender # Self => Target(e) = Origin(protocol, fact)
    BY <2>1, TargetIsOrigin
  <2>3. fact.kind \in {"private", "group"} /\ fact.chat \in Peers /\ Peers \subseteq Nat
    BY FactTypes, FramesAssumption, IdsAssumption
  <2>4. ASSUME fact.sender # Self
        PROVE  replies' \subseteq {[kind |-> fact.kind, peer |-> fact.chat]}
    <3>1. CASE protocol = "feishu" /\ Target(e).kind = "group"
      <4>1. fact.kind = "group" /\ Target(e).peer = Chat("feishu", "group", fact.chat)
        BY <2>2, <2>4, <3>1 DEF Origin
      <4>2. ASSUME NEW c \in [kind : {"private", "group"}, peer : Peers],
                   Chat("feishu", c.kind, c.peer) = Target(e).peer
            PROVE  c = [kind |-> "group", peer |-> fact.chat]
        <5>1. c.kind \in {"private", "group"} /\ c.peer \in Nat
              /\ c = [kind |-> c.kind, peer |-> c.peer]
          BY <2>3
        <5>2. 2 * c.peer + (IF c.kind = "group" THEN 1 ELSE 0) = 2 * fact.chat + 1
          BY <4>1, <4>2 DEF Chat
        <5>3. c.kind = "group" /\ c.peer = fact.chat
          <6>1. c.peer \in Int /\ fact.chat \in Int
            BY <2>3, PeersArePositive, Zenon
          <6>2. c.kind = "group"
            BY <5>2, <6>1
          <6> QED
            BY <5>2, <6>1, <6>2
        <5> QED
          BY <5>1, <5>3
      <4> QED
        BY <2>1, <3>1, <4>1, <4>2
    <3>2. CASE ~(protocol = "feishu" /\ Target(e).kind = "group")
      <4>1. Target(e) = [kind |-> fact.kind, peer |-> fact.chat]
        BY <2>2, <2>4, <3>2 DEF Origin, Chat
      <4> QED
        BY <2>1, <3>2, <4>1
    <3> QED
      BY <3>1, <3>2
  <2> QED
    BY <1>3, <2>4 DEF ReplyTo, AnswerGoesBack, QuoteResolves
<1>4. CASE Decide
  <2>1. PICK e \in event : accepted' = e.flag
    BY <1>4 DEF Decide
  <2>2. accepted' \subseteq {Announced(fact)}
    BY <2>1, FlagAnnounces
  <2> QED
    BY <1>4, <2>2 DEF Decide, AnswerGoesBack, QuoteResolves
<1>5. ASSUME NEW which \in {"own", "quoted"}, Resolve(which) PROVE EventInv'
  <2> DEFINE id(e) == IF which = "own" THEN e.id ELSE e.quote
             seq == IF which = "own" THEN fact.seq ELSE fact.quote
  <2>1. PICK e \in event :
          LET r == Resolution(protocol, fact, e, id(e), seq)
          IN  /\ e.post = "message" /\ id(e) # Absent
              /\ sought' = sought \cup
                             {[which |-> which, status |-> r.status, message |-> r.message]}
    BY <1>5 DEF Resolve
  <2>2. UNCHANGED <<protocol, fact, lacks, epc, data, event, replies, accepted>>
    BY <1>5 DEF Resolve
  <2> DEFINE r == Resolution(protocol, fact, e, id(e), seq)
  <2>3. ASSUME fact.what = "message", fact.sender # Self, fact.via = Absent
        PROVE  \/ r.message = {ReadAs(protocol, [kind |-> fact.kind, seq |-> seq, peer |-> fact.chat])}
               \/ protocol = "milky" /\ fact.kind = "private" /\ seq = 0
    <3>1. PICK d \in Translated(protocol, fact, lacks) :
            Constructible(protocol, d) /\ e = Made(protocol, d)
      OBVIOUS
    <3>2. /\ Key(e) = [kind |-> fact.kind, peer |-> Chat(protocol, fact.kind, fact.chat)]
          /\ protocol = "milky" =>
               /\ e.id # Absent => e.id = Encode(Scene(fact), fact.seq, fact.chat)
               /\ e.quote # Absent =>
                    /\ fact.quote \in Numbers \ {0}
                    /\ e.quote = Encode(Scene(fact), fact.quote, fact.chat)
      BY <2>3, <3>1, KeyIsOrigin
    <3>3. CASE protocol = "milky"
      <4>1. seq \in Numbers /\ id(e) = Encode(Scene(fact), seq, fact.chat)
        BY <2>1, <3>2, <3>3, FactTypes
      <4> HIDE DEF seq, id
      <4> QED
        BY <3>2, <4>1, ResolvesToIt
    <3>4. CASE protocol # "milky"
      BY <3>2, <3>4, <2>1 DEF Resolution, ReadAs
    <3> QED
      BY <3>3, <3>4
  <2>4. QuoteResolves'
    <3> SUFFICES ASSUME fact.what = "message", fact.sender # Self, fact.via = Absent,
                        NEW s \in sought'
                 PROVE  LET n == IF s.which = "own" THEN fact.seq ELSE fact.quote
                        IN  \/ s.message = {ReadAs(protocol, [kind |-> fact.kind, seq |-> n, peer |-> fact.chat])}
                            \/ protocol = "milky" /\ fact.kind = "private" /\ n = 0
      BY <2>2 DEF QuoteResolves
    <3>1. CASE s \in sought
      BY <3>1 DEF QuoteResolves
    <3>2. CASE s = [which |-> which, status |-> r.status, message |-> r.message]
      <4>1. s.which = which /\ s.message = r.message
        BY <3>2
      <4> HIDE DEF r
      <4> QED
        BY <2>3, <4>1
    <3> QED
      BY <2>1, <3>1, <3>2
  <2>5. AnswerGoesBack'
    BY <2>2 DEF AnswerGoesBack
  <2> QED
    BY <2>2, <2>4, <2>5
<1>6. CASE UNCHANGED eventVars
  BY <1>6 DEF eventVars, AnswerGoesBack, QuoteResolves
<1> QED
  BY <1>1, <1>2, <1>3, <1>4, <1>5, <1>6 DEF EventNext

\* The invariant holds throughout.
LEMMA EventInvariant == EventSpec => []EventInv
  BY EventInitInv, EventNextInv, PTL DEF EventSpec

\* On each platform an answer goes back to the conversation of its event, and a
\* decision is about the request that was announced.
THEOREM AnswersGoBack == EventSpec => []AnswerGoesBack
<1>1. EventInv => AnswerGoesBack
  BY DEF EventInv
<1> QED
  BY EventInvariant, <1>1, PTL

\* The id of an event, and that of the message it quotes, resolve to the message
\* of that number in the conversation the event came from.
THEOREM QuotesResolve == EventSpec => []QuoteResolves
<1>1. EventInv => QuoteResolves
  BY DEF EventInv
<1> QED
  BY EventInvariant, <1>1, PTL

----------------------------------------------------------------------------
(* The types of the components, and of all of them together.                *)

\* Every end of a resolution tells that it is one.
LEMMA EndsAreTold ==
  ASSUME NEW q, NEW m, adapter \in Adapters, NEW r \in Results(adapter, q, m)
  PROVE  r.status # "pending"
<1>1. \A kind, chat, sender : Conclude(q, kind, chat, sender, m).status # "pending"
  BY DEF Conclude, Wrong, Rejected
<1>2. Wrong("error", "malformed_response").status # "pending"
  BY DEF Wrong
<1>3. CASE adapter = "onebot"
  <2>1. r \in OneBotResults(q, m)
    BY <1>3 DEF Results
  <2> QED
    BY <1>1, <1>2, <2>1 DEF OneBotResults
<1>4. CASE adapter = "feishu"
  <2>1. r \in FeishuResults(q, m)
    BY <1>4 DEF Results
  <2> QED
    BY <1>1, <1>2, <2>1 DEF FeishuResults
<1>5. CASE adapter = "milky"
  <2>1. r \in MilkyResults(q, m)
    BY <1>5 DEF Results
  <2> QED
    BY <1>1, <2>1 DEF MilkyResults
<1> QED
  BY <1>3, <1>4, <1>5 DEF Adapters

RefTyped ==
  /\ AskedInv
  /\ meant \subseteq Messages /\ hit \subseteq Messages
  /\ result # Pending <=> rpc = "done"

LEMMA RefTypedInit == RefInit => RefTyped
BY AskedInit DEF RefInit, RefTyped

LEMMA RefTypedStep == RefTyped /\ [RefNext]_refVars => RefTyped'
<1> SUFFICES ASSUME RefTyped, [RefNext]_refVars PROVE RefTyped'
  OBVIOUS
<1>a. AskedInv' /\ AskedInv
  BY AskedStep DEF RefTyped
<1>p. Pending.status = "pending"
  BY DEF Pending, Wrong
<1> USE DEF RefTyped
<1>1. CASE Refuse
  <2>1. result'.status = "rejected"
    BY <1>a, <1>1, RefusalsReject DEF Refuse, AskedInv
  <2> QED
    BY <1>a, <1>p, <1>1, <2>1 DEF Refuse
<1>2. CASE Ask
  BY <1>a, <1>2 DEF Ask
<1>3. CASE Answered
  <2>1. result'.status # "pending"
    BY <1>a, <1>3, EndsAreTold DEF Answered, AskedInv
  <2> QED
    BY <1>a, <1>p, <1>3, <2>1 DEF Answered
<1>4. CASE Failed
  <2>1. result'.status \in {"error", "not_found"}
    BY <1>4 DEF Failed, Failures, Wrong
  <2> QED
    BY <1>a, <1>p, <1>4, <2>1 DEF Failed
<1>5. ASSUME NEW m \in Messages, Recall(m) PROVE RefTyped'
  <2>1. store \subseteq Messages
    BY <1>a DEF AskedInv
  <2> QED
    BY <1>a, <1>5, <2>1 DEF Recall
<1>6. ASSUME NEW m \in Messages, Vanish(m) PROVE RefTyped'
  BY <1>a, <1>6 DEF Vanish
<1>7. CASE UNCHANGED refVars
  BY <1>a, <1>7 DEF refVars
<1> QED
  BY <1>1, <1>2, <1>3, <1>4, <1>5, <1>6, <1>7 DEF RefNext

LEMMA RefTypes == RefTyped => RefTypeOK
BY DEF RefTyped, RefTypeOK, AskedInv

\* What the bot itself has done is answered by itself or in the group.
LEMMA OwnIsAnswered ==
  ASSUME NEW p \in Adapters, NEW f \in Facts(p), NEW l \in SUBSET Omissible(p, f),
         NEW d \in Translated(p, f, l), Constructible(p, d), f.sender = Self,
         Target(Made(p, d)).peer # Absent, ~(p = "feishu" /\ Target(Made(p, d)).kind = "group")
  PROVE  /\ Target(Made(p, d)).kind \in {"private", "group"}
         /\ Target(Made(p, d)).peer \in Peers \cup {Self}
<1> DEFINE e == Made(p, d)
<1>1. /\ Target(e).kind \in {"private", "group"}
      /\ Target(e).kind = "group" => Target(e).peer = e.group /\ e.group # Absent
      /\ Target(e).kind = "private" => Target(e).peer = e.user
  BY DEF Target
<1>2. e.user = d.user /\ (e.group # Absent => e.group = d.group /\ ~(d.post = "message" /\ d.type = "private"))
  BY DEF Made, EventGroup
<1>3. f.chat \in Peers /\ f.kind \in {"private", "group"}
  BY FactTypes
<1> HIDE DEF e
<1>4. CASE p = "onebot"
  BY <1>4 DEF Translated, OneBotData
<1>5. ASSUME p = "milky" PROVE Target(e).peer \in Peers \cup {Self}
  <2>1. d \in MilkyData(f, l)
    BY <1>5 DEF Translated
  <2>2. f.what \in {"message", "meta"} \cup Notices \cup JoinRequests
    BY <1>5, FactTypes, CarriedBy DEF Notices
  <2>3. CASE f.what = "message"
    <3>1. d = MilkyMessage(f, l)
      BY <2>1, <2>3 DEF MilkyData, Notices, JoinRequests
    <3>2. "peer_id" \in l => f.kind = "private"
      BY <1>5, <2>3 DEF Omissible
    <3>3. d.user = f.sender /\ d.post = "message" /\ d.type = f.kind
          /\ (f.kind = "group" => d.group = f.chat)
      BY <3>1, <3>2 DEF MilkyMessage, Entry
    <3> QED
      BY <1>1, <1>2, <1>3, <3>3
  <2>4. CASE f.what \in Notices
    <3>1. d = Entry("notice", f.what, f.chat, f.sender)
      BY <2>1, <2>4 DEF MilkyData, Notices, JoinRequests
    <3>2. d.user = f.sender /\ d.group = f.chat
      BY <3>1 DEF Entry
    <3> QED
      BY <1>1, <1>2, <1>3, <3>2
  <2>5. CASE f.what \in JoinRequests
    <3>1. d = [Entry("request", "group", f.chat, f.sender) EXCEPT !.flag = {Announced(f)}]
      BY <2>1, <2>5 DEF MilkyData, Notices, JoinRequests
    <3>2. d.user = f.sender /\ d.group = f.chat
      BY <3>1 DEF Entry
    <3> QED
      BY <1>1, <1>2, <1>3, <3>2
  <2>6. CASE f.what = "meta"
    BY <2>1, <2>6 DEF MilkyData, Notices, JoinRequests
  <2> QED
    BY <2>2, <2>3, <2>4, <2>5, <2>6
<1>6. CASE p = "feishu"
  <2>1. d \in FeishuData(f, l)
    BY <1>6 DEF Translated
  <2>2. d.user \in {Absent, f.sender}
    BY <1>6, <2>1, FeishuEntry
  <2>3. Target(e).kind = "private" /\ Target(e).peer = d.user
    BY <1>1, <1>2, <1>6 DEF e
  <2>4. Target(e).peer # Absent
    BY DEF e
  <2> QED
    BY <1>1, <2>2, <2>3, <2>4 DEF e
<1> QED
  BY <1>1, <1>4, <1>5, <1>6 DEF Adapters, e

EventTyped ==
  /\ EventInv
  /\ epc \in {"framed", "translated", "handled", "dropped", "failed"}
  /\ \A r \in replies : r.kind \in {"private", "group"} /\ r.peer \in Peers \cup {Self}

LEMMA EventTypedInit == EventInit => EventTyped
BY EventInitInv DEF EventInit, EventTyped

LEMMA EventTypedStep == EventTyped /\ [EventNext]_eventVars => EventTyped'
<1> SUFFICES ASSUME EventTyped, [EventNext]_eventVars PROVE EventTyped'
  OBVIOUS
<1>a. EventInv' /\ EventInv
  BY EventNextInv DEF EventTyped
<1> USE DEF EventTyped
<1>1. CASE Receive
  <2>1. epc' \in {"dropped", "translated"} /\ UNCHANGED replies
    BY <1>1 DEF Receive
  <2> QED
    BY <1>a, <2>1
<1>2. CASE Construct
  <2>1. epc' \in {"handled", "failed"} /\ UNCHANGED replies
    BY <1>2 DEF Construct
  <2> QED
    BY <1>a, <2>1
<1>3. CASE ReplyTo
  <2>1. PICK e \in event :
          /\ Target(e).peer # Absent
          /\ replies' = IF protocol = "feishu" /\ Target(e).kind = "group"
                        THEN {c \in [kind : {"private", "group"}, peer : Peers] :
                                Chat("feishu", c.kind, c.peer) = Target(e).peer}
                        ELSE {Target(e)}
    BY <1>3 DEF ReplyTo
  <2>2. UNCHANGED epc /\ UNCHANGED fact
    BY <1>3 DEF ReplyTo, Fixed
  <2>3. /\ protocol \in Adapters /\ fact \in Facts(protocol) /\ lacks \in SUBSET Omissible(protocol, fact)
        /\ \E d \in Translated(protocol, fact, lacks) : Constructible(protocol, d) /\ e = Made(protocol, d)
        /\ (fact.sender # Self => replies' \subseteq {[kind |-> fact.kind, peer |-> fact.chat]})
    BY <1>a, <2>2 DEF EventInv, AnswerGoesBack
  <2>4. fact.chat \in Peers /\ fact.kind \in {"private", "group"}
    BY <2>3, FactTypes
  <2>5. ASSUME NEW r \in replies' PROVE r.kind \in {"private", "group"} /\ r.peer \in Peers \cup {Self}
    <3>1. CASE fact.sender # Self
      BY <2>3, <2>4, <2>5, <3>1
    <3>2. CASE protocol = "feishu" /\ Target(e).kind = "group"
      BY <2>1, <2>5, <3>2
    <3>3. CASE fact.sender = Self /\ ~(protocol = "feishu" /\ Target(e).kind = "group")
      <4>1. r = Target(e)
        BY <2>1, <2>5, <3>3
      <4> QED
        BY <2>1, <2>3, <3>3, <4>1, OwnIsAnswered
    <3> QED
      BY <3>1, <3>2, <3>3
  <2> QED
    BY <1>a, <2>2, <2>5
<1>4. CASE Decide
  BY <1>a, <1>4 DEF Decide
<1>5. CASE Resolve("own") \/ Resolve("quoted")
  BY <1>a, <1>5 DEF Resolve
<1>6. CASE UNCHANGED eventVars
  BY <1>a, <1>6 DEF eventVars
<1> QED
  BY <1>1, <1>2, <1>3, <1>4, <1>5, <1>6 DEF EventNext

LEMMA EventTypes == EventTyped => EventTypeOK
BY DEF EventTyped, EventTypeOK, EventInv, AnswerGoesBack

\* Types of the component that runs, for every value of the constants.
TogetherInv ==
  /\ moving \in Components
  /\ moving = "keyQueue" => QTypeOK
  /\ moving = "references" => RefTyped
  /\ moving = "media" => MediaInv
  /\ moving = "events" => EventTyped

\* Types: of the queue's futures, of what a resolution of a message or a medium
\* has come to, and of where answers went.
THEOREM MessagesTyped == HSpec => []MessageTypesOK
<1>1. HInit => TogetherInv
  BY InitTyped, RefTypedInit, MediaInitInv, EventTypedInit DEF HInit, TogetherInv
<1>2. TogetherInv /\ [HNext]_allVars => TogetherInv'
  <2> SUFFICES ASSUME TogetherInv, [HNext]_allVars PROVE TogetherInv'
    OBVIOUS
  <2>1. UNCHANGED moving
    BY DEF HNext, allVars
  <2>2. /\ moving = "keyQueue" => [QNext]_qvars
        /\ moving = "references" => [RefNext]_refVars
        /\ moving = "media" => [MediaNext]_mediaVars
        /\ moving = "events" => [EventNext]_eventVars
    BY DEF HNext, allVars
  <2> QED
    BY <2>1, <2>2, StepTyped, RefTypedStep, MediaNextInv, EventTypedStep DEF TogetherInv
<1>3. TogetherInv => MessageTypesOK
  <2>1. MediaInv => MediaTypeOK
    BY DEF MediaInv, Pinned, Reading, MediaTypeOK
  <2> QED
    BY <2>1, RefTypes, EventTypes DEF TogetherInv, MessageTypesOK, Components
<1> QED
  BY <1>1, <1>2, <1>3, PTL DEF HSpec
=============================================================================

--------------------------- MODULE Plugins_proofs ---------------------------
(***************************************************************************)
(* Proofs about the modules of the plugins: PluginLoading, where plugins   *)
(* load once and after what they require, and each that can be loaded;     *)
(* LegacyLoader, where a pass tells of each entry once; MatcherRegistry,   *)
(* where handlers run in the context of their own event, while registered. *)
(***************************************************************************)
EXTENDS MCPlugins, LeastNumbers, SequenceTheorems

----------------------------------------------------------------------------
(* PluginLoading: for any number of plugins, whatever they require.         *)

\* The invariant says of each active call that what its plugin requires and it
\* does not ask for any more is loaded.

FramesServed ==
  \A i \in 1 .. Len(stack) : \A d \in requires[stack[i]] \ left[stack[i]] : d \in plugins

LoadInv == PTypeOK /\ FramesServed /\ DependenciesFirst

----------------------------------------------------------------------------
(* The operations on the stack.                                             *)

LEMMA FrontOf ==
  ASSUME NEW s \in Seq(Plugins), s # <<>>
  PROVE  /\ Front(s) \in Seq(Plugins) /\ Len(Front(s)) = Len(s) - 1
         /\ \A i \in 1 .. Len(s) - 1 : Front(s)[i] = s[i]
         /\ Len(s) \in Nat \ {0} /\ s[Len(s)] \in Plugins
<1>1. Len(s) \in Nat \ {0} /\ \A i \in 1 .. Len(s) : s[i] \in Plugins
  OBVIOUS
<1>2. /\ Front(s) = SubSeq(s, 1, Len(s) - 1) /\ Len(s) - 1 \in Nat
      /\ \A i \in 1 .. Len(s) - 1 : i \in 1 .. Len(s)
  BY <1>1 DEF Front
<1>3. /\ SubSeq(s, 1, Len(s) - 1) \in Seq(Plugins) /\ Len(SubSeq(s, 1, Len(s) - 1)) = Len(s) - 1
      /\ \A i \in 1 .. Len(s) - 1 : SubSeq(s, 1, Len(s) - 1)[i] = s[i]
  <2>1. \A i \in 1 .. Len(s) - 1 : s[i] \in Plugins
    BY <1>1, <1>2
  <2> DEFINE m == Len(s) - 1
  <2>2. m \in Int /\ 1 \in Int /\ \A i \in 1 .. m : s[i] \in Plugins
    BY <1>1, <2>1
  <2> HIDE DEF m
  <2>3. /\ SubSeq(s, 1, m) \in Seq(Plugins)
        /\ Len(SubSeq(s, 1, m)) = IF 1 <= m THEN m - 1 + 1 ELSE 0
        /\ \A i \in 1 .. m - 1 + 1 : SubSeq(s, 1, m)[i] = s[1 + i - 1]
    BY <2>2, SubSeqProperties
  <2>4. m \in Nat
    BY <1>1 DEF m
  <2>5. Len(SubSeq(s, 1, m)) = m
    BY <2>3, <2>4
  <2>6. \A i \in 1 .. m : SubSeq(s, 1, m)[i] = s[i]
    <3> SUFFICES ASSUME NEW i \in 1 .. m PROVE SubSeq(s, 1, m)[i] = s[i]
      OBVIOUS
    <3>1. i \in 1 .. m - 1 + 1 /\ 1 + i - 1 = i
      BY <2>4
    <3> QED
      BY <2>3, <3>1
  <2> QED
    BY <2>3, <2>5, <2>6 DEF m
<1> QED
  BY <1>1, <1>2, <1>3

----------------------------------------------------------------------------
LEMMA InitLoads == PInit => LoadInv
<1> SUFFICES ASSUME PInit PROVE LoadInv
  OBVIOUS
<1>1. Len(order) = 0 /\ Len(stack) = 0 /\ order \in Seq(Plugins) /\ stack \in Seq(Plugins)
  BY DEF PInit
<1>2. Typed
  <2>1. calls \in 0 .. MaxCalls
    BY PLAssumption DEF PInit
  <2>2. failing \in BOOLEAN /\ (failing => stack # <<>>) /\ interrupted \in BOOLEAN
    BY DEF PInit
  <2>3. /\ requires \in [Plugins -> SUBSET Plugins] /\ left \in [Plugins -> SUBSET Plugins]
        /\ module \in [Plugins -> {"unread", "ok", "raises", "mismatch", "exits"}]
        /\ candidates \subseteq Plugins /\ invalid \subseteq Plugins /\ plugins \subseteq Plugins
        /\ loading \subseteq Plugins /\ todo \subseteq Plugins /\ failed \subseteq Plugins \X Reasons
        /\ tried \subseteq Plugins /\ before \subseteq plugins
    BY DEF PInit
  <2> QED
    BY <1>1, <2>1, <2>2, <2>3 DEF Typed
<1>3. LoadedOnce /\ LoadingIsStack /\ FramesServed /\ DependenciesFirst
  BY <1>1 DEF PInit, LoadedOnce, LoadingIsStack, FramesServed, DependenciesFirst
<1> QED
  BY <1>2, <1>3 DEF LoadInv, PTypeOK

\* A call is entered for a plugin that is neither loaded nor being loaded.
LEMMA CallKeeps ==
  ASSUME LoadInv, NEW p \in Plugins, Call(p), p \notin plugins, Refusals(p) = {},
         UNCHANGED <<requires, plugins, order, interrupted>>
  PROVE  /\ loading' \subseteq Plugins /\ stack' \in Seq(Plugins) /\ stack' # <<>>
         /\ left' \in [Plugins -> SUBSET Plugins]
         /\ LoadedOnce' /\ LoadingIsStack' /\ FramesServed' /\ DependenciesFirst'
<1> USE DEF LoadInv, PTypeOK, Typed
<1>1. p \notin loading
  BY DEF Refusals
<1>2. /\ stack' \in Seq(Plugins) /\ Len(stack') = Len(stack) + 1 /\ Len(stack) \in Nat
      /\ stack'[Len(stack) + 1] = p
      /\ \A i \in 1 .. Len(stack) : stack'[i] = stack[i] /\ stack[i] \in Plugins
      /\ loading' = loading \union {p}
      /\ left' = [left EXCEPT ![p] = requires[p]]
      /\ requires[p] \in SUBSET Plugins
  BY DEF Call
<1>3. LoadedOnce' /\ DependenciesFirst'
  BY DEF LoadedOnce, DependenciesFirst
<1>4. LoadingIsStack'
  <2>1. \A i \in 1 .. Len(stack') : stack'[i] \in loading' \ plugins'
    BY <1>2 DEF LoadingIsStack
  <2>2. \A i, j \in 1 .. Len(stack') : stack'[i] = stack'[j] => i = j
    BY <1>1, <1>2 DEF LoadingIsStack
  <2>3. ASSUME ~interrupted, NEW q \in loading' PROVE \E i \in 1 .. Len(stack') : stack'[i] = q
    <3>1. CASE q = p
      BY <1>2, <3>1
    <3>2. CASE q # p
      <4>1. PICK i \in 1 .. Len(stack) : stack[i] = q
        BY <1>2, <2>3, <3>2 DEF LoadingIsStack
      <4> QED
        BY <1>2, <4>1
    <3> QED
      BY <3>1, <3>2
  <2> QED
    BY <2>1, <2>2, <2>3 DEF LoadingIsStack
<1>5. FramesServed'
  BY <1>1, <1>2 DEF FramesServed, LoadingIsStack
<1> QED
  BY <1>2, <1>3, <1>4, <1>5

\* A call that returns None leaves the chain as it found it.
LEMMA AbandonKeeps ==
  ASSUME LoadInv, stack # <<>>, Abandon, UNCHANGED requires
  PROVE  /\ loading' \subseteq Plugins /\ stack' \in Seq(Plugins)
         /\ left' \in [Plugins -> SUBSET Plugins]
         /\ failing' \in BOOLEAN /\ (failing' => stack' # <<>>)
         /\ LoadedOnce' /\ LoadingIsStack' /\ FramesServed' /\ DependenciesFirst'
<1> USE DEF LoadInv, PTypeOK, Typed
<1>1. /\ stack' \in Seq(Plugins) /\ Len(stack') = Len(stack) - 1 /\ Len(stack) \in Nat \ {0}
      /\ \A i \in 1 .. Len(stack) - 1 : stack'[i] = stack[i]
      /\ \A i \in 1 .. Len(stack) : stack[i] \in Plugins
      /\ loading' = loading \ {stack[Len(stack)]}
      /\ left' = [left EXCEPT ![stack[Len(stack)]] = {}]
      /\ UNCHANGED <<plugins, order, interrupted>>
  BY FrontOf DEF Abandon, Unmark, Top, history
<1>2. LoadedOnce' /\ DependenciesFirst'
  BY <1>1 DEF LoadedOnce, DependenciesFirst
<1>3. LoadingIsStack'
  <2>1. \A i \in 1 .. Len(stack) - 1 : i \in 1 .. Len(stack) /\ i # Len(stack)
    BY <1>1
  <2>2. \A i \in 1 .. Len(stack') : stack'[i] \in loading' \ plugins'
    BY <1>1, <2>1 DEF LoadingIsStack
  <2>3. \A i, j \in 1 .. Len(stack') : stack'[i] = stack'[j] => i = j
    BY <1>1, <2>1 DEF LoadingIsStack
  <2>4. ASSUME ~interrupted, NEW q \in loading' PROVE \E i \in 1 .. Len(stack') : stack'[i] = q
    <3>1. PICK i \in 1 .. Len(stack) : stack[i] = q
      BY <1>1, <2>4 DEF LoadingIsStack
    <3>2. i \in 1 .. Len(stack) - 1
      BY <1>1, <2>4, <3>1
    <3> QED
      BY <1>1, <3>1, <3>2
  <2> QED
    BY <1>1, <2>2, <2>3, <2>4 DEF LoadingIsStack
<1>4. FramesServed'
  BY <1>1 DEF FramesServed, LoadingIsStack
<1>5. failing' = (Len(stack) > 1)
  BY DEF Abandon, ReturnNone
<1>6. failing' \in BOOLEAN
  BY <1>5
<1>7. failing' => stack' # <<>>
  <2> SUFFICES ASSUME Len(stack) > 1 PROVE stack' # <<>>
    BY <1>5
  <2>1. Len(stack') # 0
    BY <1>1
  <2> QED
    BY <1>1, <2>1
<1>8. loading' \subseteq Plugins /\ left' \in [Plugins -> SUBSET Plugins]
  BY <1>1
<1> QED
  BY <1>1, <1>2, <1>3, <1>4, <1>6, <1>7, <1>8

LEMMA BeginKeeps ==
  ASSUME LoadInv, NEW ids \in SUBSET Plugins, Begin(ids),
         candidates' \subseteq Plugins, invalid' \subseteq Plugins,
         todo' \subseteq Plugins, failed' \subseteq Plugins \X Reasons
  PROVE  LoadInv'
<1> USE PLAssumption DEF LoadInv, PTypeOK, Typed, Begin, onDisk
<1>1. Typed'
  OBVIOUS
<1>2. LoadedOnce' /\ DependenciesFirst'
  BY DEF LoadedOnce, DependenciesFirst
<1>3. LoadingIsStack' /\ FramesServed'
  BY DEF LoadingIsStack, FramesServed
<1> QED
  BY <1>1, <1>2, <1>3

\* What a look-up leaves in the tables.
LEMMA ResolvedIsTyped ==
  ASSUME LoadInv, NEW p \in Plugins, Resolved(p) \/ UNCHANGED candidates
  PROVE  candidates' \subseteq Plugins
BY DEF LoadInv, PTypeOK, Typed, Resolved

LEMMA RefusalsAreReasons == \A p : Refusals(p) \subseteq Reasons
BY DEF Refusals, Reasons

----------------------------------------------------------------------------
LEMMA TryNextKeeps == ASSUME LoadInv, NEW p \in Plugins, TryNext(p) PROVE LoadInv'
<1>1. candidates' \subseteq Plugins
  BY ResolvedIsTyped DEF TryNext
<1>2. UNCHANGED <<requires, module, invalid, plugins, order, failing, calls, tried, before, interrupted>>
      /\ todo' = todo \ {p} /\ stack = <<>>
  BY DEF TryNext, onDisk, history
<1>3. CASE Refusals(p) = {} /\ p \notin plugins
  <2>1. Call(p) /\ UNCHANGED failed
    BY <1>3 DEF TryNext
  <2> QED
    BY <1>1, <1>2, <1>3, <2>1, CallKeeps DEF LoadInv, PTypeOK, Typed
<1>4. CASE ~(Refusals(p) = {} /\ p \notin plugins)
  <2>1. failed' = failed \union {<<p, r>> : r \in Refusals(p)} /\ UNCHANGED <<stack, left, loading>>
    BY <1>4 DEF TryNext
  <2>2. Typed'
    BY <1>1, <1>2, <2>1, RefusalsAreReasons DEF LoadInv, PTypeOK, Typed
  <2>3. LoadedOnce' /\ LoadingIsStack' /\ FramesServed' /\ DependenciesFirst'
    BY <1>2, <2>1 DEF LoadInv, PTypeOK, LoadedOnce, LoadingIsStack, FramesServed, DependenciesFirst
  <2> QED
    BY <2>2, <2>3 DEF LoadInv, PTypeOK
<1> QED
  BY <1>3, <1>4

LEMMA HasDependencyKeeps == ASSUME LoadInv, NEW d \in Plugins, HasDependency(d) PROVE LoadInv'
<1>1. /\ stack \in Seq(Plugins) /\ stack # <<>> /\ d \in plugins
      /\ left' = [left EXCEPT ![Top] = @ \ {d}]
      /\ UNCHANGED <<requires, module, candidates, invalid, plugins, order, loading, stack, todo, failing,
                     failed, calls, tried, before, interrupted>>
  BY DEF HasDependency, Needs, onDisk, tables, history, LoadInv, PTypeOK, Typed
<1>2. Typed'
  BY <1>1 DEF LoadInv, PTypeOK, Typed
<1>3. LoadedOnce' /\ DependenciesFirst' /\ LoadingIsStack'
  <2>1. UNCHANGED <<requires, plugins, order, loading, stack, interrupted>>
    BY <1>1
  <2>2. LoadedOnce'
    BY <2>1 DEF LoadInv, PTypeOK, LoadedOnce
  <2>3. DependenciesFirst'
    BY <2>1 DEF LoadInv, DependenciesFirst
  <2>4. LoadingIsStack'
    BY <2>1 DEF LoadInv, PTypeOK, LoadingIsStack
  <2> QED
    BY <2>2, <2>3, <2>4
<1>4. FramesServed'
  BY <1>1 DEF LoadInv, PTypeOK, Typed, FramesServed, Top
<1> QED
  BY <1>2, <1>3, <1>4 DEF LoadInv, PTypeOK

LEMMA TopIsPlugin == LoadInv /\ stack # <<>> => Top \in Plugins
BY FrontOf DEF LoadInv, PTypeOK, Typed, Top

LEMMA LacksDependencyKeeps == ASSUME LoadInv, NEW d \in Plugins, LacksDependency(d) PROVE LoadInv'
<1>1. candidates' \subseteq Plugins
  BY ResolvedIsTyped DEF LacksDependency
<1>2. /\ stack # <<>> /\ Abandon
      /\ failed' = failed \union {<<Top, "dependency">>} \union {<<d, r>> : r \in Refusals(d) \ {"missing"}}
      /\ UNCHANGED <<requires, module>>
  BY DEF LacksDependency, Needs, onDisk
<1>3. UNCHANGED <<invalid, plugins, order, todo, calls, tried, before, interrupted>>
  BY <1>2 DEF Abandon, history
<1>4. failed' \subseteq Plugins \X Reasons
  BY <1>2, TopIsPlugin, RefusalsAreReasons DEF LoadInv, PTypeOK, Typed, Reasons
<1> QED
  BY <1>1, <1>2, <1>3, <1>4, AbandonKeeps DEF LoadInv, PTypeOK, Typed

LEMMA DescendKeeps == ASSUME LoadInv, NEW d \in Plugins, Descend(d) PROVE LoadInv'
<1>1. candidates' \subseteq Plugins
  BY ResolvedIsTyped DEF Descend
<1>2. /\ Call(d) /\ d \notin plugins /\ Refusals(d) = {}
      /\ UNCHANGED <<requires, module, invalid, plugins, order, todo, failing, failed,
                     calls, tried, before, interrupted>>
  BY DEF Descend, onDisk, history
<1> QED
  BY <1>1, <1>2, CallKeeps DEF LoadInv, PTypeOK, Typed

LEMMA FailDependentKeeps == ASSUME LoadInv, FailDependent PROVE LoadInv'
<1>1. /\ stack # <<>> /\ Abandon /\ failed' = failed \union {<<Top, "dependency">>}
      /\ UNCHANGED <<requires, module, candidates>>
  BY DEF FailDependent, ReportDependency, onDisk
<1>2. UNCHANGED <<invalid, plugins, order, todo, calls, tried, before, interrupted>>
  BY <1>1 DEF Abandon, history
<1>3. failed' \subseteq Plugins \X Reasons
  BY <1>1, TopIsPlugin DEF LoadInv, PTypeOK, Typed, Reasons
<1> QED
  BY <1>1, <1>2, <1>3, AbandonKeeps DEF LoadInv, PTypeOK, Typed

LEMMA ImportIsTyped ==
  ASSUME LoadInv, NEW how \in {"ok", "raises", "mismatch", "exits"}, Import(how)
  PROVE  /\ stack # <<>> /\ ~failing /\ left[Top] = {} /\ Top \in Plugins
         /\ module' \in [Plugins -> {"unread", "ok", "raises", "mismatch", "exits"}]
         /\ UNCHANGED <<requires, candidates, invalid>>
BY TopIsPlugin DEF Import, Ready, LoadInv, PTypeOK, Typed

LEMMA ImportSucceedsKeeps == ASSUME LoadInv, ImportSucceeds PROVE LoadInv'
<1> DEFINE t == Top
           n == Len(stack)
<1>1. /\ stack # <<>> /\ ~failing /\ left[Top] = {} /\ t \in Plugins
      /\ module' \in [Plugins -> {"unread", "ok", "raises", "mismatch", "exits"}]
      /\ UNCHANGED <<requires, candidates, invalid>>
  BY ImportIsTyped DEF ImportSucceeds
<1>2. /\ plugins' = plugins \union {t} /\ order' = Append(order, t) /\ loading' = loading \ {t}
      /\ stack' = Front(stack)
      /\ UNCHANGED <<left, todo, failing, failed, calls, tried, before, interrupted>>
  BY DEF ImportSucceeds, history
<1>3. n \in Nat \ {0} /\ stack[n] = t
  BY <1>1, FrontOf DEF LoadInv, PTypeOK, Typed, Top
<1>4. /\ stack' \in Seq(Plugins) /\ Len(stack') = n - 1
      /\ \A i \in 1 .. n - 1 : stack'[i] = stack[i]
  BY <1>1, <1>2, FrontOf DEF LoadInv, PTypeOK, Typed
<1>5. t \notin plugins /\ \A i \in 1 .. n - 1 : stack[i] # t
  BY <1>3 DEF LoadInv, PTypeOK, LoadingIsStack
<1>6. /\ order' \in Seq(Plugins) /\ Len(order') = Len(order) + 1 /\ Len(order) \in Nat
      /\ order'[Len(order) + 1] = t
      /\ \A i \in 1 .. Len(order) : order'[i] = order[i]
  BY <1>1, <1>2 DEF LoadInv, PTypeOK, Typed
<1>7. Typed'
  BY <1>1, <1>2, <1>4, <1>6 DEF LoadInv, PTypeOK, Typed
<1>8. LoadedOnce'
  <2>1. LoadedOnce
    BY DEF LoadInv, PTypeOK
  <2>2. \A i \in 1 .. Len(order') : i \in 1 .. Len(order) \/ i = Len(order) + 1
    BY <1>6
  <2>3. /\ \A i \in 1 .. Len(order) : order'[i] \in plugins /\ order'[i] # t
        /\ order'[Len(order) + 1] = t
    BY <1>5, <1>6, <2>1 DEF LoadedOnce
  <2>4. \A i \in 1 .. Len(order') : order'[i] \in plugins'
    BY <1>2, <2>2, <2>3
  <2>5. \A i, j \in 1 .. Len(order') : order'[i] = order'[j] => i = j
    BY <1>6, <2>1, <2>2, <2>3 DEF LoadedOnce
  <2>6. \A p \in plugins' : \E i \in 1 .. Len(order') : order'[i] = p
    BY <1>2, <1>6, <2>1 DEF LoadedOnce
  <2> QED
    BY <2>4, <2>5, <2>6 DEF LoadedOnce
<1>9. LoadingIsStack'
  <2>1. \A i \in 1 .. n - 1 : stack'[i] \in loading' \ plugins'
    BY <1>2, <1>3, <1>4, <1>5 DEF LoadInv, PTypeOK, LoadingIsStack
  <2>2. \A i, j \in 1 .. n - 1 : stack'[i] = stack'[j] => i = j
    BY <1>3, <1>4 DEF LoadInv, PTypeOK, LoadingIsStack
  <2>3. ~interrupted => \A p \in loading \ {t} : \E i \in 1 .. n - 1 : stack[i] = p
    BY <1>3 DEF LoadInv, PTypeOK, LoadingIsStack
  <2> QED
    BY <1>2, <1>4, <2>1, <2>2, <2>3 DEF LoadingIsStack
<1>10. FramesServed'
  BY <1>1, <1>2, <1>3, <1>4 DEF LoadInv, FramesServed
<1>11. \A d \in requires[t] : \E j \in 1 .. Len(order) : order[j] = d
  <2>1. \A d \in requires[t] : d \in plugins
    BY <1>1, <1>3 DEF LoadInv, FramesServed
  <2> QED
    BY <2>1 DEF LoadInv, PTypeOK, LoadedOnce
<1>12. DependenciesFirst'
  <2> SUFFICES ASSUME NEW i \in 1 .. Len(order'), NEW d \in requires[order'[i]]
               PROVE \E j \in 1 .. i - 1 : order'[j] = d
    BY <1>1 DEF DependenciesFirst
  <2>1. CASE i = Len(order) + 1
    BY <1>6, <1>11, <2>1
  <2>2. CASE i # Len(order) + 1
    <3>1. i \in 1 .. Len(order)
      BY <1>6, <2>2
    <3>2. PICK j \in 1 .. i - 1 : order[j] = d
      BY <1>6, <3>1 DEF LoadInv, DependenciesFirst
    <3> QED
      BY <1>6, <3>1, <3>2
  <2> QED
    BY <2>1, <2>2
<1> QED
  BY <1>7, <1>8, <1>9, <1>10, <1>12 DEF LoadInv, PTypeOK

LEMMA ImportFailsKeeps == ASSUME LoadInv, ImportFails PROVE LoadInv'
<1>1. /\ stack # <<>> /\ Top \in Plugins
      /\ module' \in [Plugins -> {"unread", "ok", "raises", "mismatch", "exits"}]
      /\ UNCHANGED <<requires, candidates, invalid>>
  BY ImportIsTyped DEF ImportFails
<1>2. Abandon /\ failed' = failed \union {<<Top, "import">>}
  BY DEF ImportFails
<1>3. UNCHANGED <<plugins, order, todo, calls, tried, before, interrupted>>
  BY <1>2 DEF Abandon, history
<1>4. failed' \subseteq Plugins \X Reasons
  BY <1>1, <1>2 DEF LoadInv, PTypeOK, Typed, Reasons
<1> QED
  BY <1>1, <1>2, <1>3, <1>4, AbandonKeeps DEF LoadInv, PTypeOK, Typed

LEMMA ImportExitsKeeps == ASSUME LoadInv, ImportExits PROVE LoadInv'
<1>1. /\ module' \in [Plugins -> {"unread", "ok", "raises", "mismatch", "exits"}]
      /\ ~failing /\ UNCHANGED <<requires, candidates, invalid>>
  BY ImportIsTyped DEF ImportExits
<1>2. /\ stack' = <<>> /\ todo' = {} /\ interrupted' = TRUE /\ left' = [p \in Plugins |-> {}]
      /\ UNCHANGED <<plugins, order, loading, failing, failed, calls, tried, before>>
  BY DEF ImportExits
<1>3. Typed'
  BY <1>1, <1>2 DEF LoadInv, PTypeOK, Typed
<1>4. LoadedOnce' /\ DependenciesFirst'
  BY <1>1, <1>2 DEF LoadInv, PTypeOK, LoadedOnce, DependenciesFirst
<1>5. LoadingIsStack' /\ FramesServed'
  BY <1>1, <1>2 DEF LoadingIsStack, FramesServed
<1> QED
  BY <1>3, <1>4, <1>5 DEF LoadInv, PTypeOK

----------------------------------------------------------------------------
LEMMA StepLoads == LoadInv /\ [PNext]_pvars => LoadInv'
<1> SUFFICES ASSUME LoadInv, [PNext]_pvars PROVE LoadInv'
  OBVIOUS
<1>1. ASSUME NEW found \in SUBSET Plugins, NEW twice \in SUBSET found, LoadPlugins(found, twice) PROVE LoadInv'
  <2>1. /\ candidates' \subseteq Plugins /\ invalid' \subseteq Plugins /\ todo' = candidates'
        /\ Begin(candidates')
    BY <1>1 DEF LoadPlugins, LoadInv, PTypeOK, Typed
  <2>2. failed' \subseteq Plugins \X Reasons
    BY <1>1 DEF LoadPlugins, LoadInv, PTypeOK, Typed, Reasons
  <2>3. PICK ids \in SUBSET Plugins : ids = candidates'
    BY <2>1
  <2>4. Begin(ids)
    BY <2>1, <2>3
  <2> QED
    BY <2>1, <2>2, <2>4, BeginKeeps
<1>2. ASSUME NEW p \in Plugins, LoadPlugin(p) PROVE LoadInv'
  BY <1>2, BeginKeeps DEF LoadPlugin, LoadInv, PTypeOK, Typed
<1>3. CASE Work
  BY <1>3, TryNextKeeps, HasDependencyKeeps, LacksDependencyKeeps, DescendKeeps, FailDependentKeeps,
     ImportSucceedsKeeps, ImportFailsKeeps, ImportExitsKeeps DEF Work
<1>4. CASE UNCHANGED pvars
  BY <1>4 DEF pvars, onDisk, tables, history, LoadInv, PTypeOK, Typed, LoadedOnce, LoadingIsStack,
     FramesServed, DependenciesFirst
<1> QED
  BY <1>1, <1>2, <1>3, <1>4 DEF PNext

\* No plugin is loaded twice, and `_loading` is the chain of active calls.
THEOREM LoadingTyped == PSpec => []PTypeOK
<1>1. LoadInv => PTypeOK
  BY DEF LoadInv
<1> QED
  BY <1>1, InitLoads, StepLoads, PTL DEF PSpec

\* Dependencies load before dependents, for every set of plugins.
THEOREM DependenciesLoadFirst == PSpec => []DependenciesFirst
<1>1. LoadInv => DependenciesFirst
  BY DEF LoadInv
<1> QED
  BY <1>1, InitLoads, StepLoads, PTL DEF PSpec

----------------------------------------------------------------------------
\* The invariant behind LoadExact and Diagnosed.  Closed(S): no plugin outside
\* S could be loaded if S were; a plugin outside such a set cannot be loaded.
Closed(S) ==
  \A q \in Plugins \ before :
    Sound(q) /\ requires[q] \subseteq S \union (before \ invalid) => q \in S

Doomed(p) == \E S \in SUBSET Plugins : Closed(S) /\ p \notin S

InFailed(p) == \E r \in Reasons : <<p, r>> \in failed

OnStack(p) == \E i \in 1 .. Len(stack) : stack[i] = p

\* What was asked for and is not loaded is still to be tried, or is being
\* loaded, or could not be loaded and is named in `failed`.
Accounted == \A p \in tried \ plugins : p \in todo \/ OnStack(p) \/ (Doomed(p) /\ InFailed(p))

\* A call returns None only when the plugin could not be loaded.
FailingIsDoomed ==
  failing => \E d \in requires[Top] : d \notin before \ invalid /\ Doomed(d)

\* The active calls follow the requirements, for plugins worth trying, and what
\* a call does not ask for any more is loaded and usable.
StackIsChain ==
  /\ \A i, j \in 1 .. Len(stack) : j = i + 1 => stack[j] \in requires[stack[i]]
  /\ \A i \in 1 .. Len(stack) :
       /\ Found(stack[i]) /\ stack[i] \notin invalid
       /\ left[stack[i]] \subseteq requires[stack[i]]
       /\ \A d \in requires[stack[i]] \ left[stack[i]] : d \notin invalid

\* What the call has loaded is importable and required nothing unusable.
LoadedIsSound ==
  \A p \in plugins \ before :
    /\ p \notin invalid /\ module[p] = "ok"
    /\ \A d \in requires[p] : d \in plugins \ invalid

CallInv == ~interrupted => Accounted /\ FailingIsDoomed /\ StackIsChain /\ LoadedIsSound

ExactInv == LoadInv /\ CallInv

----------------------------------------------------------------------------
(* What cannot be loaded.                                                   *)

LEMMA UnsoundDoomed ==
  ASSUME NEW p \in Plugins, ~Sound(p) \/ p \in before
  PROVE  Doomed(p)
<1> DEFINE S == Plugins \ {p}
<1>1. Closed(S)
  BY DEF Closed
<1>2. S \in SUBSET Plugins /\ p \notin S
  OBVIOUS
<1> QED
  BY <1>1, <1>2 DEF Doomed

LEMMA NeedsDoomed ==
  ASSUME NEW p \in Plugins, NEW d \in requires[p], Doomed(d), d \notin before \ invalid
  PROVE  Doomed(p)
<1>1. PICK S \in SUBSET Plugins : Closed(S) /\ d \notin S
  BY DEF Doomed
<1> DEFINE T == S \ {p}
<1>2. ASSUME NEW q \in Plugins \ before, Sound(q), requires[q] \subseteq T \union (before \ invalid)
      PROVE  q \in T
  <2>1. requires[q] \subseteq S \union (before \ invalid)
    BY <1>2
  <2>2. q \in S
    BY <1>1, <1>2, <2>1 DEF Closed
  <2>3. q # p
    BY <1>1, <1>2
  <2> QED
    BY <2>2, <2>3
<1>3. Closed(T)
  BY <1>2 DEF Closed
<1>4. T \in SUBSET Plugins /\ p \notin T
  OBVIOUS
<1> QED
  BY <1>3, <1>4 DEF Doomed

\* The topmost call asks for a plugin that is being loaded.
LEMMA CycleDoomed ==
  ASSUME LoadInv, StackIsChain, NEW d \in Plugins, stack # <<>>, d \in requires[Top], OnStack(d)
  PROVE  Doomed(d)
<1> DEFINE n == Len(stack)
<1>1. n \in Nat \ {0} /\ \A i \in 1 .. n : stack[i] \in Plugins
  BY DEF LoadInv, PTypeOK, Typed
<1>2. PICK k \in 1 .. n : stack[k] = d
  BY DEF OnStack
<1> DEFINE C == {stack[i] : i \in k .. n}
           S == Plugins \ C
<1>3. ASSUME NEW q \in Plugins \ before, requires[q] \subseteq S \union (before \ invalid), q \in C
      PROVE  FALSE
  <2>1. PICK i \in k .. n : q = stack[i]
    BY <1>3
  <2>2. \A j \in k .. n : stack[j] \in C /\ stack[j] \notin before /\ j \in 1 .. n
    BY <1>1, <1>2 DEF LoadInv, PTypeOK, Typed, LoadingIsStack
  <2>3. CASE i = n
    <3>1. d \in C /\ d \notin before
      BY <1>1, <1>2, <2>2
    <3>2. d \in requires[q]
      BY <2>1, <2>3 DEF Top
    <3> QED
      BY <1>3, <3>1, <3>2
  <2>4. CASE i # n
    <3>1. i + 1 \in k .. n /\ i \in 1 .. n
      BY <1>1, <1>2, <2>4
    <3>2. stack[i + 1] \in requires[stack[i]]
      BY <2>2, <3>1 DEF StackIsChain
    <3>3. stack[i + 1] \in C /\ stack[i + 1] \notin before
      BY <2>2, <3>1
    <3> HIDE DEF C
    <3> QED
      BY <1>3, <2>1, <3>2, <3>3
  <2> QED
    BY <2>3, <2>4
<1>4. d \in C
  BY <1>1, <1>2
<1> HIDE DEF C
<1>5. Closed(S)
  BY <1>3 DEF Closed
<1> QED
  BY <1>4, <1>5 DEF Doomed

\* A call changes nothing that would let such a plugin load.
LEMMA DoomedStays ==
  ASSUME UNCHANGED <<requires, before, invalid>>, \A q \in Plugins : Sound(q)' => Sound(q),
         NEW p \in Plugins, Doomed(p)
  PROVE  Doomed(p)'
<1>1. PICK S \in SUBSET Plugins : Closed(S) /\ p \notin S
  BY DEF Doomed
<1>2. Closed(S)'
  BY <1>1 DEF Closed
<1> QED
  BY <1>1, <1>2 DEF Doomed

LEMMA DoomedIsNotLoadable == ASSUME NEW p \in Plugins, Doomed(p) PROVE ~Loadable(p)
BY DEF Doomed, Loadable, Closed

----------------------------------------------------------------------------
(* The steps of a call.                                                     *)

\* A look-up finds nothing that was not to be found.
LEMMA LookUpFindsNothingNew ==
  ASSUME NEW p \in Plugins, IF Found(p) THEN Resolved(p) ELSE UNCHANGED candidates,
         UNCHANGED <<plugins, invalid, module>>
  PROVE  \A q : (Found(q)' <=> Found(q)) /\ (Sound(q)' <=> Sound(q))
<1>1. \A q : Found(q)' <=> Found(q)
  BY DEF Found, Resolved
<1> QED
  BY <1>1 DEF Sound

LEMMA CallExact ==
  ASSUME ExactInv, ~interrupted, NEW p \in Plugins, Call(p), p \notin plugins, Refusals(p) = {},
         stack # <<>> => p \in requires[Top], ~failing,
         todo \ {p} \subseteq todo',
         \A q : (Found(q)' <=> Found(q)) /\ (Sound(q)' <=> Sound(q)),
         UNCHANGED <<requires, module, invalid, plugins, failing, failed, tried, before>>
  PROVE  CallInv'
<1> USE DEF ExactInv, LoadInv, PTypeOK, Typed
<1> DEFINE n == Len(stack)
<1>1. Accounted /\ StackIsChain /\ LoadedIsSound
  BY DEF CallInv
<1>2. p \notin loading /\ Found(p) /\ p \notin invalid
  BY DEF Refusals
<1>3. /\ Len(stack') = n + 1 /\ n \in Nat /\ stack'[n + 1] = p
      /\ \A i \in 1 .. n : stack'[i] = stack[i] /\ stack[i] \in Plugins /\ stack[i] # p
  BY <1>2 DEF Call, LoadingIsStack
<1>4. /\ left' = [left EXCEPT ![p] = requires[p]] /\ left'[p] = requires[p]
      /\ \A q \in Plugins : q # p => left'[q] = left[q]
  BY DEF Call
<1>5. \A q \in Plugins : Doomed(q) => Doomed(q)'
  BY DoomedStays
<1>6. Accounted'
  <2> SUFFICES ASSUME NEW q \in tried \ plugins
               PROVE  q \in todo' \/ OnStack(q)' \/ (Doomed(q)' /\ InFailed(q)')
    BY DEF Accounted
  <2>1. CASE q = p
    <3>1. n + 1 \in 1 .. Len(stack') /\ stack'[n + 1] = q
      BY <1>3, <2>1
    <3> QED
      BY <3>1 DEF OnStack
  <2>2. CASE q # p /\ q \in todo
    BY <2>2
  <2>3. CASE OnStack(q)
    BY <1>3, <2>3 DEF OnStack
  <2>4. CASE Doomed(q) /\ InFailed(q)
    BY <1>5, <2>4 DEF InFailed
  <2> QED
    BY <1>1, <2>1, <2>2, <2>3, <2>4 DEF Accounted
<1>7. FailingIsDoomed'
  BY DEF FailingIsDoomed
<1>8. StackIsChain'
  <2>1. ASSUME NEW i \in 1 .. Len(stack'), NEW j \in 1 .. Len(stack'), j = i + 1
        PROVE  stack'[j] \in requires[stack'[i]]
    <3>1. CASE j = n + 1
      <4>1. i = n /\ stack # <<>> /\ stack'[i] = Top /\ stack'[j] = p
        BY <1>3, <2>1, <3>1 DEF Top
      <4> QED
        BY <4>1
    <3>2. CASE j # n + 1
      <4>1. i \in 1 .. n /\ j \in 1 .. n
        BY <1>3, <2>1, <3>2
      <4> QED
        BY <1>1, <1>3, <2>1, <4>1 DEF StackIsChain
    <3> QED
      BY <3>1, <3>2
  <2>2. ASSUME NEW i \in 1 .. Len(stack')
        PROVE  /\ Found(stack[i])' /\ stack'[i] \notin invalid
               /\ left'[stack'[i]] \subseteq requires[stack'[i]]
               /\ \A d \in requires[stack'[i]] \ left'[stack'[i]] : d \notin invalid
    <3>1. CASE i = n + 1
      BY <1>2, <1>3, <1>4, <3>1
    <3>2. CASE i # n + 1
      <4>1. i \in 1 .. n
        BY <1>3, <3>2
      <4>2. stack'[i] = stack[i] /\ left'[stack[i]] = left[stack[i]]
        BY <1>3, <1>4, <4>1
      <4> QED
        BY <1>1, <4>1, <4>2 DEF StackIsChain
    <3> QED
      BY <3>1, <3>2
  <2>3. UNCHANGED <<requires, invalid>>
    OBVIOUS
  <2> QED
    BY <2>1, <2>2, <2>3 DEF StackIsChain
<1>9. LoadedIsSound'
  BY <1>1 DEF LoadedIsSound
<1> QED
  BY <1>6, <1>7, <1>8, <1>9 DEF CallInv

LEMMA AbandonExact ==
  ASSUME ExactInv, ~interrupted, stack # <<>>, Abandon, NEW t \in Plugins, t = Top,
         Doomed(t)', InFailed(t)', failed \subseteq failed', UNCHANGED requires,
         \A q : (Found(q)' <=> Found(q)) /\ (Sound(q)' => Sound(q)),
         \A q \in plugins : module'[q] = module[q]
  PROVE  CallInv'
<1> USE DEF ExactInv, LoadInv, PTypeOK, Typed
<1> DEFINE n == Len(stack)
<1>1. Accounted /\ StackIsChain /\ LoadedIsSound
  BY DEF CallInv
<1>2. /\ Len(stack') = n - 1 /\ n \in Nat \ {0} /\ stack[n] = t
      /\ \A i \in 1 .. n - 1 : stack'[i] = stack[i] /\ stack[i] \in Plugins /\ i \in 1 .. n
      /\ \A i \in 1 .. n - 1 : stack[i] # t
      /\ UNCHANGED <<invalid, plugins, todo, tried, before, interrupted>>
  <2>1. /\ Len(stack') = n - 1 /\ n \in Nat \ {0} /\ stack[n] = t
        /\ \A i \in 1 .. n - 1 : stack'[i] = stack[i]
        /\ UNCHANGED <<invalid, plugins, todo, tried, before, interrupted>>
    BY FrontOf DEF Abandon, Top, history
  <2>2. \A i \in 1 .. n - 1 : i \in 1 .. n /\ i # n
    BY <2>1
  <2>3. \A i \in 1 .. n : stack[i] \in Plugins
    OBVIOUS
  <2>4. n \in 1 .. n /\ \A i, j \in 1 .. n : stack[i] = stack[j] => i = j
    BY <2>1 DEF LoadingIsStack
  <2>5. \A i \in 1 .. n - 1 : stack[i] \in Plugins /\ i \in 1 .. n /\ stack[i] # t
    BY <2>1, <2>2, <2>3, <2>4
  <2> QED
    BY <2>1, <2>5
<1>3. \A q \in Plugins : q # t => left'[q] = left[q]
  BY DEF Abandon
<1>4. \A q \in Plugins : Doomed(q) => Doomed(q)'
  BY <1>2, DoomedStays
<1>5. Accounted'
  <2> SUFFICES ASSUME NEW q \in tried \ plugins
               PROVE  q \in todo' \/ OnStack(q)' \/ (Doomed(q)' /\ InFailed(q)')
    BY <1>2 DEF Accounted
  <2>1. CASE q = t
    BY <2>1
  <2>2. CASE q \in todo
    BY <1>2, <2>2
  <2>3. CASE OnStack(q) /\ q # t
    <3>1. PICK i \in 1 .. n : stack[i] = q
      BY <2>3 DEF OnStack
    <3>2. i \in 1 .. n - 1
      <4>1. i # n /\ n \in Nat
        BY <1>2, <2>3, <3>1
      <4> HIDE DEF n
      <4> QED
        BY <3>1, <4>1
    <3>3. i \in 1 .. Len(stack') /\ stack'[i] = q
      BY <1>2, <3>1, <3>2
    <3> QED
      BY <3>3 DEF OnStack
  <2>4. CASE Doomed(q) /\ InFailed(q)
    BY <1>4, <2>4 DEF InFailed
  <2> QED
    BY <1>1, <2>1, <2>2, <2>3, <2>4 DEF Accounted
<1>6. FailingIsDoomed'
  <2> SUFFICES ASSUME failing' PROVE \E d \in requires[Top'] : d \notin before \ invalid /\ Doomed(d)'
    BY <1>2 DEF FailingIsDoomed
  <2>1. n > 1
    BY DEF Abandon, ReturnNone
  <2>2. n - 1 \in 1 .. n /\ n \in 1 .. n /\ n = (n - 1) + 1 /\ n - 1 \in 1 .. n - 1
    BY <1>2, <2>1
  <2>3. t \in requires[stack[n - 1]]
    BY <1>1, <1>2, <2>2 DEF StackIsChain
  <2>4. Top' = stack[n - 1]
    BY <1>2, <2>2 DEF Top
  <2>5. t \notin before
    BY <1>2, <2>2 DEF LoadingIsStack
  <2> QED
    BY <2>3, <2>4, <2>5
<1>7. StackIsChain'
  <2>1. ASSUME NEW i \in 1 .. Len(stack'), NEW j \in 1 .. Len(stack'), j = i + 1
        PROVE  stack'[j] \in requires[stack'[i]]
    BY <1>1, <1>2, <2>1 DEF StackIsChain
  <2>2. ASSUME NEW i \in 1 .. Len(stack')
        PROVE  /\ Found(stack[i])' /\ stack'[i] \notin invalid
               /\ left'[stack'[i]] \subseteq requires[stack'[i]]
               /\ \A d \in requires[stack'[i]] \ left'[stack'[i]] : d \notin invalid
    <3>1. i \in 1 .. n - 1
      BY <1>2
    <3>2. stack'[i] = stack[i] /\ left'[stack[i]] = left[stack[i]] /\ i \in 1 .. n
      BY <1>2, <1>3, <3>1
    <3> QED
      BY <1>1, <3>2 DEF StackIsChain
  <2> QED
    BY <1>2, <2>1, <2>2 DEF StackIsChain
<1>8. LoadedIsSound'
  BY <1>1, <1>2 DEF LoadedIsSound
<1> QED
  BY <1>5, <1>6, <1>7, <1>8 DEF CallInv

LEMMA RefusedIsUnsound ==
  ASSUME NEW p \in Plugins, Refusals(p) # {}, p \notin loading \ plugins
  PROVE  ~Sound(p)
BY DEF Refusals, Sound

LEMMA TryNextExact == ASSUME ExactInv, ~interrupted, NEW p \in Plugins, TryNext(p) PROVE CallInv'
<1> USE DEF ExactInv, LoadInv, PTypeOK, Typed
<1>1. /\ UNCHANGED <<requires, module, invalid, plugins, order, failing, calls, tried, before, interrupted>>
      /\ todo' = todo \ {p} /\ stack = <<>> /\ ~failing
      /\ IF Found(p) THEN Resolved(p) ELSE UNCHANGED candidates
  BY DEF TryNext, onDisk, history
<1>2. \A q : (Found(q)' <=> Found(q)) /\ (Sound(q)' <=> Sound(q))
  BY <1>1, LookUpFindsNothingNew
<1>3. CASE Refusals(p) = {} /\ p \notin plugins
  <2>1. Call(p) /\ UNCHANGED failed
    BY <1>3 DEF TryNext
  <2>2. todo \ {p} \subseteq todo'
    BY <1>1
  <2> QED
    BY <1>1, <1>2, <1>3, <2>1, <2>2, CallExact
<1>4. CASE ~(Refusals(p) = {} /\ p \notin plugins)
  <2>1. failed' = failed \union {<<p, r>> : r \in Refusals(p)} /\ UNCHANGED <<stack, left, loading>>
    BY <1>4 DEF TryNext
  <2>2. \A q \in Plugins : Doomed(q) => Doomed(q)'
    BY <1>1, <1>2, DoomedStays
  <2>3. p \notin plugins => Doomed(p) /\ InFailed(p)'
    <3> SUFFICES ASSUME p \notin plugins PROVE Doomed(p) /\ InFailed(p)'
      OBVIOUS
    <3>1. loading = {}
      BY <1>1 DEF LoadingIsStack
    <3>2. Refusals(p) # {}
      BY <1>4
    <3>3. Doomed(p)
      BY <3>1, <3>2, RefusedIsUnsound, UnsoundDoomed
    <3>4. PICK r \in Reasons : r \in Refusals(p)
      BY <3>2, RefusalsAreReasons
    <3> QED
      BY <2>1, <3>3, <3>4 DEF InFailed
  <2>4. Accounted'
    <3> SUFFICES ASSUME NEW q \in tried \ plugins
                 PROVE  q \in todo' \/ OnStack(q)' \/ (Doomed(q)' /\ InFailed(q)')
      BY <1>1 DEF Accounted
    <3>1. CASE q = p
      BY <2>2, <2>3, <3>1
    <3>2. CASE q # p /\ q \in todo
      BY <1>1, <3>2
    <3>3. CASE OnStack(q)
      BY <2>1, <3>3 DEF OnStack
    <3>4. CASE Doomed(q) /\ InFailed(q)
      BY <2>1, <2>2, <3>4 DEF InFailed
    <3> QED
      BY <3>1, <3>2, <3>3, <3>4 DEF CallInv, Accounted
  <2>5. FailingIsDoomed' /\ StackIsChain'
    <3>1. Len(stack') = 0
      BY <1>1, <2>1
    <3> QED
      BY <1>1, <3>1 DEF FailingIsDoomed, StackIsChain
  <2>6. LoadedIsSound'
    BY <1>1 DEF CallInv, LoadedIsSound
  <2> QED
    BY <2>4, <2>5, <2>6 DEF CallInv
<1> QED
  BY <1>3, <1>4

LEMMA HasDependencyExact ==
  ASSUME ExactInv, ~interrupted, NEW d \in Plugins, HasDependency(d) PROVE CallInv'
<1> USE DEF ExactInv, LoadInv, PTypeOK, Typed
<1>1. /\ stack # <<>> /\ ~failing /\ d \in plugins /\ d \notin invalid /\ Top \in Plugins
      /\ left' = [left EXCEPT ![Top] = @ \ {d}]
      /\ UNCHANGED <<requires, module, candidates, invalid, plugins, order, loading, stack, todo, failing,
                     failed, calls, tried, before, interrupted>>
  BY TopIsPlugin DEF HasDependency, Needs, onDisk, tables, history
<1>2. Accounted'
  <2>1. \A q \in Plugins : Sound(q)' => Sound(q)
    BY <1>1 DEF Sound, Found
  <2>2. \A q \in Plugins : Doomed(q) => Doomed(q)'
    BY <1>1, <2>1, DoomedStays
  <2> QED
    BY <1>1, <2>2 DEF CallInv, Accounted, OnStack, InFailed
<1>3. FailingIsDoomed' /\ LoadedIsSound'
  BY <1>1 DEF CallInv, FailingIsDoomed, LoadedIsSound
<1>4. StackIsChain'
  <2>1. \A i \in 1 .. Len(stack) : stack[i] \in Plugins
    OBVIOUS
  <2>2. \A q \in Plugins : left'[q] \subseteq left[q] /\ left[q] \ {d} \subseteq left'[q]
    BY <1>1
  <2>3. StackIsChain
    BY DEF CallInv
  <2>4. \A i \in 1 .. Len(stack) :
          /\ left'[stack[i]] \subseteq requires[stack[i]]
          /\ \A e \in requires[stack[i]] \ left'[stack[i]] : e \notin invalid
    BY <1>1, <2>1, <2>2, <2>3 DEF StackIsChain
  <2> QED
    BY <1>1, <2>3, <2>4 DEF StackIsChain, Found
<1> QED
  BY <1>2, <1>3, <1>4 DEF CallInv

LEMMA LacksDependencyExact ==
  ASSUME ExactInv, ~interrupted, NEW d \in Plugins, LacksDependency(d) PROVE CallInv'
<1> USE DEF ExactInv, LoadInv, PTypeOK, Typed
<1>1. /\ stack # <<>> /\ Abandon /\ d \in left[Top] /\ Refusals(d) # {}
      /\ failed' = failed \union {<<Top, "dependency">>} \union {<<d, r>> : r \in Refusals(d) \ {"missing"}}
      /\ IF Found(d) THEN Resolved(d) ELSE UNCHANGED candidates
      /\ UNCHANGED <<requires, module>>
  BY DEF LacksDependency, Needs, onDisk
<1>2. UNCHANGED <<invalid, plugins, order, todo, calls, tried, before, interrupted>>
  BY <1>1 DEF Abandon, history
<1>3. \A q : (Found(q)' <=> Found(q)) /\ (Sound(q)' <=> Sound(q))
  BY <1>1, <1>2, LookUpFindsNothingNew
<1>4. PICK t \in Plugins : t = Top
  BY <1>1, TopIsPlugin
<1>5. d \in requires[t]
  <2>1. Len(stack) \in 1 .. Len(stack)
    BY <1>1
  <2> QED
    BY <1>1, <1>4, <2>1 DEF CallInv, StackIsChain, Top
<1>6. Doomed(d) /\ d \notin before \ invalid
  <2>1. CASE d \in loading \ plugins
    <3>1. OnStack(d)
      BY <2>1 DEF LoadingIsStack, OnStack
    <3> QED
      BY <1>1, <1>4, <1>5, <2>1, <3>1, CycleDoomed DEF CallInv
  <2>2. CASE d \notin loading \ plugins
    <3>1. Doomed(d)
      BY <1>1, <2>2, RefusedIsUnsound, UnsoundDoomed
    <3>2. d \notin plugins \/ d \in invalid
      BY <1>1, <2>2 DEF Refusals, Found
    <3> QED
      BY <3>1, <3>2
  <2> QED
    BY <2>1, <2>2
<1>7. Doomed(t)'
  BY <1>1, <1>2, <1>3, <1>5, <1>6, NeedsDoomed, DoomedStays
<1>8. InFailed(t)' /\ failed \subseteq failed'
  BY <1>1, <1>4 DEF InFailed, Reasons
<1> QED
  BY <1>1, <1>3, <1>4, <1>7, <1>8, AbandonExact

LEMMA DescendExact ==
  ASSUME ExactInv, ~interrupted, NEW d \in Plugins, Descend(d) PROVE CallInv'
<1> USE DEF ExactInv, LoadInv, PTypeOK, Typed
<1>1. /\ Call(d) /\ d \notin plugins /\ Refusals(d) = {} /\ stack # <<>> /\ ~failing /\ d \in left[Top]
      /\ Resolved(d)
      /\ UNCHANGED <<requires, module, invalid, plugins, order, todo, failing, failed,
                     calls, tried, before, interrupted>>
  BY DEF Descend, Needs, onDisk, history
<1>2. Found(d)
  BY <1>1 DEF Refusals
<1>3. \A q : (Found(q)' <=> Found(q)) /\ (Sound(q)' <=> Sound(q))
  BY <1>1, <1>2, LookUpFindsNothingNew
<1>4. d \in requires[Top]
  <2>1. Len(stack) \in 1 .. Len(stack)
    BY <1>1
  <2> QED
    BY <1>1, <2>1 DEF CallInv, StackIsChain, Top
<1> QED
  BY <1>1, <1>3, <1>4, CallExact

LEMMA FailDependentExact == ASSUME ExactInv, ~interrupted, FailDependent PROVE CallInv'
<1> USE DEF ExactInv, LoadInv, PTypeOK, Typed
<1>1. /\ stack # <<>> /\ failing /\ Abandon /\ failed' = failed \union {<<Top, "dependency">>}
      /\ UNCHANGED <<requires, module, candidates>>
  BY DEF FailDependent, ReportDependency, onDisk
<1>2. UNCHANGED <<invalid, plugins, order, todo, calls, tried, before, interrupted>>
  BY <1>1 DEF Abandon, history
<1>3. \A q : (Found(q)' <=> Found(q)) /\ (Sound(q)' <=> Sound(q))
  BY <1>1, <1>2 DEF Found, Sound
<1>4. PICK t \in Plugins : t = Top
  BY <1>1, TopIsPlugin
<1>5. PICK d \in requires[t] : d \notin before \ invalid /\ Doomed(d)
  BY <1>1, <1>4 DEF CallInv, FailingIsDoomed
<1>6. Doomed(t)'
  <2>1. d \in Plugins
    BY <1>4, <1>5
  <2> QED
    BY <1>1, <1>2, <1>3, <1>5, <2>1, NeedsDoomed, DoomedStays
<1>7. InFailed(t)' /\ failed \subseteq failed'
  BY <1>1, <1>4 DEF InFailed, Reasons
<1> QED
  BY <1>1, <1>3, <1>4, <1>6, <1>7, AbandonExact

LEMMA ImportFailsExact == ASSUME ExactInv, ~interrupted, ImportFails PROVE CallInv'
<1> USE DEF ExactInv, LoadInv, PTypeOK, Typed
<1>1. PICK how \in {"raises", "mismatch"} : Import(how)
  BY DEF ImportFails
<1>2. /\ Abandon /\ failed' = failed \union {<<Top, "import">>}
      /\ stack # <<>> /\ module[Top] \in {"unread", how} /\ module' = [module EXCEPT ![Top] = how]
      /\ UNCHANGED <<requires, candidates>>
  BY <1>1 DEF ImportFails, Import, Ready
<1>3. UNCHANGED <<invalid, plugins, order, todo, calls, tried, before, interrupted>>
  BY <1>2 DEF Abandon, history
<1>4. PICK t \in Plugins : t = Top
  BY <1>2, TopIsPlugin
<1>5. module' = [module EXCEPT ![t] = how] /\ how # "ok" /\ how # "unread"
  BY <1>2, <1>4
<1>6. \A q : (Found(q)' <=> Found(q)) /\ (Sound(q)' => Sound(q))
  <2>1. \A q : Found(q)' <=> Found(q)
    BY <1>2, <1>3 DEF Found
  <2>2. ASSUME NEW q, Sound(q)' PROVE Sound(q)
    <3>1. CASE q = t
      BY <1>5, <2>2, <3>1 DEF Sound
    <3>2. CASE q # t /\ q \in Plugins
      BY <1>3, <1>5, <2>1, <2>2, <3>2 DEF Sound
    <3>3. q \in Plugins
      BY <2>1, <2>2, PLAssumption DEF Sound, Found
    <3> QED
      BY <3>1, <3>2, <3>3
  <2> QED
    BY <2>1, <2>2
<1>7. Doomed(t)'
  <2>1. ~Sound(t)'
    BY <1>5 DEF Sound
  <2>2. PICK S \in SUBSET Plugins : S = Plugins \ {t}
    OBVIOUS
  <2>3. Closed(S)'
    BY <2>1, <2>2 DEF Closed
  <2> QED
    BY <2>2, <2>3 DEF Doomed
<1>8. InFailed(t)' /\ failed \subseteq failed'
  BY <1>2, <1>4 DEF InFailed, Reasons
<1>9. \A q \in plugins : module'[q] = module[q]
  <2>1. t \notin plugins
    <3>1. Len(stack) \in 1 .. Len(stack)
      BY <1>2
    <3> QED
      BY <1>4, <3>1 DEF LoadingIsStack, Top
  <2> QED
    BY <1>5, <2>1
<1> QED
  BY <1>2, <1>4, <1>6, <1>7, <1>8, <1>9, AbandonExact

LEMMA ImportSucceedsExact == ASSUME ExactInv, ~interrupted, ImportSucceeds PROVE CallInv'
<1> USE DEF ExactInv, LoadInv, PTypeOK, Typed
<1> DEFINE n == Len(stack)
<1>1. /\ stack # <<>> /\ ~failing /\ left[Top] = {}
      /\ module[Top] \in {"unread", "ok"} /\ module' = [module EXCEPT ![Top] = "ok"]
      /\ plugins' = plugins \union {Top} /\ stack' = Front(stack)
      /\ UNCHANGED <<requires, candidates, invalid, left, todo, failing, failed,
                     calls, tried, before, interrupted>>
  BY DEF ImportSucceeds, Import, Ready, history
<1>2. PICK t \in Plugins : t = Top
  BY <1>1, TopIsPlugin
<1>3. /\ Len(stack') = n - 1 /\ n \in Nat \ {0} /\ stack[n] = t
      /\ \A i \in 1 .. n - 1 : stack'[i] = stack[i] /\ stack[i] \in Plugins /\ i \in 1 .. n
  <2>1. /\ Len(stack') = n - 1 /\ n \in Nat \ {0} /\ stack[n] = t
        /\ \A i \in 1 .. n - 1 : stack'[i] = stack[i]
    BY <1>1, <1>2, FrontOf DEF Top
  <2>2. \A i \in 1 .. n - 1 : i \in 1 .. n
    BY <2>1
  <2> QED
    BY <2>1, <2>2
<1>4. n \in 1 .. n /\ t \notin plugins /\ Accounted /\ StackIsChain /\ LoadedIsSound
  BY <1>3 DEF LoadingIsStack, CallInv
<1>5. /\ Found(t) /\ t \notin invalid /\ left[t] = {}
      /\ \A d \in requires[t] : d \notin invalid /\ d \in plugins
  <2>1. /\ Found(t) /\ t \notin invalid /\ left[t] = {}
        /\ \A d \in requires[t] \ left[t] : d \notin invalid
    BY <1>1, <1>2, <1>3, <1>4 DEF StackIsChain
  <2>2. \A d \in requires[t] \ left[t] : d \in plugins
    BY <1>3, <1>4 DEF FramesServed
  <2> QED
    BY <2>1, <2>2
<1>6. \A q : Found(q)' <=> Found(q)
  BY <1>1, <1>2, <1>5 DEF Found
<1>7. /\ module' = [module EXCEPT ![t] = "ok"] /\ module'[t] = "ok" /\ plugins' = plugins \union {t}
      /\ \A q \in Plugins : q # t => module'[q] = module[q]
  BY <1>1, <1>2
<1>8. \A q \in Plugins : Sound(q)' => Sound(q)
  BY <1>1, <1>2, <1>6, <1>7 DEF Sound
<1>9. \A q \in Plugins : Doomed(q) => Doomed(q)'
  BY <1>1, <1>8, DoomedStays
<1>10. Accounted'
  <2> SUFFICES ASSUME NEW q \in tried \ plugins, q # t
               PROVE  q \in todo' \/ OnStack(q)' \/ (Doomed(q)' /\ InFailed(q)')
    BY <1>1, <1>7 DEF Accounted
  <2>1. CASE q \in todo
    BY <1>1, <2>1
  <2>2. CASE OnStack(q)
    <3>1. PICK i \in 1 .. n : stack[i] = q
      BY <2>2 DEF OnStack
    <3>2. i \in 1 .. n - 1
      <4>1. i # n /\ n \in Nat
        BY <1>3, <3>1
      <4> HIDE DEF n
      <4> QED
        BY <3>1, <4>1
    <3>3. i \in 1 .. Len(stack') /\ stack'[i] = q
      BY <1>3, <3>1, <3>2
    <3> QED
      BY <3>3 DEF OnStack
  <2>3. CASE Doomed(q) /\ InFailed(q)
    BY <1>1, <1>9, <2>3 DEF InFailed
  <2> QED
    BY <1>4, <2>1, <2>2, <2>3 DEF Accounted
<1>11. FailingIsDoomed'
  BY <1>1 DEF FailingIsDoomed
<1>12. StackIsChain'
  <2>1. ASSUME NEW i \in 1 .. Len(stack'), NEW j \in 1 .. Len(stack'), j = i + 1
        PROVE  stack'[j] \in requires[stack'[i]]
    BY <1>3, <1>4, <2>1 DEF StackIsChain
  <2>2. ASSUME NEW i \in 1 .. Len(stack')
        PROVE  /\ Found(stack[i])' /\ stack'[i] \notin invalid
               /\ left[stack'[i]] \subseteq requires[stack'[i]]
               /\ \A d \in requires[stack'[i]] \ left[stack'[i]] : d \notin invalid
    <3>1. i \in 1 .. n - 1
      BY <1>3
    <3>2. stack'[i] = stack[i] /\ i \in 1 .. n
      BY <1>3, <3>1
    <3> QED
      BY <1>4, <1>6, <3>2 DEF StackIsChain
  <2>3. UNCHANGED <<requires, invalid, left>>
    BY <1>1
  <2> QED
    BY <2>1, <2>2, <2>3 DEF StackIsChain
<1>13. LoadedIsSound'
  <2>1. ASSUME NEW q \in plugins' \ before
        PROVE  q \notin invalid /\ module'[q] = "ok" /\ \A d \in requires[q] : d \in plugins' \ invalid
    <3>1. CASE q = t
      BY <1>5, <1>7, <3>1
    <3>2. CASE q # t
      BY <1>4, <1>7, <2>1, <3>2 DEF LoadedIsSound
    <3> QED
      BY <3>1, <3>2
  <2> QED
    BY <1>1, <2>1 DEF LoadedIsSound
<1> QED
  BY <1>10, <1>11, <1>12, <1>13 DEF CallInv

LEMMA BeginExact ==
  ASSUME ExactInv, ~interrupted, NEW ids, Begin(ids), todo' = ids
  PROVE  CallInv'
<1>1. /\ stack = <<>> /\ tried' = ids /\ before' = plugins /\ ~failing
      /\ UNCHANGED <<plugins, stack, failing, module, requires>>
  BY DEF Begin, Idle, onDisk, ExactInv, LoadInv, PTypeOK, Typed
<1>2. Len(stack') = 0
  BY <1>1
<1>3. Accounted' /\ LoadedIsSound' /\ FailingIsDoomed'
  BY <1>1 DEF Accounted, LoadedIsSound, FailingIsDoomed
<1>4. StackIsChain'
  BY <1>2 DEF StackIsChain
<1> QED
  BY <1>3, <1>4 DEF CallInv

LEMMA InitExact == PInit => ExactInv
<1> SUFFICES ASSUME PInit PROVE ExactInv
  OBVIOUS
<1>1. Len(stack) = 0
  BY DEF PInit
<1>2. Accounted /\ FailingIsDoomed /\ StackIsChain /\ LoadedIsSound
  BY <1>1 DEF PInit, Accounted, FailingIsDoomed, StackIsChain, LoadedIsSound
<1> QED
  BY <1>2, InitLoads DEF ExactInv, CallInv

LEMMA StutterExact == ASSUME ExactInv, ~interrupted, UNCHANGED pvars PROVE CallInv'
<1>1. UNCHANGED <<requires, module, candidates, invalid, plugins, left, stack, todo, failing, failed,
                  tried, before, interrupted>>
  BY DEF pvars, onDisk, tables, history
<1>2. \A q : (Found(q)' <=> Found(q)) /\ (Sound(q)' <=> Sound(q))
  BY <1>1 DEF Found, Sound
<1>3. \A q \in Plugins : Doomed(q) => Doomed(q)'
  BY <1>1, <1>2, DoomedStays
<1>4. CallInv
  BY DEF ExactInv
<1>5. Accounted'
  <2>1. tried \subseteq Plugins
    BY DEF ExactInv, LoadInv, PTypeOK, Typed
  <2> QED
    BY <1>1, <1>3, <1>4, <2>1 DEF CallInv, Accounted, OnStack, InFailed
<1>6. FailingIsDoomed'
  <2> SUFFICES ASSUME failing PROVE \E d \in requires[Top] : d \notin before \ invalid /\ Doomed(d)'
    BY <1>1 DEF FailingIsDoomed, Top
  <2>1. PICK d \in requires[Top] : d \notin before \ invalid /\ Doomed(d)
    BY <1>4 DEF CallInv, FailingIsDoomed
  <2>2. Top \in Plugins /\ requires \in [Plugins -> SUBSET Plugins]
    BY TopIsPlugin DEF ExactInv, LoadInv, PTypeOK, Typed
  <2>3. d \in Plugins
    BY <2>1, <2>2
  <2> QED
    BY <1>3, <2>1, <2>3
<1>7. StackIsChain' /\ LoadedIsSound'
  BY <1>1, <1>4 DEF CallInv, StackIsChain, LoadedIsSound, Found
<1> QED
  BY <1>5, <1>6, <1>7 DEF CallInv

LEMMA StepExact == ExactInv /\ [PNext]_pvars => ExactInv'
<1> SUFFICES ASSUME ExactInv, [PNext]_pvars PROVE ExactInv'
  OBVIOUS
<1>1. LoadInv'
  BY StepLoads DEF ExactInv
<1>2. interrupted => interrupted'
  <2>1. CASE Work
    <3>1. ASSUME NEW p \in Plugins,
                 TryNext(p) \/ HasDependency(p) \/ LacksDependency(p) \/ Descend(p)
          PROVE  UNCHANGED interrupted
      BY <3>1 DEF TryNext, HasDependency, LacksDependency, Descend, Abandon, history
    <3>2. ImportExits => interrupted'
      BY DEF ImportExits
    <3>3. FailDependent \/ ImportSucceeds \/ ImportFails => UNCHANGED interrupted
      BY DEF FailDependent, ImportSucceeds, ImportFails, Abandon, history
    <3> QED
      BY <2>1, <3>1, <3>2, <3>3 DEF Work
  <2>2. CASE ~Work
    BY <2>2 DEF PNext, LoadPlugins, LoadPlugin, Begin, pvars, history
  <2> QED
    BY <2>1, <2>2
<1>3. ASSUME ~interrupted, ~interrupted' PROVE CallInv'
  <2>1. ASSUME NEW found \in SUBSET Plugins, NEW twice \in SUBSET found, LoadPlugins(found, twice)
        PROVE  CallInv'
    BY <1>3, <2>1, BeginExact DEF LoadPlugins
  <2>2. ASSUME NEW p \in Plugins, LoadPlugin(p) PROVE CallInv'
    BY <1>3, <2>2, BeginExact DEF LoadPlugin
  <2>3. CASE Work
    <3>1. ~ImportExits
      BY <1>3 DEF ImportExits
    <3> QED
      BY <1>3, <2>3, <3>1, TryNextExact, HasDependencyExact, LacksDependencyExact, DescendExact,
         FailDependentExact, ImportSucceedsExact, ImportFailsExact DEF Work
  <2>4. CASE UNCHANGED pvars
    BY <1>3, <2>4, StutterExact
  <2> QED
    BY <2>1, <2>2, <2>3, <2>4 DEF PNext
<1> QED
  <2>1. ~interrupted' => CallInv'
    BY <1>2, <1>3
  <2>2. interrupted' => CallInv'
    BY DEF CallInv
  <2> QED
    BY <1>1, <2>1, <2>2 DEF ExactInv

\* What the last call has loaded is in every closed set: the first of it in
\* the order of loading that is not would have been left out for no reason.
LEMMA LoadedIsLoadable ==
  ASSUME ExactInv, ~interrupted, NEW p \in plugins \ before
  PROVE  Loadable(p)
<1> USE DEF ExactInv, LoadInv, PTypeOK, Typed
<1> SUFFICES ASSUME NEW S \in SUBSET Plugins, Closed(S), p \notin S PROVE FALSE
  BY DEF Loadable, Closed
<1> DEFINE T == {i \in 1 .. Len(order) : order[i] \in plugins \ before /\ order[i] \notin S}
<1>1. T \in SUBSET Nat /\ T # {}
  <2>1. PICK i \in 1 .. Len(order) : order[i] = p
    BY DEF LoadedOnce
  <2>2. i \in T
    BY <2>1
  <2> QED
    BY <2>2
<1>2. PICK n \in T : \A k \in T : n <= k
  <2> HIDE DEF T
  <2> QED
    BY <1>1, LeastNat
<1>3. PICK q \in Plugins : q = order[n] /\ q \in plugins \ before /\ q \notin S
  BY <1>2
<1>4. /\ q \notin invalid /\ module[q] = "ok"
      /\ \A d \in requires[q] : d \in plugins \ invalid
  BY <1>3 DEF CallInv, LoadedIsSound
<1>5. Sound(q)
  BY <1>3, <1>4 DEF Sound, Found
<1>6. ASSUME NEW d \in requires[q] PROVE d \in S \union (before \ invalid)
  <2>1. PICK j \in 1 .. n - 1 : order[j] = d
    BY <1>2, <1>3 DEF DependenciesFirst
  <2>2. j \in 1 .. Len(order) /\ ~(n <= j)
    BY <1>2
  <2>3. d \in plugins \ invalid
    BY <1>4
  <2>4. CASE d \in before
    BY <2>3, <2>4
  <2>5. CASE d \notin before /\ d \notin S
    <3>1. j \in T
      BY <2>1, <2>2, <2>3, <2>5
    <3> QED
      BY <1>2, <2>2, <3>1
  <2> QED
    BY <2>4, <2>5
<1> QED
  BY <1>3, <1>5, <1>6 DEF Closed

LEMMA TriedIsDoomed ==
  ASSUME ExactInv, Idle, ~interrupted, NEW p \in tried \ plugins
  PROVE  p \in Plugins /\ Doomed(p) /\ InFailed(p)
<1>1. p \in Plugins /\ p \notin todo /\ Len(stack) = 0
  BY DEF Idle, ExactInv, LoadInv, PTypeOK, Typed
<1>2. ~OnStack(p)
  BY <1>1 DEF OnStack
<1> QED
  BY <1>1, <1>2 DEF ExactInv, CallInv, Accounted

\* A call loads what can be loaded and nothing else, for every set of plugins,
\* whatever they require, in whatever order they are tried.
THEOREM LoadsExactly == PSpec => []LoadExact
<1>1. ASSUME ExactInv, Idle, ~interrupted, NEW p \in tried, Loadable(p) PROVE p \in plugins
  <2> SUFFICES ASSUME p \notin plugins PROVE FALSE
    OBVIOUS
  <2>1. p \in Plugins /\ Doomed(p)
    BY <1>1, TriedIsDoomed
  <2> QED
    BY <1>1, <2>1, DoomedIsNotLoadable
<1>2. ExactInv => LoadExact
  BY <1>1, LoadedIsLoadable DEF LoadExact
<1> QED
  BY <1>2, InitExact, StepExact, PTL DEF PSpec

\* What was asked for and is not loaded is named in LoadResult.failed.
THEOREM FailuresAreNamed == PSpec => []Diagnosed
<1>1. ExactInv => Diagnosed
  BY TriedIsDoomed DEF Diagnosed, InFailed
<1> QED
  BY <1>1, InitExact, StepExact, PTL DEF PSpec

----------------------------------------------------------------------------
(* LegacyLoader: for any number of passes and entries.                      *)

LegacyTyped ==
  /\ kindOf \in [Entries -> EntryKinds] /\ feishu \in BOOLEAN
  /\ unread \in [Passes -> SUBSET Entries] /\ at \in [Passes -> SUBSET Entries]
  /\ loaded \in [Passes -> Seq(Entries)]
  /\ disabled \in [Passes -> Seq(Entries)]
  /\ failures \in [Passes -> Seq(Entries)]
  /\ modules \subseteq Passes \X Entries
  /\ passAt \in [Passes -> {"off", "missing", "looping", "done", "raised"}]

InNone(list, e) == \A j \in 1 .. Len(list) : list[j] # e
InOnce(list, e) == \E i \in 1 .. Len(list) : \A j \in 1 .. Len(list) : list[j] = e <=> j = i

Untold(c, e) == InNone(loaded[c], e) /\ InNone(disabled[c], e) /\ InNone(failures[c], e)

ToldOnce(c, e) ==
  \/ InOnce(loaded[c], e) /\ InNone(disabled[c], e) /\ InNone(failures[c], e)
  \/ InNone(loaded[c], e) /\ InOnce(disabled[c], e) /\ InNone(failures[c], e)
  \/ InNone(loaded[c], e) /\ InNone(disabled[c], e) /\ InOnce(failures[c], e)

NoPluginAtAll(e) == kindOf[e] \in {"cache", "other"}

\* What a pass has told of an entry it has not come to, one that it executes,
\* and one that it is done with; and whether the module is in sys.modules.
EntryOK(c, e) ==
  /\ passAt[c] \in {"off", "looping"} /\ (e \in unread[c] \/ e \in at[c] \/ passAt[c] = "off") => Untold(c, e)
  /\ passAt[c] \in {"looping", "done"} /\ e \notin unread[c] /\ e \notin at[c] =>
       IF NoPluginAtAll(e) THEN Untold(c, e) ELSE ToldOnce(c, e)
  /\ e \in at[c] => passAt[c] = "looping" /\ e \notin unread[c] /\ ~NoPluginAtAll(e)
                    /\ \A f \in at[c] : f = e
  /\ passAt[c] = "off" => <<c, e>> \notin modules
  /\ passAt[c] \in {"looping", "done"} =>
       (<<c, e>> \in modules <=> e \in at[c] \/ ~InNone(loaded[c], e))
  /\ passAt[c] = "done" => e \notin unread[c]

LegacyInv == LegacyTyped /\ \A c \in Passes : \A e \in Entries : EntryOK(c, e)

----------------------------------------------------------------------------
\* An entry is added to a list in which it was not.
LEMMA ListedOnce ==
  ASSUME NEW list \in Seq(Entries), NEW e \in Entries
  PROVE  /\ Append(list, e) \in Seq(Entries)
         /\ InNone(list, e) => InOnce(Append(list, e), e)
         /\ ~InNone(Append(list, e), e)
         /\ \A f : f # e => /\ InNone(list, f) <=> InNone(Append(list, e), f)
                            /\ InOnce(list, f) => InOnce(Append(list, e), f)
<1> DEFINE n == Len(list)
           s == Append(list, e)
<1>1. /\ s \in Seq(Entries) /\ Len(s) = n + 1 /\ n \in Nat /\ s[n + 1] = e
      /\ \A i \in 1 .. n : s[i] = list[i]
  OBVIOUS
<1> HIDE DEF s
<1>2. \A i : i \in 1 .. n + 1 <=> i \in 1 .. n \/ i = n + 1
  BY <1>1
<1>3. n + 1 \notin 1 .. n
  BY <1>1
<1>4. InNone(list, e) => InOnce(s, e)
  BY <1>1, <1>2, <1>3 DEF InNone, InOnce
<1>5. ~InNone(s, e)
  BY <1>1, <1>2 DEF InNone
<1>6. ASSUME NEW f, f # e
      PROVE  (InNone(list, f) <=> InNone(s, f)) /\ (InOnce(list, f) => InOnce(s, f))
  <2>1. InNone(list, f) <=> InNone(s, f)
    BY <1>1, <1>2, <1>6 DEF InNone
  <2>2. ASSUME InOnce(list, f) PROVE InOnce(s, f)
    <3>1. PICK i \in 1 .. n : \A j \in 1 .. n : list[j] = f <=> j = i
      BY <2>2 DEF InOnce
    <3>2. i \in 1 .. Len(s) /\ \A j \in 1 .. Len(s) : s[j] = f <=> j = i
      BY <1>1, <1>2, <1>3, <1>6, <3>1
    <3> QED
      BY <3>2 DEF InOnce
  <2> QED
    BY <2>1, <2>2
<1> QED
  BY <1>1, <1>4, <1>5, <1>6 DEF s

\* A step of one pass leaves the others alone.
LEMMA OtherPasses ==
  ASSUME LegacyInv, LegacyTyped', NEW c \in Passes, kindOf' = kindOf,
         \A e \in Entries : EntryOK(c, e)',
         \A d \in Passes : d # c =>
           /\ unread'[d] = unread[d] /\ at'[d] = at[d] /\ loaded'[d] = loaded[d]
           /\ disabled'[d] = disabled[d] /\ failures'[d] = failures[d] /\ passAt'[d] = passAt[d]
           /\ \A e \in Entries : <<d, e>> \in modules' <=> <<d, e>> \in modules
  PROVE  LegacyInv'
<1>1. ASSUME NEW d \in Passes, d # c, NEW e \in Entries PROVE EntryOK(d, e)'
  <2>1. EntryOK(d, e)
    BY DEF LegacyInv
  <2> QED
    BY <1>1, <2>1 DEF EntryOK, Untold, ToldOnce, NoPluginAtAll
<1> QED
  BY <1>1 DEF LegacyInv

LEMMA LegacyInitInv == LegacyInit => LegacyInv
<1> SUFFICES ASSUME LegacyInit PROVE LegacyInv
  OBVIOUS
<1>1. LegacyTyped
  BY DEF LegacyInit, LegacyTyped
<1>2. ASSUME NEW c \in Passes, NEW e \in Entries PROVE EntryOK(c, e)
  <2>1. /\ unread[c] = {} /\ at[c] = {} /\ passAt[c] = "off" /\ modules = {}
        /\ loaded[c] = <<>> /\ disabled[c] = <<>> /\ failures[c] = <<>>
    BY DEF LegacyInit
  <2>2. Untold(c, e)
    BY <2>1 DEF Untold, InNone
  <2> QED
    BY <2>1, <2>2 DEF EntryOK
<1> QED
  BY <1>1, <1>2 DEF LegacyInv

\* What a step of pass c leaves at the other passes.
OthersRest(c) ==
  \A d \in Passes : d # c =>
    /\ unread'[d] = unread[d] /\ at'[d] = at[d] /\ loaded'[d] = loaded[d]
    /\ disabled'[d] = disabled[d] /\ failures'[d] = failures[d] /\ passAt'[d] = passAt[d]
    /\ \A e \in Entries : <<d, e>> \in modules' <=> <<d, e>> \in modules

LEMMA BeginPassKeeps ==
  ASSUME LegacyInv, NEW c \in Passes, BeginPass(c)
  PROVE  LegacyInv'
<1> USE DEF LegacyInv, LegacyTyped
<1>1. /\ passAt[c] = "off" /\ passAt' = [passAt EXCEPT ![c] = "looping"]
      /\ unread' = [unread EXCEPT ![c] = Entries]
      /\ UNCHANGED <<kindOf, feishu, at, loaded, disabled, failures, modules>>
  BY DEF BeginPass, PassGoes, Folder
<1>2. LegacyTyped'
  BY <1>1
<1>3. OthersRest(c)
  BY <1>1 DEF OthersRest
<1>4. ASSUME NEW f \in Entries PROVE EntryOK(c, f)'
  <2>1. EntryOK(c, f) /\ \A g \in Entries : EntryOK(c, g)
    OBVIOUS
  <2>2. passAt'[c] = "looping" /\ at'[c] = at[c] /\ loaded'[c] = loaded[c]
        /\ disabled'[c] = disabled[c] /\ failures'[c] = failures[c]
    BY <1>1
  <2> QED
    BY <1>1, <2>1, <2>2 DEF EntryOK, Untold, ToldOnce, NoPluginAtAll
<1> QED
  BY <1>1, <1>2, <1>3, <1>4, OtherPasses DEF OthersRest

LEMMA NoFolderKeeps ==
  ASSUME LegacyInv, NEW c \in Passes, NoFolder(c)
  PROVE  LegacyInv'
<1> USE DEF LegacyInv, LegacyTyped
<1>1. /\ passAt[c] = "off" /\ passAt' = [passAt EXCEPT ![c] = "missing"]
      /\ unread' = unread
      /\ UNCHANGED <<kindOf, feishu, at, loaded, disabled, failures, modules>>
  BY DEF NoFolder, PassGoes, Folder
<1>2. LegacyTyped'
  BY <1>1
<1>3. OthersRest(c)
  BY <1>1 DEF OthersRest
<1>4. ASSUME NEW f \in Entries PROVE EntryOK(c, f)'
  <2>1. EntryOK(c, f) /\ \A g \in Entries : EntryOK(c, g)
    OBVIOUS
  <2>2. passAt'[c] = "missing" /\ at'[c] = at[c] /\ loaded'[c] = loaded[c]
        /\ disabled'[c] = disabled[c] /\ failures'[c] = failures[c]
    BY <1>1
  <2> QED
    BY <1>1, <2>1, <2>2 DEF EntryOK, Untold, ToldOnce, NoPluginAtAll
<1> QED
  BY <1>1, <1>2, <1>3, <1>4, OtherPasses DEF OthersRest

LEMMA PassEndsKeeps ==
  ASSUME LegacyInv, NEW c \in Passes, PassEnds(c)
  PROVE  LegacyInv'
<1> USE DEF LegacyInv, LegacyTyped
<1>1. /\ passAt[c] = "looping" /\ passAt' = [passAt EXCEPT ![c] = "done"]
      /\ unread[c] = {} /\ at[c] = {} /\ unread' = unread
      /\ UNCHANGED <<kindOf, feishu, at, loaded, disabled, failures, modules>>
  BY DEF PassEnds, PassGoes, Folder
<1>2. LegacyTyped'
  BY <1>1
<1>3. OthersRest(c)
  BY <1>1 DEF OthersRest
<1>4. ASSUME NEW f \in Entries PROVE EntryOK(c, f)'
  <2>1. EntryOK(c, f) /\ \A g \in Entries : EntryOK(c, g)
    OBVIOUS
  <2>2. passAt'[c] = "done" /\ at'[c] = at[c] /\ loaded'[c] = loaded[c]
        /\ disabled'[c] = disabled[c] /\ failures'[c] = failures[c]
    BY <1>1
  <2> QED
    BY <1>1, <2>1, <2>2 DEF EntryOK, Untold, ToldOnce, NoPluginAtAll
<1> QED
  BY <1>1, <1>2, <1>3, <1>4, OtherPasses DEF OthersRest

LEMMA PassOverKeeps ==
  ASSUME LegacyInv, NEW c \in Passes, NEW e \in Entries, PassOver(c, e)
  PROVE  LegacyInv'
<1> USE DEF LegacyInv, LegacyTyped
<1>1. /\ passAt[c] = "looping" /\ at[c] = {} /\ e \in unread[c]
      /\ unread' = [unread EXCEPT ![c] = @ \ {e}]
      /\ UNCHANGED <<kindOf, feishu, passAt>>
      /\ kindOf[e] \in {"cache", "other"}
      /\ UNCHANGED <<at, loaded, disabled, failures, modules>>
  BY DEF PassOver, Considers, TakeEntry, Folder
<1>2. LegacyTyped'
  BY <1>1
<1>3. OthersRest(c)
  BY <1>1 DEF OthersRest
<1>4. ASSUME NEW f \in Entries PROVE EntryOK(c, f)'
  <2>1. EntryOK(c, f) /\ EntryOK(c, e)
    OBVIOUS
  <2>2. unread'[c] = unread[c] \ {e} /\ passAt'[c] = passAt[c] /\ at'[c] = at[c]
        /\ loaded'[c] = loaded[c] /\ disabled'[c] = disabled[c] /\ failures'[c] = failures[c]
    BY <1>1
  <2> QED
    BY <1>1, <2>1, <2>2 DEF EntryOK, Untold, ToldOnce, NoPluginAtAll
<1> QED
  BY <1>1, <1>2, <1>3, <1>4, OtherPasses DEF OthersRest

LEMMA DisableKeeps ==
  ASSUME LegacyInv, NEW c \in Passes, NEW e \in Entries, Disable(c, e)
  PROVE  LegacyInv'
<1> USE DEF LegacyInv, LegacyTyped
<1>1. /\ passAt[c] = "looping" /\ at[c] = {} /\ e \in unread[c]
      /\ unread' = [unread EXCEPT ![c] = @ \ {e}]
      /\ UNCHANGED <<kindOf, feishu, passAt>>
      /\ kindOf[e] \in {"prefixed", "incompatible"}
      /\ disabled' = [disabled EXCEPT ![c] = Append(@, e)]
      /\ UNCHANGED <<at, loaded, failures, modules>>
  BY DEF Disable, Considers, TakeEntry, Folder, Listed
<1>2. LegacyTyped'
  BY <1>1, ListedOnce
<1>3. OthersRest(c)
  BY <1>1 DEF OthersRest
<1>4. ASSUME NEW f \in Entries PROVE EntryOK(c, f)'
  <2>1. EntryOK(c, f) /\ EntryOK(c, e)
    OBVIOUS
  <2>2. /\ unread'[c] = unread[c] \ {e} /\ passAt'[c] = passAt[c]
        /\ at'[c] = at[c] /\ disabled'[c] = Append(disabled[c], e)
        /\ loaded'[c] = loaded[c] /\ failures'[c] = failures[c]
    BY <1>1
  <2>3. /\ InNone(disabled[c], e) => InOnce(disabled'[c], e)
        /\ ~InNone(disabled'[c], e)
        /\ f # e => /\ InNone(disabled[c], f) <=> InNone(disabled'[c], f)
                    /\ InOnce(disabled[c], f) => InOnce(disabled'[c], f)
    BY <2>2, ListedOnce
  <2> QED
    BY <1>1, <2>1, <2>2, <2>3 DEF EntryOK, Untold, ToldOnce, NoPluginAtAll
<1> QED
  BY <1>1, <1>2, <1>3, <1>4, OtherPasses DEF OthersRest

LEMMA NoEntryFileKeeps ==
  ASSUME LegacyInv, NEW c \in Passes, NEW e \in Entries, NoEntryFile(c, e)
  PROVE  LegacyInv'
<1> USE DEF LegacyInv, LegacyTyped
<1>1. /\ passAt[c] = "looping" /\ at[c] = {} /\ e \in unread[c]
      /\ unread' = [unread EXCEPT ![c] = @ \ {e}]
      /\ UNCHANGED <<kindOf, feishu, passAt>>
      /\ kindOf[e] \in {"empty", "plugin", "incompatible"}
      /\ failures' = [failures EXCEPT ![c] = Append(@, e)]
      /\ UNCHANGED <<at, loaded, disabled, modules>>
  BY DEF NoEntryFile, Considers, TakeEntry, Folder, Listed, Runnable
<1>2. LegacyTyped'
  BY <1>1, ListedOnce
<1>3. OthersRest(c)
  BY <1>1 DEF OthersRest
<1>4. ASSUME NEW f \in Entries PROVE EntryOK(c, f)'
  <2>1. EntryOK(c, f) /\ EntryOK(c, e)
    OBVIOUS
  <2>2. /\ unread'[c] = unread[c] \ {e} /\ passAt'[c] = passAt[c]
        /\ at'[c] = at[c] /\ failures'[c] = Append(failures[c], e)
        /\ loaded'[c] = loaded[c] /\ disabled'[c] = disabled[c]
    BY <1>1
  <2>3. /\ InNone(failures[c], e) => InOnce(failures'[c], e)
        /\ ~InNone(failures'[c], e)
        /\ f # e => /\ InNone(failures[c], f) <=> InNone(failures'[c], f)
                    /\ InOnce(failures[c], f) => InOnce(failures'[c], f)
    BY <2>2, ListedOnce
  <2> QED
    BY <1>1, <2>1, <2>2, <2>3 DEF EntryOK, Untold, ToldOnce, NoPluginAtAll
<1> QED
  BY <1>1, <1>2, <1>3, <1>4, OtherPasses DEF OthersRest

LEMMA ExecuteKeeps ==
  ASSUME LegacyInv, NEW c \in Passes, NEW e \in Entries, Execute(c, e)
  PROVE  LegacyInv'
<1> USE DEF LegacyInv, LegacyTyped
<1>1. /\ passAt[c] = "looping" /\ at[c] = {} /\ e \in unread[c]
      /\ unread' = [unread EXCEPT ![c] = @ \ {e}]
      /\ UNCHANGED <<kindOf, feishu, passAt>>
      /\ kindOf[e] \in {"plugin", "incompatible"}
      /\ at' = [at EXCEPT ![c] = {e}] /\ modules' = modules \cup {<<c, e>>}
      /\ UNCHANGED <<loaded, disabled, failures>>
  BY DEF Execute, Considers, TakeEntry, Folder, Runnable
<1>2. LegacyTyped'
  BY <1>1
<1>3. OthersRest(c)
  BY <1>1 DEF OthersRest
<1>4. ASSUME NEW f \in Entries PROVE EntryOK(c, f)'
  <2>1. EntryOK(c, f) /\ EntryOK(c, e)
    OBVIOUS
  <2>2. unread'[c] = unread[c] \ {e} /\ at'[c] = {e} /\ passAt'[c] = passAt[c]
        /\ loaded'[c] = loaded[c] /\ disabled'[c] = disabled[c] /\ failures'[c] = failures[c]
    BY <1>1
  <2> QED
    BY <1>1, <2>1, <2>2 DEF EntryOK, Untold, ToldOnce, NoPluginAtAll
<1> QED
  BY <1>1, <1>2, <1>3, <1>4, OtherPasses DEF OthersRest

LEMMA RegisteredKeeps ==
  ASSUME LegacyInv, NEW c \in Passes, NEW e \in Entries, Registered(c, e)
  PROVE  LegacyInv'
<1> USE DEF LegacyInv, LegacyTyped
<1>1. /\ e \in at[c] /\ at' = [at EXCEPT ![c] = {}]
      /\ UNCHANGED <<kindOf, feishu, unread, disabled>>
      /\ loaded' = [loaded EXCEPT ![c] = Append(@, e)]
      /\ UNCHANGED <<failures, modules, passAt>>
  BY DEF Registered, Leave, Folder, Listed
<1>2. LegacyTyped'
  BY <1>1, ListedOnce
<1>3. OthersRest(c)
  BY <1>1 DEF OthersRest
<1>4. ASSUME NEW f \in Entries PROVE EntryOK(c, f)'
  <2>1. EntryOK(c, f) /\ EntryOK(c, e)
    OBVIOUS
  <2>2. /\ unread'[c] = unread[c] /\ passAt'[c] = passAt[c]
        /\ at'[c] = {} /\ loaded'[c] = Append(loaded[c], e)
        /\ disabled'[c] = disabled[c] /\ failures'[c] = failures[c]
    BY <1>1
  <2>3. /\ InNone(loaded[c], e) => InOnce(loaded'[c], e)
        /\ ~InNone(loaded'[c], e)
        /\ f # e => /\ InNone(loaded[c], f) <=> InNone(loaded'[c], f)
                    /\ InOnce(loaded[c], f) => InOnce(loaded'[c], f)
    BY <2>2, ListedOnce
  <2> QED
    BY <1>1, <2>1, <2>2, <2>3 DEF EntryOK, Untold, ToldOnce, NoPluginAtAll
<1> QED
  BY <1>1, <1>2, <1>3, <1>4, OtherPasses DEF OthersRest

LEMMA NoPluginKeeps ==
  ASSUME LegacyInv, NEW c \in Passes, NEW e \in Entries, NoPlugin(c, e)
  PROVE  LegacyInv'
<1> USE DEF LegacyInv, LegacyTyped
<1>1. /\ e \in at[c] /\ at' = [at EXCEPT ![c] = {}]
      /\ UNCHANGED <<kindOf, feishu, unread, disabled>>
      /\ failures' = [failures EXCEPT ![c] = Append(@, e)]
      /\ modules' = modules \ {<<c, e>>}
      /\ UNCHANGED <<loaded, passAt>>
  BY DEF NoPlugin, Leave, Folder, Listed, DropModule
<1>2. LegacyTyped'
  BY <1>1, ListedOnce
<1>3. OthersRest(c)
  BY <1>1 DEF OthersRest
<1>4. ASSUME NEW f \in Entries PROVE EntryOK(c, f)'
  <2>1. EntryOK(c, f) /\ EntryOK(c, e)
    OBVIOUS
  <2>2. /\ unread'[c] = unread[c] /\ passAt'[c] = passAt[c]
        /\ at'[c] = {} /\ failures'[c] = Append(failures[c], e)
        /\ loaded'[c] = loaded[c] /\ disabled'[c] = disabled[c]
    BY <1>1
  <2>3. /\ InNone(failures[c], e) => InOnce(failures'[c], e)
        /\ ~InNone(failures'[c], e)
        /\ f # e => /\ InNone(failures[c], f) <=> InNone(failures'[c], f)
                    /\ InOnce(failures[c], f) => InOnce(failures'[c], f)
    BY <2>2, ListedOnce
  <2> QED
    BY <1>1, <2>1, <2>2, <2>3 DEF EntryOK, Untold, ToldOnce, NoPluginAtAll
<1> QED
  BY <1>1, <1>2, <1>3, <1>4, OtherPasses DEF OthersRest

LEMMA InterruptedKeeps ==
  ASSUME LegacyInv, NEW c \in Passes, NEW e \in Entries, Interrupted(c, e)
  PROVE  LegacyInv'
<1> USE DEF LegacyInv, LegacyTyped
<1>1. /\ e \in at[c] /\ at' = [at EXCEPT ![c] = {}]
      /\ UNCHANGED <<kindOf, feishu, unread, disabled>>
      /\ passAt' = [passAt EXCEPT ![c] = "raised"]
      /\ UNCHANGED <<loaded, failures, modules>>
  BY DEF Interrupted, Leave, Folder
<1>2. LegacyTyped'
  BY <1>1
<1>3. OthersRest(c)
  BY <1>1 DEF OthersRest
<1>4. ASSUME NEW f \in Entries PROVE EntryOK(c, f)'
  <2>1. EntryOK(c, f) /\ EntryOK(c, e)
    OBVIOUS
  <2>2. passAt'[c] = "raised" /\ at'[c] = {}
    BY <1>1
  <2> QED
    BY <1>1, <2>1, <2>2 DEF EntryOK, Untold, ToldOnce, NoPluginAtAll
<1> QED
  BY <1>1, <1>2, <1>3, <1>4, OtherPasses DEF OthersRest

LEMMA LegacyStepInv == LegacyInv /\ [LegacyNext]_legacyVars => LegacyInv'
<1> SUFFICES ASSUME LegacyInv, [LegacyNext]_legacyVars PROVE LegacyInv'
  OBVIOUS
<1>1. CASE UNCHANGED legacyVars
  BY <1>1 DEF legacyVars, LegacyInv, LegacyTyped, EntryOK, Untold, ToldOnce, NoPluginAtAll
<1>2. CASE LegacyNext
  BY <1>2, BeginPassKeeps, NoFolderKeeps, PassEndsKeeps, PassOverKeeps, DisableKeeps, NoEntryFileKeeps,
     ExecuteKeeps, RegisteredKeeps, NoPluginKeeps, InterruptedKeeps DEF LegacyNext
<1> QED
  BY <1>1, <1>2

\* In one of three lists an entry is at one place of the lists put together.
LEMMA ToldOnceTogether ==
  ASSUME NEW r \in Seq(Entries), NEW s \in Seq(Entries), NEW t \in Seq(Entries), NEW e
  PROVE  LET told == r \o s \o t
         IN  /\ DOMAIN told = 1 .. Len(told)
             /\ InNone(r, e) /\ InNone(s, e) /\ InNone(t, e) => InNone(told, e)
             /\ InOnce(r, e) /\ InNone(s, e) /\ InNone(t, e) => InOnce(told, e)
             /\ InNone(r, e) /\ InOnce(s, e) /\ InNone(t, e) => InOnce(told, e)
             /\ InNone(r, e) /\ InNone(s, e) /\ InOnce(t, e) => InOnce(told, e)
<1>1. ASSUME NEW a \in Seq(Entries), NEW b \in Seq(Entries)
      PROVE  /\ a \o b \in Seq(Entries)
             /\ InNone(a, e) /\ InNone(b, e) => InNone(a \o b, e)
             /\ InOnce(a, e) /\ InNone(b, e) => InOnce(a \o b, e)
             /\ InNone(a, e) /\ InOnce(b, e) => InOnce(a \o b, e)
  <2> DEFINE m == Len(a)
             n == Len(b)
             u == a \o b
  <2>1. /\ u \in Seq(Entries) /\ Len(u) = m + n /\ m \in Nat /\ n \in Nat
        /\ \A i \in 1 .. m + n : u[i] = IF i <= m THEN a[i] ELSE b[i - m]
    BY ConcatProperties
  <2> HIDE DEF u
  <2>2. \A i \in 1 .. m : i \in 1 .. Len(u) /\ u[i] = a[i]
    BY <2>1
  <2>3. \A i \in 1 .. n : m + i \in 1 .. Len(u) /\ u[m + i] = b[i] /\ m + i \notin 1 .. m
    <3> SUFFICES ASSUME NEW i \in 1 .. n
                 PROVE  m + i \in 1 .. Len(u) /\ u[m + i] = b[i] /\ m + i \notin 1 .. m
      OBVIOUS
    <3>1. m + i \in 1 .. m + n /\ ~(m + i <= m) /\ (m + i) - m = i
      BY <2>1
    <3> QED
      BY <2>1, <3>1
  <2>4. \A j \in 1 .. Len(u) : j \in 1 .. m \/ (j - m \in 1 .. n /\ j = m + (j - m))
    BY <2>1
  <2>5. InNone(a, e) /\ InNone(b, e) => InNone(u, e)
    <3> SUFFICES ASSUME InNone(a, e), InNone(b, e), NEW j \in 1 .. Len(u) PROVE u[j] # e
      BY DEF InNone
    <3>1. CASE j \in 1 .. m
      BY <2>2, <3>1 DEF InNone
    <3>2. CASE j \notin 1 .. m
      BY <2>3, <2>4, <3>2 DEF InNone
    <3> QED
      BY <3>1, <3>2
  <2>6. InOnce(a, e) /\ InNone(b, e) => InOnce(u, e)
    <3> SUFFICES ASSUME InOnce(a, e), InNone(b, e) PROVE InOnce(u, e)
      OBVIOUS
    <3>1. PICK i \in 1 .. m : \A j \in 1 .. m : a[j] = e <=> j = i
      BY DEF InOnce
    <3>2. ASSUME NEW j \in 1 .. Len(u) PROVE u[j] = e <=> j = i
      <4>1. CASE j \in 1 .. m
        BY <2>2, <3>1, <4>1
      <4>2. CASE j \notin 1 .. m
        BY <2>3, <2>4, <3>1, <4>2 DEF InNone
      <4> QED
        BY <4>1, <4>2
    <3> QED
      BY <2>2, <3>1, <3>2 DEF InOnce
  <2>7. InNone(a, e) /\ InOnce(b, e) => InOnce(u, e)
    <3> SUFFICES ASSUME InNone(a, e), InOnce(b, e) PROVE InOnce(u, e)
      OBVIOUS
    <3>1. PICK i \in 1 .. n : \A j \in 1 .. n : b[j] = e <=> j = i
      BY DEF InOnce
    <3>2. ASSUME NEW j \in 1 .. Len(u) PROVE u[j] = e <=> j = m + i
      <4>1. CASE j \in 1 .. m
        BY <2>2, <2>3, <3>1, <4>1 DEF InNone
      <4>2. CASE j \notin 1 .. m
        <5>1. PICK k \in 1 .. n : j = m + k /\ k = j - m
          BY <2>4, <4>2
        <5>2. u[j] = b[k]
          BY <2>3, <5>1
        <5>3. j = m + i <=> k = i
          <6>1. m \in Nat
            BY <2>1
          <6> HIDE DEF m
          <6>2. k \in Int /\ i \in Int /\ j = m + k
            BY <5>1
          <6> QED
            BY <6>1, <6>2
        <5> QED
          BY <3>1, <5>2, <5>3
      <4> QED
        BY <4>1, <4>2
    <3> QED
      BY <2>3, <3>1, <3>2 DEF InOnce
  <2> QED
    BY <2>1, <2>5, <2>6, <2>7 DEF u
<1>2. PICK rs \in Seq(Entries) : rs = r \o s
  BY <1>1
<1>3. /\ InNone(r, e) /\ InNone(s, e) => InNone(rs, e)
      /\ InOnce(r, e) /\ InNone(s, e) => InOnce(rs, e)
      /\ InNone(r, e) /\ InOnce(s, e) => InOnce(rs, e)
  BY <1>1, <1>2
<1>4. /\ rs \o t \in Seq(Entries)
      /\ InNone(rs, e) /\ InNone(t, e) => InNone(rs \o t, e)
      /\ InOnce(rs, e) /\ InNone(t, e) => InOnce(rs \o t, e)
      /\ InNone(rs, e) /\ InOnce(t, e) => InOnce(rs \o t, e)
  BY <1>1
<1>5. DOMAIN (rs \o t) = 1 .. Len(rs \o t)
  BY <1>4
<1> QED
  BY <1>2, <1>3, <1>4, <1>5

\* What the invariant says of a pass that is over.
LEMMA PassIsTold == LegacyInv => EachEntryOnce
<1> SUFFICES ASSUME LegacyInv, NEW c \in Passes, passAt[c] = "done", NEW e \in Entries
             PROVE  /\ LET told == loaded[c] \o disabled[c] \o failures[c]
                       IN  IF kindOf[e] \in {"cache", "other"} THEN ~Contains(told, e)
                           ELSE \E i \in DOMAIN told : \A j \in DOMAIN told : told[j] = e <=> j = i
                    /\ <<c, e>> \in modules <=> Contains(loaded[c], e)
  BY DEF EachEntryOnce
<1>1. /\ EntryOK(c, e) /\ loaded[c] \in Seq(Entries)
      /\ disabled[c] \in Seq(Entries) /\ failures[c] \in Seq(Entries)
  BY DEF LegacyInv, LegacyTyped
<1>2. /\ IF NoPluginAtAll(e) THEN Untold(c, e) ELSE ToldOnce(c, e)
      /\ <<c, e>> \in modules <=> ~InNone(loaded[c], e)
  BY <1>1 DEF EntryOK
<1> DEFINE told == loaded[c] \o disabled[c] \o failures[c]
<1>3. /\ DOMAIN told = 1 .. Len(told)
      /\ Untold(c, e) => InNone(told, e)
      /\ ToldOnce(c, e) => InOnce(told, e)
  BY <1>1, ToldOnceTogether DEF Untold, ToldOnce
<1> HIDE DEF told
<1>4. IF kindOf[e] \in {"cache", "other"} THEN ~Contains(told, e)
      ELSE \E i \in DOMAIN told : \A j \in DOMAIN told : told[j] = e <=> j = i
  BY <1>2, <1>3 DEF NoPluginAtAll, Contains, InNone, InOnce
<1>5. <<c, e>> \in modules <=> Contains(loaded[c], e)
  BY <1>2 DEF Contains, InNone
<1> QED
  BY <1>4, <1>5 DEF told

\* A pass that is over has told of each entry once, unless it is no plugin at
\* all, and has left in sys.modules the modules of its loaded plugins.
THEOREM EntriesAreToldOnce == LegacySpec => []EachEntryOnce
<1> QED
  BY LegacyInitInv, LegacyStepInv, PassIsTold, PTL DEF LegacySpec

----------------------------------------------------------------------------
(* MatcherRegistry: for any managers, plugins, matchers and tasks.          *)

\* Where a plugin's first and last matchers are.
LEMMA FirstIsIn ==
  ASSUME NEW s, Len(s) \in Nat, NEW p
  PROVE  FirstOf(s, p) \in 0..Len(s)
<1> DEFINE I == {i \in 1..Len(s) : s[i].plugin = p}
<1>1. FirstOf(s, p) = IF I # {} THEN Min(I) ELSE 0
  BY DEF FirstOf, SelectInSeq
<1>2. ASSUME I # {} PROVE Min(I) \in I
  <2>1. I \in SUBSET Nat
    OBVIOUS
  <2> HIDE DEF I
  <2>2. \E x \in I : \A y \in I : x <= y
    BY <1>2, <2>1, LeastNat
  <2> QED
    BY <2>2 DEF Min
<1> QED
  BY <1>1, <1>2

\* ... and so is its last.
LEMMA LastIsIn ==
  ASSUME NEW s, Len(s) \in Nat, NEW p
  PROVE  LastOf(s, p) \in 0..Len(s)
<1> DEFINE I == {i \in 1..Len(s) : s[i].plugin = p}
<1>1. LastOf(s, p) = IF I # {} THEN Max(I) ELSE 0
  BY DEF LastOf, SelectLastInSeq
<1>2. ASSUME I # {} PROVE Max(I) \in I
  <2>1. I \in SUBSET (1..Len(s))
    OBVIOUS
  <2> HIDE DEF I
  <2>2. \E x \in I : \A y \in I : y <= x
    BY <1>2, <2>1, GreatestNat
  <2>3. \A x, y \in I : y <= x <=> x >= y
    BY <2>1
  <2> QED
    BY <2>2, <2>3 DEF Max
<1> QED
  BY <1>1, <1>2

Registrations == [plugin : PluginIds, matcher : Matchers]

\* A registration keeps those there were.
LEMMA AddedKeeps ==
  ASSUME NEW s \in Seq(Registrations), NEW p \in PluginIds, NEW x \in Matchers
  PROVE  /\ Added(s, p, x) \in Seq(Registrations)
         /\ \A i \in 1..Len(s) : \E j \in 1..Len(Added(s, p, x)) : Added(s, p, x)[j] = s[i]
<1> DEFINE e == Entry(p, x)
<1>1. PICK k \in 1..Len(s) + 1 : Added(s, p, x) \in {Append(s, e), InsertAt(s, k, e)}
  <2>1. LastOf(s, p) \in 0..Len(s)
    BY LastIsIn
  <2>2. LastOf(s, p) + 1 \in 1..Len(s) + 1
    BY <2>1
  <2> QED
    BY <2>2 DEF Added
<1>2. e \in Registrations
  BY DEF Entry, Registrations
<1> HIDE DEF e, Registrations
<1>3. CASE Added(s, p, x) = Append(s, e)
  BY <1>2, <1>3
<1>4. CASE Added(s, p, x) = InsertAt(s, k, e)
  <2> DEFINE a == SubSeq(s, 1, k - 1)
             b == SubSeq(s, k, Len(s))
             c == a \o <<e>>
             t == c \o b
  <2>1. Added(s, p, x) = t
    BY <1>4 DEF InsertAt
  <2>2. a \in Seq(Registrations) /\ Len(a) = k - 1 /\ \A i \in 1..k - 1 : a[i] = s[i]
    OBVIOUS
  <2>3. /\ b \in Seq(Registrations) /\ Len(b) = Len(s) + 1 - k
        /\ \A i \in 1..Len(s) + 1 - k : b[i] = s[k + i - 1]
    OBVIOUS
  <2>4. <<e>> \in Seq(Registrations) /\ Len(<<e>>) = 1
    BY <1>2
  <2> HIDE DEF a, b
  <2>5. /\ c \in Seq(Registrations) /\ Len(c) = k
        /\ \A i \in 1..k - 1 : c[i] = a[i]
    BY <2>2, <2>4, ConcatProperties
  <2> HIDE DEF c
  <2>6. /\ t \in Seq(Registrations) /\ Len(t) = Len(s) + 1
        /\ \A i \in 1..k - 1 : t[i] = c[i]
        /\ \A i \in 1..Len(s) + 1 - k : t[k + i] = b[i]
    <3>1. /\ t \in Seq(Registrations) /\ Len(t) = Len(c) + Len(b)
          /\ \A i \in 1..Len(c) + Len(b) : t[i] = IF i <= Len(c) THEN c[i] ELSE b[i - Len(c)]
      BY <2>3, <2>5, ConcatProperties
    <3> HIDE DEF t
    <3> QED
      BY <2>3, <2>5, <3>1
  <2> HIDE DEF t
  <2>7. ASSUME NEW i \in 1..Len(s) PROVE \E j \in 1..Len(t) : t[j] = s[i]
    <3>1. CASE i < k
      <4>1. i \in 1..k - 1 /\ i \in 1..Len(t)
        BY <3>1, <2>6
      <4>2. t[i] = s[i]
        BY <4>1, <2>2, <2>5, <2>6
      <4> QED
        BY <4>1, <4>2
    <3>2. CASE i >= k
      <4>1. PICK n \in 1..Len(s) + 1 - k : k + n = i + 1 /\ k + n - 1 = i
        <5>1. i + 1 - k \in 1..Len(s) + 1 - k
          BY <3>2
        <5> QED
          BY <5>1
      <4>2. t[k + n] = b[n] /\ b[n] = s[k + n - 1]
        BY <2>3, <2>6
      <4>3. i + 1 \in 1..Len(t) /\ t[i + 1] = s[i]
        BY <4>1, <4>2, <2>6
      <4> QED
        BY <4>3
    <3> QED
      BY <3>1, <3>2
  <2> QED
    BY <2>1, <2>6, <2>7
<1> QED
  BY <1>1, <1>3, <1>4

\* What is left when a plugin's matchers go.
LEMMA WithoutTyped ==
  ASSUME NEW s \in Seq(Registrations), NEW p
  PROVE  Without(s, p) \in Seq(Registrations)
<1>1. PICK first \in 0..Len(s), last \in 0..Len(s) :
        Without(s, p) = IF first = 0 THEN s
                        ELSE SubSeq(s, 1, first - 1) \o SubSeq(s, last + 1, Len(s))
  <2>1. FirstOf(s, p) \in 0..Len(s)
    BY FirstIsIn
  <2>2. LastOf(s, p) \in 0..Len(s)
    BY LastIsIn
  <2> QED
    BY <2>1, <2>2 DEF Without
<1> HIDE DEF Registrations
<1>2. first # 0 => SubSeq(s, 1, first - 1) \in Seq(Registrations)
  OBVIOUS
<1>3. SubSeq(s, last + 1, Len(s)) \in Seq(Registrations)
  OBVIOUS
<1> QED
  BY <1>1, <1>2, <1>3

----------------------------------------------------------------------------
Frames == [todo : Seq(Matchers), at : Nat, handled : BOOLEAN, before : Nat]

MatchTypes ==
  /\ ofManager \in [Managers -> Seq(Registrations)] /\ ofNobody \in Seq(Matchers)
  /\ count \in [Matchers -> Nat]
  /\ scope \in [EventTasks -> Managers \cup {Nobody}]
  /\ dispatches \in [EventTasks -> Seq(Frames)] /\ current \in [EventTasks -> Nat]
  /\ late \in [EventTasks -> SUBSET Matchers]

\* A matcher is registered for the events of a manager, or of nobody.
IsRegistered(m, x) ==
  \/ \E i \in 1..Len(ofNobody) : ofNobody[i] = x
  \/ m # Nobody /\ \E i \in 1..Len(ofManager[m]) : ofManager[m][i].matcher = x

\* A task may go through a matcher: it is registered, or was removed too late.
IsOffered(t, x) == IsRegistered(scope[t], x) \/ x \in late[t]

\* A dispatch inside of which there is another one runs a handler, and one that
\* runs a handler knows what the context was before it.
FrameOK(t, i) ==
  LET f == dispatches[t][i]
  IN  /\ i < Len(dispatches[t]) => f.at > 0
      /\ f.at > 0 => f.todo # <<>> /\ f.before = i - 1
      /\ \A j \in 1..Len(f.todo) : IsOffered(t, f.todo[j])

ContextOK(t) ==
  current[t] = IF dispatches[t] = <<>> THEN 0
               ELSE IF Innermost(t).at > 0 THEN Len(dispatches[t]) ELSE Len(dispatches[t]) - 1

TaskOK(t) == ContextOK(t) /\ \A i \in 1..Len(dispatches[t]) : FrameOK(t, i)

MatchInv == MatchTypes /\ \A t \in EventTasks : TaskOK(t)

\* At first no event is dispatched.
LEMMA MatchInitInv == MatchInit => MatchInv
  BY DEF MatchInit, MatchInv, MatchTypes, TaskOK, ContextOK

\* Registration only adds; what is removed is noted by the tasks that look at it.
LEMMA RegistryStep ==
  ASSUME MatchInv, Dispatching, count' \in [Matchers -> Nat],
         ofManager' \in [Managers -> Seq(Registrations)], ofNobody' \in Seq(Matchers),
         late' \in [EventTasks -> SUBSET Matchers],
         \A t \in EventTasks : dispatches[t] # <<>> =>
           \A x \in Matchers : IsOffered(t, x) => IsOffered(t, x)'
  PROVE  MatchInv'
<1>1. MatchTypes'
  BY DEF MatchInv, MatchTypes, Dispatching
<1>2. ASSUME NEW t \in EventTasks PROVE TaskOK(t)'
  <2>1. dispatches' = dispatches /\ current' = current /\ scope' = scope
    BY DEF Dispatching
  <2>2. ContextOK(t)'
    BY <2>1 DEF MatchInv, TaskOK, ContextOK, Innermost
  <2>3. ASSUME NEW i \in 1..Len(dispatches[t]) PROVE FrameOK(t, i)'
    <3>1. FrameOK(t, i) /\ dispatches[t] # <<>>
      BY <2>3 DEF MatchInv, MatchTypes, TaskOK
    <3>2. dispatches[t][i] \in Frames
      BY DEF MatchInv, MatchTypes
    <3> DEFINE f == dispatches[t][i]
    <3>3. \A j \in 1..Len(f.todo) : f.todo[j] \in Matchers
      BY <3>2 DEF Frames
    <3> HIDE DEF f
    <3>4. \A j \in 1..Len(f.todo) : IsOffered(t, f.todo[j])'
      <4>1. \A j \in 1..Len(f.todo) : IsOffered(t, f.todo[j])
        BY <3>1 DEF FrameOK, f
      <4>2. f' = f
        BY <2>1 DEF f
      <4> SUFFICES ASSUME NEW j \in 1..Len(f.todo) PROVE IsOffered(t, f.todo[j])'
        BY <4>2
      <4>3. IsOffered(t, f.todo[j]) /\ f.todo[j] \in Matchers
        BY <3>3, <4>1
      <4> QED
        <5>1. PICK x \in Matchers : x = f.todo[j]
          BY <4>3
        <5>2. IsOffered(t, x)'
          BY <3>1, <4>3, <5>1
        <5> QED
          BY <2>1, <4>2, <5>1, <5>2 DEF IsOffered, IsRegistered
    <3> QED
      BY <2>1, <3>1, <3>4 DEF FrameOK, f
  <2> QED
    BY <2>1, <2>2, <2>3 DEF TaskOK
<1> QED
  BY <1>1, <1>2 DEF MatchInv

\* The innermost dispatch of a task changes, or another one begins or ends.
LEMMA TaskStep ==
  ASSUME MatchInv, NEW t \in EventTasks, NEW frames \in Seq(Frames),
         dispatches' = [dispatches EXCEPT ![t] = frames],
         UNCHANGED <<ofManager, ofNobody, count, scope>>,
         current' \in [EventTasks -> Nat], late' \in [EventTasks -> SUBSET Matchers],
         \A u \in EventTasks \ {t} : current'[u] = current[u] /\ late'[u] = late[u],
         TaskOK(t)'
  PROVE  MatchInv'
<1>1. MatchTypes'
  BY DEF MatchInv, MatchTypes
<1>2. ASSUME NEW u \in EventTasks \ {t} PROVE TaskOK(u)'
  <2>1. dispatches'[u] = dispatches[u] /\ current'[u] = current[u] /\ late'[u] = late[u]
    BY DEF MatchInv, MatchTypes
  <2>2. TaskOK(u)
    BY DEF MatchInv
  <2> QED
    BY <2>1, <2>2 DEF TaskOK, ContextOK, FrameOK, Innermost, IsOffered, IsRegistered
<1> QED
  BY <1>1, <1>2 DEF MatchInv

\* What is known of a task with a dispatch.
LEMMA TheInnermost ==
  ASSUME MatchInv, NEW t \in EventTasks, dispatches[t] # <<>>
  PROVE  LET n == Len(dispatches[t])
         IN  /\ dispatches[t] \in Seq(Frames) /\ n \in Nat \ {0} /\ Innermost(t) = dispatches[t][n]
             /\ Innermost(t) \in Frames /\ FrameOK(t, n)
             /\ \A i \in 1..n : FrameOK(t, i)
             /\ \A i \in 1..n - 1 : dispatches[t][i].at > 0
             /\ current[t] = IF Innermost(t).at > 0 THEN n ELSE n - 1
<1> DEFINE n == Len(dispatches[t])
<1>1. dispatches[t] \in Seq(Frames) /\ n \in Nat \ {0}
  BY DEF MatchInv, MatchTypes
<1>2. Innermost(t) = dispatches[t][n] /\ Innermost(t) \in Frames
  BY <1>1 DEF Innermost
<1>3. \A i \in 1..n : FrameOK(t, i)
  BY DEF MatchInv, TaskOK
<1>4. ASSUME NEW i \in 1..n - 1 PROVE dispatches[t][i].at > 0
  BY <1>1, <1>3 DEF FrameOK
<1>5. current[t] = IF Innermost(t).at > 0 THEN n ELSE n - 1
  BY DEF MatchInv, TaskOK, ContextOK
<1> QED
  BY <1>1, <1>2, <1>3, <1>4, <1>5

\* The innermost dispatch is replaced.
LEMMA Replaced ==
  ASSUME MatchInv, NEW t \in EventTasks, dispatches[t] # <<>>, NEW frame \in Frames,
         SetInnermost(t, frame), UNCHANGED <<ofManager, ofNobody, count, scope, late>>,
         NEW now \in Nat, current' = [current EXCEPT ![t] = now],
         now = IF frame.at > 0 THEN Len(dispatches[t]) ELSE Len(dispatches[t]) - 1,
         frame.at > 0 => frame.todo # <<>> /\ frame.before = Len(dispatches[t]) - 1,
         \A j \in 1..Len(frame.todo) : IsOffered(t, frame.todo[j])
  PROVE  MatchInv'
<1> DEFINE n == Len(dispatches[t])
           frames == [dispatches[t] EXCEPT ![n] = frame]
<1>1. /\ dispatches[t] \in Seq(Frames) /\ n \in Nat \ {0}
      /\ \A i \in 1..n : FrameOK(t, i)
  BY TheInnermost
<1>2. frames \in Seq(Frames) /\ Len(frames) = n /\ frames[n] = frame
      /\ \A i \in 1..n - 1 : frames[i] = dispatches[t][i]
  BY <1>1
<1>3. dispatches' = [dispatches EXCEPT ![t] = frames]
  BY DEF SetInnermost, MatchInv, MatchTypes
<1> HIDE DEF frames
<1>4. dispatches'[t] = frames /\ current'[t] = now
  BY <1>3 DEF MatchInv, MatchTypes
<1>5. /\ current' \in [EventTasks -> Nat] /\ late' \in [EventTasks -> SUBSET Matchers]
      /\ \A u \in EventTasks \ {t} : current'[u] = current[u] /\ late'[u] = late[u]
  BY DEF MatchInv, MatchTypes
<1>6. ContextOK(t)'
  BY <1>1, <1>2, <1>4 DEF ContextOK, Innermost
<1>7. ASSUME NEW i \in 1..n PROVE FrameOK(t, i)'
  <2>1. CASE i < n
    <3>1. dispatches'[t][i] = dispatches[t][i] /\ Len(dispatches'[t]) = n
      BY <1>1, <1>2, <1>4, <2>1
    <3>2. FrameOK(t, i) /\ n = Len(dispatches[t])
      BY <1>1
    <3>3. scope' = scope /\ ofManager' = ofManager /\ ofNobody' = ofNobody /\ late' = late
      OBVIOUS
    <3> HIDE DEF n
    <3> QED
      BY <3>1, <3>2, <3>3 DEF FrameOK, IsOffered, IsRegistered
  <2>2. CASE i = n
    <3>1. dispatches'[t][i] = frame /\ Len(dispatches'[t]) = n
      BY <1>1, <1>2, <1>4, <2>2
    <3> QED
      BY <2>2, <3>1, <1>1 DEF FrameOK, IsOffered, IsRegistered
  <2> QED
    BY <1>1, <2>1, <2>2
<1>8. TaskOK(t)'
  BY <1>2, <1>4, <1>6, <1>7 DEF TaskOK
<1> QED
  BY <1>2, <1>3, <1>5, <1>8, TaskStep

\* The innermost dispatch ends; the handler that called it, if any, runs on.
LEMMA Popped ==
  ASSUME MatchInv, NEW t \in EventTasks, dispatches[t] # <<>>, Pop(t),
         UNCHANGED <<ofManager, ofNobody, count, scope>>,
         current' = [current EXCEPT ![t] = Len(dispatches[t]) - 1]
  PROVE  MatchInv'
<1> DEFINE n == Len(dispatches[t])
           frames == Front(dispatches[t])
<1>1. /\ dispatches[t] \in Seq(Frames) /\ n \in Nat \ {0}
      /\ \A i \in 1..n : FrameOK(t, i)
      /\ \A i \in 1..n - 1 : dispatches[t][i].at > 0
  BY TheInnermost
<1>2. frames \in Seq(Frames) /\ Len(frames) = n - 1
      /\ \A i \in 1..n - 1 : frames[i] = dispatches[t][i]
  BY <1>1 DEF Front
<1>3. dispatches' = [dispatches EXCEPT ![t] = frames]
  BY DEF Pop, MatchInv, MatchTypes
<1> HIDE DEF frames
<1>4. dispatches'[t] = frames /\ current'[t] = n - 1
  BY <1>3 DEF MatchInv, MatchTypes
<1>5. /\ current' \in [EventTasks -> Nat] /\ late' \in [EventTasks -> SUBSET Matchers]
      /\ \A u \in EventTasks \ {t} : current'[u] = current[u] /\ late'[u] = late[u]
  BY <1>1 DEF Pop, MatchInv, MatchTypes
<1>6. ContextOK(t)'
  <2>1. CASE n = 1
    BY <1>2, <1>4, <2>1 DEF ContextOK
  <2>2. CASE n > 1
    <3>1. frames # <<>> /\ frames[Len(frames)] = dispatches[t][n - 1] /\ n - 1 \in 1..n - 1
      BY <1>1, <1>2, <2>2
    <3>2. frames[Len(frames)].at > 0
      BY <1>1, <3>1
    <3> QED
      BY <1>2, <1>4, <3>1, <3>2 DEF ContextOK, Innermost
  <2>3. n = 1 \/ n > 1
    <3> HIDE DEF n
    <3> QED
      BY <1>1
  <2> QED
    BY <2>1, <2>2, <2>3, Zenon
<1>7. ASSUME NEW i \in 1..n - 1 PROVE FrameOK(t, i)'
  <2>1. dispatches'[t][i] = dispatches[t][i] /\ Len(dispatches'[t]) = n - 1
    BY <1>1, <1>2, <1>4
  <2>2. FrameOK(t, i) /\ dispatches[t][i].at > 0
    BY <1>1
  <2>3. late'[t] = late[t]
    <3>1. n # 1
      <4> HIDE DEF n
      <4> QED
        BY <1>1
    <3>2. late' = [late EXCEPT ![t] = IF n = 1 THEN {} ELSE late[t]]
      BY DEF Pop, MatchInv, MatchTypes
    <3> HIDE DEF n
    <3> QED
      BY <3>1, <3>2 DEF MatchInv, MatchTypes
  <2> QED
    BY <2>1, <2>2, <2>3 DEF FrameOK, IsOffered, IsRegistered
<1>8. TaskOK(t)'
  BY <1>2, <1>4, <1>6, <1>7 DEF TaskOK
<1> QED
  BY <1>2, <1>3, <1>5, <1>8, TaskStep

\* The invariant is inductive: one step per action.
LEMMA MatchNextInv == MatchInv /\ [MatchNext]_matchVars => MatchInv'
<1> SUFFICES ASSUME MatchInv, [MatchNext]_matchVars PROVE MatchInv'
  OBVIOUS
<1>t. MatchTypes
  BY DEF MatchInv
<1>1. ASSUME NEW p \in PluginIds, NEW x \in Matchers, NEW m \in Managers \cup {Nobody},
             Handle(m, p, x)
      PROVE  MatchInv'
  <2>1. count' \in [Matchers -> Nat] /\ Dispatching
    BY <1>t, <1>1 DEF Handle, MatchTypes
  <2>4. late' = late
    BY <1>1 DEF Handle
  <2>2. CASE m = Nobody
    <3>1. UNCHANGED ofManager /\ (ofNobody' = ofNobody \/ ofNobody' = Append(ofNobody, x))
      BY <1>1, <2>2 DEF Handle
    <3>2. /\ ofNobody' \in Seq(Matchers)
          /\ \A i \in 1..Len(ofNobody) : i \in 1..Len(ofNobody') /\ ofNobody'[i] = ofNobody[i]
      <4>1. ofNobody \in Seq(Matchers)
        BY <1>t DEF MatchTypes
      <4>2. CASE ofNobody' = ofNobody
        BY <4>1, <4>2
      <4>3. CASE ofNobody' = Append(ofNobody, x)
        BY <4>1, <4>3
      <4> QED
        BY <3>1, <4>2, <4>3
    <3>4. scope' = scope
      BY <2>1 DEF Dispatching
    <3>3. \A u, y : IsOffered(u, y) => IsOffered(u, y)'
      BY <2>4, <3>1, <3>2, <3>4 DEF IsOffered, IsRegistered
    <3> QED
      BY <1>t, <2>1, <2>4, <3>1, <3>2, <3>3, RegistryStep DEF MatchTypes
  <2>3. CASE m # Nobody
    <3>1. PICK s \in Seq(Registrations) :
            /\ ofManager' = [ofManager EXCEPT ![m] = s] /\ UNCHANGED ofNobody
            /\ \A i \in 1..Len(ofManager[m]) : \E j \in 1..Len(s) : s[j] = ofManager[m][i]
      <4>1. m \in Managers /\ ofManager[m] \in Seq(Registrations)
        BY <1>t, <2>3 DEF MatchTypes
      <4>2. CASE Contains(ofManager[m], Entry(p, x))
        BY <1>t, <1>1, <2>3, <4>1, <4>2 DEF Handle, MatchTypes
      <4>3. CASE ~Contains(ofManager[m], Entry(p, x))
        <5>1. ofManager' = [ofManager EXCEPT ![m] = Added(ofManager[m], p, x)]
              /\ UNCHANGED ofNobody
          BY <1>t, <1>1, <2>3, <4>1, <4>3 DEF Handle, MatchTypes
        <5> QED
          BY <4>1, <5>1, AddedKeeps
      <4> QED
        BY <4>2, <4>3
    <3>2. ofManager' \in [Managers -> Seq(Registrations)]
      BY <1>t, <3>1 DEF MatchTypes
    <3>3. ASSUME NEW t \in EventTasks, NEW y \in Matchers, IsOffered(t, y)
          PROVE  IsOffered(t, y)'
      <4>1. scope' = scope /\ scope[t] \in Managers \cup {Nobody}
        BY <1>t, <2>1 DEF Dispatching, MatchTypes
      <4>2. CASE \E i \in 1..Len(ofNobody) : ofNobody[i] = y
        BY <3>1, <4>2 DEF IsOffered, IsRegistered
      <4>3. CASE scope[t] # Nobody /\ \E i \in 1..Len(ofManager[scope[t]]) :
                                       ofManager[scope[t]][i].matcher = y
        <5>1. PICK i \in 1..Len(ofManager[scope[t]]) : ofManager[scope[t]][i].matcher = y
          BY <4>3
        <5>2. \E j \in 1..Len(ofManager'[scope[t]]) : ofManager'[scope[t]][j] = ofManager[scope[t]][i]
          BY <1>t, <3>1, <4>1, <4>3 DEF MatchTypes
        <5> QED
          BY <4>1, <4>3, <5>1, <5>2 DEF IsOffered, IsRegistered
      <4>4. CASE y \in late[t]
        BY <2>4, <4>4 DEF IsOffered
      <4> QED
        BY <3>3, <4>2, <4>3, <4>4 DEF IsOffered, IsRegistered
    <3> QED
      BY <1>t, <2>1, <2>4, <3>1, <3>2, <3>3, RegistryStep DEF MatchTypes
  <2> QED
    BY <2>2, <2>3
<1>2. ASSUME NEW m \in Managers, NEW s \in Seq(Registrations), Missed(m),
             ofManager' = [ofManager EXCEPT ![m] = s], UNCHANGED <<ofNobody, count>>, Dispatching
      PROVE  MatchInv'
  <2>1. ofManager' \in [Managers -> Seq(Registrations)] /\ count' \in [Matchers -> Nat]
    BY <1>t, <1>2 DEF MatchTypes
  <2>2. /\ late' \in [EventTasks -> SUBSET Matchers]
        /\ \A t \in EventTasks : late[t] \subseteq late'[t]
        /\ \A t \in EventTasks : scope[t] = m /\ dispatches[t] # <<>> =>
             Names(ofManager[m]) \ Names(ofManager'[m]) \subseteq late'[t]
    <3>1. Names(ofManager[m]) \subseteq Matchers
      <4>1. ofManager[m] \in Seq(Registrations)
        BY <1>t DEF MatchTypes
      <4>2. \A i \in DOMAIN ofManager[m] : ofManager[m][i] \in Registrations
        BY <4>1
      <4> QED
        BY <4>2 DEF Names, Registrations
    <3>2. late \in [EventTasks -> SUBSET Matchers]
      BY <1>t DEF MatchTypes
    <3> HIDE DEF Names
    <3> QED
      BY <1>2, <3>1, <3>2 DEF Missed
  <2>3. ASSUME NEW t \in EventTasks, dispatches[t] # <<>>, NEW x \in Matchers, IsOffered(t, x)
        PROVE  IsOffered(t, x)'
    <3>1. scope' = scope /\ scope[t] \in Managers \cup {Nobody}
      BY <1>t, <1>2 DEF Dispatching, MatchTypes
    <3>2. CASE x \in late[t]
      BY <2>2, <3>2 DEF IsOffered
    <3>3. CASE \E i \in 1..Len(ofNobody) : ofNobody[i] = x
      BY <1>2, <3>3 DEF IsOffered, IsRegistered
    <3>4. CASE /\ scope[t] # Nobody
               /\ \E i \in 1..Len(ofManager[scope[t]]) : ofManager[scope[t]][i].matcher = x
      <4>1. CASE scope[t] # m
        <5>1. ofManager'[scope[t]] = ofManager[scope[t]]
          BY <1>t, <1>2, <3>1, <3>4, <4>1 DEF MatchTypes
        <5> QED
          BY <3>1, <3>4, <5>1 DEF IsOffered, IsRegistered
      <4>2. CASE scope[t] = m
        <5>1. x \in Names(ofManager[m])
          BY <1>t, <3>4, <4>2 DEF Names, MatchTypes
        <5>2. CASE x \in Names(ofManager'[m])
          <6>1. ofManager'[m] \in Seq(Registrations)
            BY <2>1
          <6>2. \E i \in 1..Len(ofManager'[m]) : ofManager'[m][i].matcher = x
            BY <5>2, <6>1 DEF Names
          <6> QED
            BY <3>1, <3>4, <4>2, <6>2 DEF IsOffered, IsRegistered
        <5>3. CASE x \notin Names(ofManager'[m])
          BY <2>2, <2>3, <4>2, <5>1, <5>3 DEF IsOffered
        <5> QED
          BY <5>2, <5>3
      <4> QED
        BY <4>1, <4>2
    <3> QED
      BY <2>3, <3>2, <3>3, <3>4 DEF IsOffered, IsRegistered
  <2> QED
    BY <1>t, <1>2, <2>1, <2>2, <2>3, RegistryStep DEF MatchTypes
<1>3. ASSUME NEW m \in Managers, RemoveManager(m) PROVE MatchInv'
  <2>1. <<>> \in Seq(Registrations)
    OBVIOUS
  <2> QED
    BY <1>2, <1>3, <2>1 DEF RemoveManager
<1>4. ASSUME NEW m \in Managers, NEW p \in PluginIds, RemovePlugin(m, p) PROVE MatchInv'
  <2>1. Without(ofManager[m], p) \in Seq(Registrations)
    BY <1>t, WithoutTyped DEF MatchTypes
  <2>2. ofManager' = [ofManager EXCEPT ![m] = Without(ofManager[m], p)]
    BY <1>t, <1>4 DEF RemovePlugin, MatchTypes
  <2> QED
    BY <1>2, <1>4, <2>1, <2>2 DEF RemovePlugin
<1>5. ASSUME NEW t \in EventTasks, OnMessage(t) PROVE MatchInv'
  <2> DEFINE n == Len(dispatches[t])
             frame == [todo |-> MatchersFor(scope[t]), at |-> 0, handled |-> FALSE, before |-> 0]
             frames == Append(dispatches[t], frame)
  <2>1. scope[t] \in Managers \cup {Nobody} /\ dispatches[t] \in Seq(Frames) /\ n \in Nat
    BY <1>t DEF MatchTypes
  <2>2. dispatches' = [dispatches EXCEPT ![t] = frames]
        /\ UNCHANGED <<count, scope, current, late, ofManager, ofNobody>>
    BY <1>t, <1>5 DEF OnMessage, Registry, MatchTypes
  <2> DEFINE own == IF scope[t] = Nobody THEN <<>> ELSE Named(ofManager[scope[t]])
  <2>3. /\ own \in Seq(Matchers)
        /\ \A i \in 1..Len(own) : IsRegistered(scope[t], own[i])
    <3>1. CASE scope[t] = Nobody
      BY <3>1
    <3>2. CASE scope[t] # Nobody
      <4> DEFINE s == ofManager[scope[t]]
      <4>1. s \in Seq(Registrations) /\ DOMAIN s = 1..Len(s) /\ Len(s) \in Nat
        BY <1>t, <2>1, <3>2 DEF MatchTypes
      <4>2. own = [i \in 1..Len(s) |-> s[i].matcher]
        BY <3>2, <4>1 DEF Named
      <4> HIDE DEF s, own
      <4>3. \A i \in 1..Len(s) : s[i].matcher \in Matchers
        <5>1. \A i \in 1..Len(s) : s[i] \in Registrations
          BY <4>1
        <5>2. \A y \in Registrations : y.matcher \in Matchers
          BY DEF Registrations
        <5> QED
          BY <5>1, <5>2
      <4>4. own \in Seq(Matchers) /\ Len(own) = Len(s)
        BY <4>1, <4>2, <4>3
      <4>5. \A i \in 1..Len(own) : own[i] = s[i].matcher
        BY <4>2, <4>4
      <4> QED
        BY <3>2, <4>4, <4>5 DEF IsRegistered, s
    <3> QED
      BY <3>1, <3>2
  <2>4. MatchersFor(scope[t]) = own \o ofNobody
    BY DEF MatchersFor
  <2> HIDE DEF own
  <2>5. /\ own \o ofNobody \in Seq(Matchers)
        /\ \A i \in 1..Len(own \o ofNobody) : IsRegistered(scope[t], (own \o ofNobody)[i])
    <3>1. ofNobody \in Seq(Matchers)
      BY <1>t DEF MatchTypes
    <3>2. /\ own \o ofNobody \in Seq(Matchers)
          /\ Len(own \o ofNobody) = Len(own) + Len(ofNobody)
          /\ \A i \in 1..Len(own) + Len(ofNobody) :
               (own \o ofNobody)[i] = IF i <= Len(own) THEN own[i] ELSE ofNobody[i - Len(own)]
      BY <2>3, <3>1, ConcatProperties
    <3>3. ASSUME NEW i \in 1..Len(own) + Len(ofNobody)
          PROVE  IsRegistered(scope[t], (own \o ofNobody)[i])
      <4>1. Len(own) \in Nat /\ Len(ofNobody) \in Nat
        BY <2>3, <3>1
      <4>2. CASE i <= Len(own)
        BY <2>3, <3>2, <4>1, <4>2
      <4>3. CASE ~(i <= Len(own))
        <5>1. i - Len(own) \in 1..Len(ofNobody)
          BY <4>1, <4>3
        <5> QED
          BY <3>2, <4>3, <5>1 DEF IsRegistered
      <4> QED
        BY <4>2, <4>3
    <3> QED
      BY <3>2, <3>3
  <2>6. /\ frame \in Frames /\ frame.at = 0
        /\ \A j \in 1..Len(frame.todo) : IsOffered(t, frame.todo[j])
    BY <2>4, <2>5 DEF Frames, IsOffered
  <2> HIDE DEF frame
  <2>7. /\ frames \in Seq(Frames) /\ Len(frames) = n + 1 /\ frames[n + 1] = frame
        /\ \A i \in 1..n : frames[i] = dispatches[t][i]
    BY <2>1, <2>6
  <2> HIDE DEF frames
  <2>8. dispatches'[t] = frames /\ current'[t] = current[t]
    BY <1>t, <2>2 DEF MatchTypes
  <2>9. current[t] = n /\ (n > 0 => dispatches[t][n].at > 0)
    <3>1. CASE dispatches[t] = <<>>
      BY <3>1 DEF MatchInv, TaskOK, ContextOK
    <3>2. CASE dispatches[t] # <<>>
      <4>1. Runs(t)
        BY <1>5, <3>2 DEF OnMessage
      <4> QED
        BY <3>2, <4>1, TheInnermost DEF Runs
    <3> QED
      BY <3>1, <3>2
  <2>10. ContextOK(t)'
    BY <2>1, <2>6, <2>7, <2>8, <2>9 DEF ContextOK, Innermost
  <2>11. ASSUME NEW i \in 1..n + 1 PROVE FrameOK(t, i)'
    <3>1. CASE i = n + 1
      <4>1. dispatches'[t][i] = frame /\ Len(dispatches'[t]) = n + 1
        BY <2>7, <2>8, <3>1
      <4>2. ~(i < n + 1) /\ ~(frame.at > 0)
        BY <2>1, <2>6, <3>1
      <4> QED
        <5>2. scope' = scope /\ \A j \in 1..Len(frame.todo) : IsOffered(t, frame.todo[j])
          BY <2>2, <2>6
        <5>3. \A j \in 1..Len(dispatches'[t][i].todo) :
                IsOffered(t, dispatches'[t][i].todo[j])
          BY <4>1, <5>2
        <5>4. (\A j \in 1..Len(dispatches[t][i].todo) :
                 IsOffered(t, dispatches[t][i].todo[j]))'
          BY <2>2, <5>3 DEF IsOffered, IsRegistered
        <5> QED
          BY <4>1, <4>2, <5>4 DEF FrameOK
    <3>2. CASE i # n + 1
      <4>1. i \in 1..n
        BY <2>1, <3>2
      <4>2. FrameOK(t, i) /\ dispatches[t][i].at > 0
        <5>1. FrameOK(t, i)
          BY <4>1 DEF MatchInv, TaskOK
        <5>2. CASE i = n
          <6>1. n > 0
            BY <2>1, <4>1, <5>2
          <6> QED
            BY <2>9, <5>1, <5>2, <6>1
        <5>3. CASE i < n
          BY <5>1, <5>3 DEF FrameOK
        <5> QED
          BY <2>1, <4>1, <5>1, <5>2, <5>3
      <4>3. dispatches'[t][i] = dispatches[t][i] /\ Len(dispatches'[t]) = n + 1
        BY <2>7, <2>8, <4>1
      <4> QED
        BY <2>2, <4>2, <4>3 DEF FrameOK, IsOffered, IsRegistered
    <3> QED
      BY <3>1, <3>2
  <2>12. TaskOK(t)'
    BY <2>7, <2>8, <2>10, <2>11 DEF TaskOK
  <2> QED
    BY <1>t, <2>2, <2>7, <2>12, TaskStep DEF MatchTypes
<1>6. ASSUME NEW t \in EventTasks, NotMatched(t) PROVE MatchInv'
  <2> DEFINE f == Innermost(t)
  <2>1. /\ dispatches[t] # <<>> /\ f.at = 0 /\ f.todo # <<>>
        /\ SetInnermost(t, [f EXCEPT !.todo = Tail(@)])
        /\ UNCHANGED <<count, scope, current, late, ofManager, ofNobody>>
    BY <1>6 DEF NotMatched, Between, Registry
  <2>2. /\ f \in Frames /\ FrameOK(t, Len(dispatches[t])) /\ f = dispatches[t][Len(dispatches[t])]
        /\ current[t] = Len(dispatches[t]) - 1 /\ current[t] \in Nat
    BY <1>t, <2>1, TheInnermost DEF MatchTypes
  <2>3. /\ f.todo \in Seq(Matchers) /\ Tail(f.todo) \in Seq(Matchers)
        /\ Len(Tail(f.todo)) = Len(f.todo) - 1
        /\ \A j \in 1..Len(f.todo) - 1 : Tail(f.todo)[j] = f.todo[j + 1]
    BY <2>1, <2>2 DEF Frames
  <2> DEFINE frame == [f EXCEPT !.todo = Tail(@)]
  <2>4. frame \in Frames /\ frame.at = 0 /\ frame.todo = Tail(f.todo)
    BY <2>1, <2>2, <2>3 DEF Frames
  <2>5. \A j \in 1..Len(f.todo) : IsOffered(t, f.todo[j])
    BY <2>2 DEF FrameOK
  <2> HIDE DEF frame, f
  <2>6. ASSUME NEW j \in 1..Len(frame.todo) PROVE IsOffered(t, frame.todo[j])
    <3>1. frame.todo[j] = f.todo[j + 1] /\ j + 1 \in 1..Len(f.todo)
      BY <2>3, <2>4
    <3> QED
      BY <2>5, <3>1
  <2>7. SetInnermost(t, frame) /\ current' = [current EXCEPT ![t] = current[t]]
    BY <1>t, <2>1 DEF frame, MatchTypes
  <2>8. /\ current[t] = IF frame.at > 0 THEN Len(dispatches[t]) ELSE Len(dispatches[t]) - 1
        /\ frame.at > 0 => frame.todo # <<>> /\ frame.before = Len(dispatches[t]) - 1
    BY <2>2, <2>4
  <2> QED
    BY <2>1, <2>2, <2>4, <2>6, <2>7, <2>8, Replaced
<1>7. ASSUME NEW t \in EventTasks, Matched(t) PROVE MatchInv'
  <2> DEFINE f == Innermost(t)
             frame == [f EXCEPT !.at = 1, !.handled = FALSE, !.before = current[t]]
  <2>1. /\ dispatches[t] # <<>> /\ f.at = 0 /\ f.todo # <<>>
        /\ SetInnermost(t, frame) /\ current' = [current EXCEPT ![t] = Len(dispatches[t])]
        /\ UNCHANGED <<count, scope, late, ofManager, ofNobody>>
    BY <1>7 DEF Matched, Between, Registry
  <2>2. /\ f \in Frames /\ FrameOK(t, Len(dispatches[t])) /\ f = dispatches[t][Len(dispatches[t])]
        /\ current[t] = Len(dispatches[t]) - 1 /\ current[t] \in Nat
        /\ Len(dispatches[t]) \in Nat
    BY <1>t, <2>1, TheInnermost DEF MatchTypes
  <2>3. /\ frame \in Frames /\ frame.at = 1 /\ frame.todo = f.todo
        /\ frame.before = Len(dispatches[t]) - 1
    BY <2>2 DEF Frames
  <2>4. \A j \in 1..Len(f.todo) : IsOffered(t, f.todo[j])
    BY <2>2 DEF FrameOK
  <2> HIDE DEF frame, f
  <2> DEFINE now == Len(dispatches[t])
  <2>5. /\ now = IF frame.at > 0 THEN Len(dispatches[t]) ELSE Len(dispatches[t]) - 1
        /\ frame.at > 0 => frame.todo # <<>> /\ frame.before = Len(dispatches[t]) - 1
        /\ \A j \in 1..Len(frame.todo) : IsOffered(t, frame.todo[j])
    BY <2>1, <2>3, <2>4
  <2>6. now \in Nat /\ current' = [current EXCEPT ![t] = now]
        /\ UNCHANGED <<ofManager, ofNobody, count, scope, late>>
    BY <2>1, <2>2
  <2> HIDE DEF now
  <2> QED
    BY <2>1, <2>3, <2>5, <2>6, Replaced
<1>8. ASSUME NEW t \in EventTasks, NoneLeft(t) PROVE MatchInv'
  <2>1. /\ dispatches[t] # <<>> /\ Innermost(t).at = 0 /\ Pop(t)
        /\ UNCHANGED <<count, scope, current, ofManager, ofNobody>>
    BY <1>8 DEF NoneLeft, Between, Registry
  <2>2. current[t] = Len(dispatches[t]) - 1
    BY <2>1, TheInnermost
  <2>3. current' = [current EXCEPT ![t] = Len(dispatches[t]) - 1]
    BY <1>t, <2>1, <2>2 DEF MatchTypes
  <2> QED
    BY <2>1, <2>3, Popped
<1>9. ASSUME NEW t \in EventTasks, HandlerRaises(t) PROVE MatchInv'
  <2>1. /\ dispatches[t] # <<>> /\ Innermost(t).at > 0 /\ Pop(t)
        /\ current' = [current EXCEPT ![t] = Innermost(t).before]
        /\ UNCHANGED <<count, scope, ofManager, ofNobody>>
    BY <1>9 DEF HandlerRaises, Runs, Registry, Restored
  <2>2. Innermost(t).before = Len(dispatches[t]) - 1
    BY <2>1, TheInnermost DEF FrameOK
  <2> QED
    BY <2>1, <2>2, Popped
<1>10. ASSUME NEW t \in EventTasks, NEW handled \in BOOLEAN, HandlerReturns(t, handled)
       PROVE  MatchInv'
  <2> DEFINE f == Innermost(t)
             n == Len(dispatches[t])
             all == f.handled \/ handled
  <2>1. /\ dispatches[t] # <<>> /\ f.at > 0
        /\ UNCHANGED <<count, scope, ofManager, ofNobody>>
    BY <1>10 DEF HandlerReturns, Runs, Registry
  <2>2. /\ f \in Frames /\ FrameOK(t, n) /\ f = dispatches[t][n] /\ n \in Nat \ {0}
        /\ current[t] = n /\ f.before = n - 1 /\ f.todo # <<>>
    BY <2>1, TheInnermost DEF FrameOK
  <2>3. \A j \in 1..Len(f.todo) : IsOffered(t, f.todo[j])
    BY <2>2 DEF FrameOK
  <2>4. all \in BOOLEAN
    OBVIOUS
  <2>5. \/ /\ SetInnermost(t, [f EXCEPT !.at = @ + 1, !.handled = all])
           /\ UNCHANGED <<current, late>>
        \/ /\ Pop(t) /\ current' = [current EXCEPT ![t] = f.before]
        \/ /\ SetInnermost(t, [f EXCEPT !.at = 0, !.todo = Tail(@)]) /\ UNCHANGED late
           /\ current' = [current EXCEPT ![t] = f.before]
    BY <1>10 DEF HandlerReturns
  <2> HIDE DEF f, all
  <2>6. CASE SetInnermost(t, [f EXCEPT !.at = @ + 1, !.handled = all]) /\ UNCHANGED <<current, late>>
    <3>h. PICK h \in BOOLEAN : SetInnermost(t, [f EXCEPT !.at = @ + 1, !.handled = h])
      BY <2>4, <2>6, Zenon
    <3> DEFINE frame == [f EXCEPT !.at = @ + 1, !.handled = h]
    <3>1. /\ frame \in Frames /\ frame.at > 0 /\ frame.todo = f.todo /\ frame.before = f.before
      <4>1. f.at \in Nat
        BY <2>2 DEF Frames
      <4>2. PICK k \in Nat : k = f.at + 1 /\ k > 0
        BY <4>1
      <4>3. \/ frame = [f EXCEPT !.at = k, !.handled = TRUE]
            \/ frame = [f EXCEPT !.at = k, !.handled = FALSE]
        BY <4>2
      <4> HIDE DEF frame
      <4>4. CASE frame = [f EXCEPT !.at = k, !.handled = TRUE]
        BY <2>2, <4>2, <4>4 DEF Frames
      <4>5. CASE frame = [f EXCEPT !.at = k, !.handled = FALSE]
        BY <2>2, <4>2, <4>5 DEF Frames
      <4> QED
        BY <4>3, <4>4, <4>5
    <3>2. current' = [current EXCEPT ![t] = n]
      BY <1>t, <2>2, <2>6 DEF MatchTypes
    <3> HIDE DEF frame
    <3>3. SetInnermost(t, frame)
      BY <3>h DEF frame
    <3>4. /\ n = IF frame.at > 0 THEN n ELSE n - 1
          /\ frame.at > 0 => frame.todo # <<>> /\ frame.before = n - 1
          /\ \A j \in 1..Len(frame.todo) : IsOffered(t, frame.todo[j])
      BY <2>2, <2>3, <3>1
    <3> QED
      BY <2>1, <2>2, <2>6, <3>1, <3>2, <3>3, <3>4, Replaced
  <2>7. CASE Pop(t) /\ current' = [current EXCEPT ![t] = f.before]
    BY <2>1, <2>2, <2>7, Popped
  <2>8. CASE /\ SetInnermost(t, [f EXCEPT !.at = 0, !.todo = Tail(@)]) /\ UNCHANGED late
             /\ current' = [current EXCEPT ![t] = f.before]
    <3>1. /\ f.todo \in Seq(Matchers) /\ Tail(f.todo) \in Seq(Matchers)
          /\ Len(Tail(f.todo)) = Len(f.todo) - 1
          /\ \A j \in 1..Len(f.todo) - 1 : Tail(f.todo)[j] = f.todo[j + 1]
      BY <2>2 DEF Frames
    <3> DEFINE frame == [f EXCEPT !.at = 0, !.todo = Tail(@)]
    <3>2. frame \in Frames /\ frame.at = 0 /\ frame.todo = Tail(f.todo)
      BY <2>2, <3>1 DEF Frames
    <3> HIDE DEF frame
    <3>3. ASSUME NEW j \in 1..Len(frame.todo) PROVE IsOffered(t, frame.todo[j])
      <4>1. frame.todo[j] = f.todo[j + 1] /\ j + 1 \in 1..Len(f.todo)
        BY <3>1, <3>2
      <4> QED
        BY <2>3, <4>1
    <3>4. SetInnermost(t, frame)
      BY <2>8 DEF frame
    <3>5. /\ f.before \in Nat
          /\ f.before = IF frame.at > 0 THEN n ELSE n - 1
          /\ frame.at > 0 => frame.todo # <<>> /\ frame.before = n - 1
      BY <2>2, <3>2
    <3> QED
      BY <2>1, <2>2, <2>8, <3>2, <3>3, <3>4, <3>5, Replaced
  <2> QED
    BY <2>5, <2>6, <2>7, <2>8
<1>11. CASE UNCHANGED matchVars
  <2>1. Dispatching /\ UNCHANGED <<ofManager, ofNobody, count, scope, late>>
    BY <1>11 DEF matchVars, Dispatching
  <2> QED
    BY <1>t, <2>1, RegistryStep DEF MatchTypes, IsOffered, IsRegistered
<1> QED
  BY <1>1, <1>3, <1>4, <1>5, <1>6, <1>7, <1>8, <1>9, <1>10, <1>11 DEF MatchNext

\* What the invariant says of the handler that runs.
LEMMA MatchersOwn == MatchInv => HandlersAreOwn
<1> SUFFICES ASSUME MatchInv PROVE HandlersAreOwn
  OBVIOUS
<1>1. CurrentIsOwn
  BY DEF MatchInv, TaskOK, ContextOK, CurrentIsOwn, Runs
<1>2. ASSUME NEW t \in EventTasks, Runs(t)
      PROVE  LET x == Head(Innermost(t).todo)
             IN  \/ Contains(ofNobody, x)
                 \/ scope[t] # Nobody /\ x \in Names(ofManager[scope[t]])
                 \/ x \in late[t]
  <2> DEFINE rest == Innermost(t).todo
  <2>1. /\ Innermost(t) \in Frames /\ Innermost(t) = dispatches[t][Len(dispatches[t])]
        /\ FrameOK(t, Len(dispatches[t])) /\ Innermost(t).at > 0
    BY <1>2, TheInnermost DEF Runs
  <2>2. /\ rest \in Seq(Matchers) /\ rest # <<>>
        /\ \A j \in 1..Len(rest) : IsOffered(t, rest[j])
    BY <2>1 DEF FrameOK, Frames
  <2> HIDE DEF rest
  <2>3. Head(rest) = rest[1] /\ 1 \in 1..Len(rest)
    BY <2>2
  <2>4. IsOffered(t, Head(rest))
    BY <2>2, <2>3
  <2>5. scope[t] # Nobody => DOMAIN ofManager[scope[t]] = 1..Len(ofManager[scope[t]])
    BY DEF MatchInv, MatchTypes
  <2> QED
    BY <2>4, <2>5 DEF IsOffered, IsRegistered, Contains, Names, rest
<1> QED
  BY <1>1, <1>2 DEF HandlersAreOwn, RunsRegistered

\* A handler finds its own event in the context, and its matcher is registered
\* for that event's manager, or was removed while the event was handled, however
\* dispatches nest and end.
THEOREM MatchersRunTheirOwn == MatchSpec => []HandlersAreOwn
<1> QED
  BY MatchInitInv, MatchNextInv, MatchersOwn, PTL DEF MatchSpec

----------------------------------------------------------------------------
(* The types of the components, and of all of them together.                *)

\* The bounds of the model: handlers of a matcher, dispatches inside each other.
HandlersBounded == \A x \in Matchers : count[x] <= MaxHandlers
NestingBounded == \A t \in EventTasks : Len(dispatches[t]) <= MaxNesting

LEMMA HandlersStayBounded ==
  ASSUME MatchInv, HandlersBounded, [MatchNext]_matchVars
  PROVE  HandlersBounded'
<1> USE MatcherAssumption DEF HandlersBounded
<1>1. count \in [Matchers -> Nat]
  BY DEF MatchInv, MatchTypes
<1>2. ASSUME NEW p \in PluginIds, NEW x \in Matchers, NEW m \in Managers \cup {Nobody}, Handle(m, p, x)
      PROVE  HandlersBounded'
  BY <1>1, <1>2 DEF Handle
<1>3. CASE UNCHANGED count
  BY <1>3
<1>4. UNCHANGED count \/ \E p \in PluginIds, x \in Matchers, m \in Managers \cup {Nobody} : Handle(m, p, x)
  BY Zenon DEF MatchNext, RemoveManager, RemovePlugin, OnMessage, NotMatched, Matched, NoneLeft, HandlerRaises,
         HandlerReturns, matchVars
<1> QED
  BY <1>2, <1>3, <1>4

LEMMA NestingStaysBounded ==
  ASSUME MatchInv, MatchInv', NestingBounded, [MatchNext]_matchVars
  PROVE  NestingBounded'
<1>1. /\ dispatches \in [EventTasks -> Seq(Frames)] /\ dispatches' \in [EventTasks -> Seq(Frames)]
      /\ MaxNesting \in Nat \ {0}
  BY MatcherAssumption DEF MatchInv, MatchTypes
<1>2. ASSUME NEW t \in EventTasks, Len(dispatches'[t]) <= MaxNesting,
             \A u \in EventTasks : u # t => dispatches'[u] = dispatches[u]
      PROVE  NestingBounded'
  BY <1>2 DEF NestingBounded
<1>3. ASSUME NEW t \in EventTasks, OnMessage(t) PROVE NestingBounded'
  <2> DEFINE frame == [todo |-> MatchersFor(scope[t]), at |-> 0, handled |-> FALSE, before |-> 0]
  <2>1. /\ dispatches[t] = <<>> \/ Len(dispatches[t]) < MaxNesting
        /\ dispatches' = [dispatches EXCEPT ![t] = Append(@, frame)]
    BY <1>3 DEF OnMessage
  <2> HIDE DEF frame
  <2>2. dispatches'[t] = Append(dispatches[t], frame)
    BY <1>1, <2>1
  <2>3. Len(dispatches'[t]) = Len(dispatches[t]) + 1 /\ Len(dispatches[t]) \in Nat
    <3>1. dispatches[t] \in Seq(Frames)
      BY <1>1
    <3> QED
      BY <2>2, <3>1
  <2>4. Len(dispatches'[t]) <= MaxNesting
    BY <1>1, <2>1, <2>3
  <2> QED
    BY <1>1, <1>2, <2>1, <2>4
<1>4. ASSUME NEW t \in EventTasks, dispatches[t] # <<>>, NEW frame, SetInnermost(t, frame)
      PROVE  NestingBounded'
  <2>1. dispatches' = [dispatches EXCEPT ![t][Len(dispatches[t])] = frame]
    BY <1>4 DEF SetInnermost
  <2>2. dispatches'[t] = [dispatches[t] EXCEPT ![Len(dispatches[t])] = frame]
    BY <1>1, <2>1
  <2>3. DOMAIN dispatches'[t] = DOMAIN dispatches[t]
    BY <2>2
  <2>4. dispatches[t] \in Seq(Frames) /\ dispatches'[t] \in Seq(Frames)
    BY <1>1
  <2>5. Len(dispatches'[t]) = Len(dispatches[t])
    <3>1. /\ 1 .. Len(dispatches'[t]) = 1 .. Len(dispatches[t])
          /\ Len(dispatches[t]) \in Nat /\ Len(dispatches'[t]) \in Nat
      BY <2>3, <2>4
    <3> QED
      BY <3>1
  <2>6. Len(dispatches'[t]) <= MaxNesting
    BY <2>5 DEF NestingBounded
  <2> QED
    BY <1>1, <1>2, <2>1, <2>6
<1>5. ASSUME NEW t \in EventTasks, dispatches[t] # <<>>, Pop(t)
      PROVE  NestingBounded'
  <2>1. dispatches' = [dispatches EXCEPT ![t] = Front(@)]
    BY <1>5 DEF Pop
  <2>2. dispatches'[t] = Front(dispatches[t]) /\ dispatches[t] \in Seq(Frames)
    BY <1>1, <2>1
  <2>3. Len(dispatches'[t]) = Len(dispatches[t]) - 1 /\ Len(dispatches[t]) \in Nat
    BY <1>5, <2>2 DEF Front
  <2>4. Len(dispatches'[t]) <= MaxNesting
    BY <1>1, <2>3 DEF NestingBounded
  <2> QED
    BY <1>1, <1>2, <2>1, <2>4
<1>6. CASE UNCHANGED dispatches
  BY <1>6 DEF NestingBounded
<1>7. ASSUME NEW t \in EventTasks, NotMatched(t) \/ Matched(t) \/ NoneLeft(t) \/ HandlerRaises(t)
                                  \/ \E handled \in BOOLEAN : HandlerReturns(t, handled)
      PROVE  NestingBounded'
  <2>1. dispatches[t] # <<>> /\ (Pop(t) \/ \E frame : SetInnermost(t, frame))
    BY <1>7, Zenon DEF NotMatched, Matched, NoneLeft, HandlerRaises, HandlerReturns, Between, Runs
  <2> QED
    BY <1>4, <1>5, <2>1
<1>8. ASSUME NEW p \in PluginIds, NEW x \in Matchers, NEW m \in Managers \cup {Nobody}, Handle(m, p, x)
      PROVE  UNCHANGED dispatches
  BY <1>8 DEF Handle, Dispatching
<1>9. ASSUME NEW m \in Managers, RemoveManager(m) \/ \E p \in PluginIds : RemovePlugin(m, p)
      PROVE  UNCHANGED dispatches
  BY <1>9 DEF RemoveManager, RemovePlugin, Dispatching
<1> QED
  BY <1>3, <1>6, <1>7, <1>8, <1>9 DEF MatchNext, matchVars

MatchersInv == MatchInv /\ HandlersBounded /\ NestingBounded

LEMMA MatchersInitInv == MatchInit => MatchersInv
<1> SUFFICES ASSUME MatchInit PROVE MatchersInv
  OBVIOUS
<1>1. HandlersBounded
  BY MatcherAssumption DEF MatchInit, HandlersBounded
<1>2. ASSUME NEW t \in EventTasks PROVE Len(dispatches[t]) = 0
  BY DEF MatchInit
<1>3. NestingBounded
  BY <1>2, MatcherAssumption DEF NestingBounded
<1> QED
  BY <1>1, <1>3, MatchInitInv DEF MatchersInv

LEMMA MatchersStepInv == MatchersInv /\ [MatchNext]_matchVars => MatchersInv'
BY MatchNextInv, HandlersStayBounded, NestingStaysBounded DEF MatchersInv

LEMMA MatchersAreTyped == MatchersInv => MatchTypeOK
<1> SUFFICES ASSUME MatchersInv PROVE MatchTypeOK
  OBVIOUS
<1>1. MatchTypes /\ MaxHandlers \in Nat /\ MaxNesting \in Nat
  BY MatcherAssumption DEF MatchersInv, MatchInv
<1>2. ASSUME NEW t \in EventTasks PROVE Len(dispatches[t]) <= MaxNesting /\ current[t] \in 0..MaxNesting
  <2>1. Len(dispatches[t]) <= MaxNesting /\ ContextOK(t)
    BY DEF MatchersInv, MatchInv, TaskOK, NestingBounded
  <2>2. dispatches[t] \in Seq(Frames) /\ Len(dispatches[t]) \in Nat /\ current[t] \in Nat
    BY <1>1 DEF MatchTypes
  <2>3. current[t] <= Len(dispatches[t])
    BY <2>1, <2>2 DEF ContextOK
  <2> QED
    BY <1>1, <2>1, <2>2, <2>3
<1>3. count \in [Matchers -> 0..MaxHandlers]
  BY <1>1 DEF MatchersInv, HandlersBounded, MatchTypes
<1>4. \A i \in DOMAIN ofNobody : ofNobody[i] \in Matchers
  BY <1>1 DEF MatchTypes
<1>5. \A m \in Managers : \A i \in DOMAIN ofManager[m] :
        ofManager[m][i] \in [plugin : PluginIds, matcher : Matchers]
  <2> SUFFICES ASSUME NEW m \in Managers, NEW i \in DOMAIN ofManager[m]
               PROVE  ofManager[m][i] \in Registrations
    BY DEF Registrations
  <2>1. ofManager[m] \in Seq(Registrations)
    BY <1>1 DEF MatchTypes
  <2> QED
    BY <2>1
<1> QED
  BY <1>2, <1>3, <1>4, <1>5 DEF MatchTypeOK

\* The components of the run together: each keeps its types, whichever moves.
TogetherInv == moving \in Components /\ LoadInv /\ LegacyInv /\ MatchersInv

\* Types, for every value of the constants: of the plugins, and of the call stack
\* of _load_candidate(); of the matchers and the nested dispatches; of the old
\* loader's passes.
THEOREM PluginsTyped == HSpec => []PluginTypesOK
<1>1. HInit => TogetherInv
  BY InitLoads, LegacyInitInv, MatchersInitInv DEF HInit, MatchHere, PRest, LegacyRest, MatchRest, TogetherInv
<1>2. TogetherInv /\ [HNext]_allVars => TogetherInv'
  <2> SUFFICES ASSUME TogetherInv, [HNext]_allVars PROVE TogetherInv'
    OBVIOUS
  <2>1. UNCHANGED moving /\ [PNext]_pvars /\ [LegacyNext]_legacyVars /\ [MatchNext]_matchVars
    BY DEF HNext, allVars
  <2> QED
    BY <2>1, StepLoads, LegacyStepInv, MatchersStepInv DEF TogetherInv
<1>3. TogetherInv => PluginTypesOK
  <2>1. LegacyInv => LegacyTypeOK
    BY DEF LegacyInv, LegacyTyped, LegacyTypeOK
  <2> QED
    BY <2>1, MatchersAreTyped DEF TogetherInv, LoadInv, PluginTypesOK, Components
<1> QED
  BY <1>1, <1>2, <1>3, PTL DEF HSpec
=============================================================================

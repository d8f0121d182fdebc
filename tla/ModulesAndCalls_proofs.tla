--------------------------- MODULE ModulesAndCalls_proofs ---------------------------
(***************************************************************************)
(* Proofs about ModuleOwnership, whose generations stay apart and leave    *)
(* nothing of their own importer behind; Startup, which loads one adapter  *)
(* and all of it; ApiCalls, whose calls keep their word about what the     *)
(* platform has done; and Download, whose files are whole if each answer   *)
(* brings what was asked for.                                              *)
(***************************************************************************)
EXTENDS MCModulesAndCalls, LeastNumbers, SequenceTheorems, FiniteSetTheorems

----------------------------------------------------------------------------
(* ModuleOwnership: for any generations, modules and edits.                 *)

----------------------------------------------------------------------------
(* The invariant, one generation at a time.                                 *)

Isolated(g) ==
  /\ \A n \in NamesOf(g) : sysModules[n] # None => sysModules[n].of = g
  /\ \A m \in Modules :
       genModules[g][m] # None => genModules[g][m].of = g /\ genModules[g][m].edition = sources[g]
  /\ \A m \in Modules :
       attribute[g][m] # None =>
         /\ attribute[g][m].of = g
         /\ attribute[g][m].by = "plugin" => attribute[g][m].edition = sources[g]

Clean(g) ==
  phase[g] \in {"failed", "closed"} =>
    /\ g \notin matchers
    /\ NamesOf(g) \intersect logNames = {}
    /\ \A m \in Modules : genModules[g][m] = None
    /\ \A m \in Bodies :
         sysModules[NameOf(g, m)] # None =>
           /\ sysModules[NameOf(g, m)].by = "python"
           /\ m \in bare \/ phase[g] = "closed"

\* Before the entry is executed there is nothing.
Untouched(g) ==
  /\ phase[g] = "none" => sources[g] = None
  /\ phase[g] \in {"none", "snapshot"} =>
       /\ g \notin matchers /\ NamesOf(g) \intersect logNames = {}
       /\ \A m \in Modules : genModules[g][m] = None /\ attribute[g][m] = None
       /\ \A n \in NamesOf(g) : sysModules[n] = None

\* While code of the plugin may run, there are sources of the day.
Sourced(g) ==
  /\ stack[g] # <<>> => phase[g] \in {"importing"} \union Serving
  /\ phase[g] \in {"snapshot", "importing", "imported"} \union Serving => sources[g] \in Editions

\* The bodies on a stack: the entry at the bottom while the plugin is being
\* imported; and the generation knows every module its importer is executing.
Nested(g) ==
  /\ \A i \in 1 .. Len(stack[g]) : stack[g][i].mod = Entry <=> i = 1 /\ phase[g] = "importing"
  /\ \A i \in 1 .. Len(stack[g]) :
       stack[g][i].by = "plugin" /\ stack[g][i].mod # Entry
         => genModules[g][stack[g][i].mod] = stack[g][i]
  /\ \A i, j \in 1 .. Len(stack[g]) :
       stack[g][i].by = "plugin" /\ stack[g][j].by = "plugin"
         /\ stack[g][i].mod = stack[g][j].mod => i = j

\* What the plugin's importer has put under a module's name is the module that
\* the generation knows; the entry is recorded once it has returned.
Known(g) ==
  /\ \A m \in Modules :
       sysModules[NameOf(g, m)] # None /\ sysModules[NameOf(g, m)].by = "plugin"
         => genModules[g][m] = sysModules[NameOf(g, m)]
  /\ phase[g] = "imported" => Found(g) \subseteq owned[g]
  /\ phase[g] \in {"imported", "broken"} \union Serving /\ sysModules[NameOf(g, Entry)] # None
       => <<NameOf(g, Entry), sysModules[NameOf(g, Entry)]>> \in owned[g]

Whole(g) == Isolated(g) /\ Clean(g) /\ Untouched(g) /\ Sourced(g) /\ Nested(g) /\ Known(g)
OInv == OTypeOK /\ \A g \in Generations : Whole(g)

----------------------------------------------------------------------------
(* Bodies, names and objects.                                               *)

\* What is left of a stack when its innermost body ends.
LEMMA FrontOf ==
  ASSUME NEW s \in Seq(Object), s # <<>>
  PROVE  /\ Front(s) \in Seq(Object) /\ Len(s) \in Nat \ {0}
         /\ Len(Front(s)) = Len(s) - 1
         /\ \A i \in 1 .. Len(Front(s)) : i \in 1 .. Len(s) - 1 /\ Front(s)[i] = s[i]
         /\ \A i \in 1 .. Len(Front(s)) : i \in 1 .. Len(s)
         /\ Len(s) \in 1 .. Len(s) /\ s[Len(s)] \in Object
         /\ Len(s) = 1 => Front(s) = <<>>
<1>1. Len(s) \in Nat \ {0} /\ s[Len(s)] \in Object
  OBVIOUS
<1> DEFINE n == Len(s) - 1
<1>2. 1 \in 1 .. Len(s) + 1 /\ n \in 1 - 1 .. Len(s) /\ n - 1 + 1 = n
      /\ \A i \in 1 .. n : 1 + i - 1 = i
  BY <1>1
<1>3. /\ SubSeq(s, 1, n) \in Seq(Object) /\ Len(SubSeq(s, 1, n)) = n - 1 + 1
      /\ \A i \in 1 .. n - 1 + 1 : SubSeq(s, 1, n)[i] = s[1 + i - 1]
  BY <1>2, SubSeqProperties
<1>4. 1 .. Len(s) - 1 \subseteq 1 .. Len(s) /\ Len(s) \in 1 .. Len(s)
  BY <1>1
<1>5. Len(Front(s)) = Len(s) - 1
  BY <1>1, <1>2, <1>3 DEF Front
<1>6. \A i \in 1 .. Len(s) - 1 : Front(s)[i] = s[i]
  BY <1>1, <1>2, <1>3 DEF Front
<1>7. Front(s) \in Seq(Object)
  BY <1>1, <1>2, <1>3 DEF Front
<1>8. Len(s) = 1 => Front(s) = <<>>
  BY <1>5, <1>7, EmptySeq
<1> QED
  BY <1>1, <1>4, <1>5, <1>6, <1>7, <1>8

\* What a stack is when another body starts.
LEMMA AppendOf ==
  ASSUME NEW s \in Seq(Object), NEW o \in Object
  PROVE  /\ Append(s, o) \in Seq(Object) /\ Append(s, o) # <<>> /\ Len(s) \in Nat
         /\ Len(Append(s, o)) = Len(s) + 1
         /\ \A i \in 1 .. Len(s) : Append(s, o)[i] = s[i]
         /\ Append(s, o)[Len(s) + 1] = o
         /\ \A i \in 1 .. Len(Append(s, o)) :
              i \notin 1 .. Len(s) => i = Len(s) + 1 /\ Append(s, o)[i] = o
<1>1. Len(Append(s, o)) = Len(s) + 1 /\ Len(s) \in Nat
  OBVIOUS
<1>2. \A i \in 1 .. Len(s) + 1 : i \notin 1 .. Len(s) => i = Len(s) + 1 /\ Append(s, o)[i] = o
  BY <1>1
<1> QED
  BY <1>1, <1>2

\* The body that begins, if there is one, is the innermost.
LEMMA BeginAdds ==
  ASSUME OTypeOK, NEW g \in Generations, NEW new \in Object, Begin(g, new)
  PROVE  /\ stack' \in [Generations -> Seq(Object)]
         /\ \A h \in Generations : h # g => stack'[h] = stack[h]
         /\ stack[g] \in Seq(Object) /\ Len(stack[g]) \in Nat
         /\ \A i \in 1 .. Len(stack[g]) : stack'[g][i] = stack[g][i]
         /\ \A i \in 1 .. Len(stack'[g]) :
              i \notin 1 .. Len(stack[g]) => i = Len(stack[g]) + 1 /\ stack'[g][i] = new
<1>1. stack \in [Generations -> Seq(Object)] /\ stack[g] \in Seq(Object) /\ Len(stack[g]) \in Nat
  BY DEF OTypeOK
<1>2. CASE stack' = stack
  BY <1>1, <1>2
<1>3. CASE stack' = [stack EXCEPT ![g] = Append(stack[g], new)]
  <2>1. stack'[g] = Append(stack[g], new) /\ \A h \in Generations : h # g => stack'[h] = stack[h]
    BY <1>1, <1>3
  <2>2. stack' \in [Generations -> Seq(Object)]
    BY <1>1, <1>3, AppendOf
  <2> QED
    BY <1>1, <2>1, <2>2, AppendOf
<1> QED
  BY <1>2, <1>3 DEF Begin

\* Names are as different as their generations and modules.
LEMMA NamesDiffer ==
  /\ \A g \in Generations, m \in Bodies : NameOf(g, m) \in Names /\ NameOf(g, m) \in NamesOf(g)
  /\ \A g, h \in Generations, m, k \in Bodies : NameOf(g, m) = NameOf(h, k) <=> g = h /\ m = k
  /\ \A g \in Generations : \A n \in NamesOf(g) : n \in Names /\ \E m \in Bodies : n = NameOf(g, m)
  /\ \A g, h \in Generations : g # h => NamesOf(g) \intersect NamesOf(h) = {}
  /\ Modules \subseteq Bodies /\ Entry \in Bodies /\ Entry \notin Modules
  /\ \A m \in Bodies : m # Entry => m \in Modules
  BY OwnershipAssumption DEF NameOf, Names, NamesOf, Bodies

\* A module that is made is an object of its generation.
LEMMA MadeIs ==
  ASSUME NEW g \in Generations, NEW m \in Bodies, NEW by \in {"plugin", "python"},
         NEW e \in Editions
  PROVE  /\ Made(g, m, by, e) \in Object /\ Made(g, m, by, e) # None
         /\ Made(g, m, by, e).of = g /\ Made(g, m, by, e).mod = m
         /\ Made(g, m, by, e).by = by /\ Made(g, m, by, e).edition = e
  BY NoneIsNoObject DEF Made, Object


----------------------------------------------------------------------------
(* Types.                                                                   *)

\* A step of Discard() keeps the types.
LEMMA DiscardTypes ==
  ASSUME OTypeOK, NEW g \in Generations, NEW recorded, Discard(g, recorded)
  PROVE  /\ sysModules' \in [Names -> Object \union {None}]
         /\ \A n \in Names : sysModules'[n] \in {sysModules[n], None}
         /\ genModules' \in [Generations -> [Modules -> Object \union {None}]]
         /\ \A h \in Generations : h # g => genModules'[h] = genModules[h]
         /\ \A m \in Modules : genModules'[g][m] = None
         /\ attribute' \in [Generations -> [Modules -> Object \union {None}]]
         /\ \A h \in Generations : h # g => attribute'[h] = attribute[h]
         /\ \A m \in Modules : attribute'[g][m] = None
         /\ logNames' \subseteq Names /\ logNames' = logNames \ NamesOf(g)
         /\ sources' = [sources EXCEPT ![g] = None]
         /\ owned' = [owned EXCEPT ![g] = {}]
         /\ matchers' = matchers \ {g} /\ matchers' \subseteq Generations
<1>1. /\ genModules' = [genModules EXCEPT ![g] = [m \in Modules |-> None]]
      /\ attribute' = [attribute EXCEPT ![g] = [m \in Modules |-> None]]
      /\ logNames' = logNames \ NamesOf(g)
      /\ sources' = [sources EXCEPT ![g] = None]
      /\ owned' = [owned EXCEPT ![g] = {}]
      /\ matchers' = matchers \ {g}
  BY DEF Discard, Nothing
<1>2. sysModules' \in [Names -> Object \union {None}]
      /\ \A n \in Names : sysModules'[n] \in {sysModules[n], None}
  BY DEF Discard, DiscardModules, Without, OTypeOK
<1>3. /\ genModules' \in [Generations -> [Modules -> Object \union {None}]]
      /\ \A h \in Generations : h # g => genModules'[h] = genModules[h]
      /\ \A m \in Modules : genModules'[g][m] = None
  BY <1>1 DEF OTypeOK
<1>5. /\ attribute' \in [Generations -> [Modules -> Object \union {None}]]
      /\ \A h \in Generations : h # g => attribute'[h] = attribute[h]
      /\ \A m \in Modules : attribute'[g][m] = None
  BY <1>1 DEF OTypeOK
<1>4. logNames' \subseteq Names /\ matchers' \subseteq Generations
  BY <1>1 DEF OTypeOK
<1> QED
  BY <1>1, <1>2, <1>3, <1>4, <1>5

\* So does RemoveBodies().
LEMMA RemoveTypes ==
  ASSUME OTypeOK, NEW g \in Generations, NEW bodies \in SUBSET Object, RemoveBodies(g, bodies)
  PROVE  /\ sysModules' \in [Names -> Object \union {None}]
         /\ \A n \in Names : sysModules'[n] \in {sysModules[n], None}
         /\ \A o \in bodies, n \in Names :
              n = NameOf(g, o.mod) /\ (sysModules[n] = o \/ o.by = "python")
                => sysModules'[n] = None
         /\ genModules' \in [Generations -> [Modules -> Object \union {None}]]
         /\ \A h \in Generations : h # g => genModules'[h] = genModules[h]
         /\ \A m \in Modules : genModules'[g][m] \in {genModules[g][m], None}
         /\ \A m \in Modules : genModules'[g][m] # genModules[g][m]
              => \E o \in bodies : o.by = "plugin" /\ o.mod = m
         /\ attribute' \in [Generations -> [Modules -> Object \union {None}]]
         /\ \A h \in Generations : h # g => attribute'[h] = attribute[h]
         /\ \A m \in Modules : attribute'[g][m] \in {attribute[g][m], None}
         /\ logNames' \subseteq logNames
<1> DEFINE gone == {NameOf(g, o.mod) : o \in bodies}
           plugin == {o.mod : o \in {b \in bodies : b.by = "plugin"}}
<1>1. /\ sysModules' = [n \in Names |->
                          IF n \in gone /\ (sysModules[n] \in bodies
                               \/ \E o \in bodies : o.by = "python" /\ NameOf(g, o.mod) = n)
                          THEN None ELSE sysModules[n]]
      /\ genModules' = [genModules EXCEPT ![g] =
                          [m \in Modules |-> IF m \in plugin THEN None ELSE genModules[g][m]]]
      /\ attribute' = [attribute EXCEPT ![g] =
                         IF Package \in plugin THEN [m \in Modules |-> None]
                         ELSE [m \in Modules |-> IF Forgets(g, m, plugin) THEN None
                                                ELSE attribute[g][m]]]
      /\ logNames' = logNames \ {NameOf(g, m) : m \in plugin}
  BY DEF RemoveBodies, Nothing
<1>2. \A m : m \in plugin <=> \E o \in bodies : o.by = "plugin" /\ o.mod = m
  OBVIOUS
<1>3. \A n : n \in gone <=> \E o \in bodies : n = NameOf(g, o.mod)
  OBVIOUS
<1> HIDE DEF gone, plugin
<1>4. /\ sysModules' \in [Names -> Object \union {None}]
      /\ \A n \in Names : sysModules'[n] \in {sysModules[n], None}
  BY <1>1 DEF OTypeOK
<1>5. ASSUME NEW o \in bodies, NEW n \in Names, n = NameOf(g, o.mod),
             sysModules[n] = o \/ o.by = "python"
      PROVE  sysModules'[n] = None
  BY <1>1, <1>3, <1>5
<1>6. /\ genModules' \in [Generations -> [Modules -> Object \union {None}]]
      /\ \A h \in Generations : h # g => genModules'[h] = genModules[h]
      /\ \A m \in Modules : genModules'[g][m] = IF m \in plugin THEN None ELSE genModules[g][m]
  BY <1>1 DEF OTypeOK
<1>7. logNames' \subseteq logNames
  BY <1>1
<1>8. /\ attribute' \in [Generations -> [Modules -> Object \union {None}]]
      /\ \A h \in Generations : h # g => attribute'[h] = attribute[h]
      /\ \A m \in Modules : attribute'[g][m] \in {attribute[g][m], None}
  BY <1>1 DEF OTypeOK
<1> QED
  BY <1>2, <1>4, <1>5, <1>6, <1>7, <1>8

\* So does what is set on a package.
LEMMA SetTypes ==
  ASSUME OTypeOK, NEW g \in Generations, NEW m \in Modules, NEW o \in Object,
         SetOnPackage(g, m, o)
  PROVE  /\ attribute' \in [Generations -> [Modules -> Object \union {None}]]
         /\ \A h \in Generations : h # g => attribute'[h] = attribute[h]
         /\ \A k \in Modules : \/ attribute'[g][k] = attribute[g][k]
                               \/ k = m /\ attribute'[g][k] = o
<1>1. attribute' \in {attribute, [attribute EXCEPT ![g][m] = o]}
  BY DEF SetOnPackage
<1>2. attribute \in [Generations -> [Modules -> Object \union {None}]]
  BY DEF OTypeOK
<1> QED
  BY <1>1, <1>2

----------------------------------------------------------------------------
(* The steps.                                                               *)

\* What touches a generation only by taking modules, names or matchers away
\* leaves it whole.
LEMMA Frame ==
  ASSUME NEW g \in Generations, Whole(g),
         stack'[g] = stack[g], phase'[g] = phase[g], sources'[g] = sources[g],
         genModules'[g] = genModules[g], attribute'[g] = attribute[g],
         owned'[g] = owned[g], bare' = bare,
         g \in matchers' => g \in matchers,
         \A n \in NamesOf(g) : n \in logNames' => n \in logNames,
         \A n \in NamesOf(g) : sysModules'[n] \in {sysModules[n], None}
  PROVE  Whole(g)'
<1>1. Isolated(g)'
  BY DEF Whole, Isolated
<1>2. Clean(g)'
  BY NamesDiffer DEF Whole, Clean
<1>3. Untouched(g)' /\ Sourced(g)'
  BY DEF Whole, Untouched, Sourced
<1>4. Nested(g)'
  BY DEF Whole, Nested
<1>5. Found(g)' \subseteq Found(g)
  BY NamesDiffer DEF Found
<1>6. Known(g)'
  BY <1>5, NamesDiffer DEF Whole, Known
<1> QED
  BY <1>1, <1>2, <1>3, <1>4, <1>6 DEF Whole

\* An edit of the files disturbs no generation.
LEMMA EditKeeps == OInv /\ bare' = bare /\ Edit => OInv'
<1> SUFFICES ASSUME OInv, bare' = bare, Edit PROVE OInv'
  OBVIOUS
<1>1. OTypeOK'
  BY OwnershipAssumption DEF OInv, OTypeOK, Edit, tables, Editions
<1>2. ASSUME NEW g \in Generations PROVE Whole(g)'
  BY <1>2, Frame DEF OInv, Edit, tables
<1> QED
  BY <1>1, <1>2 DEF OInv

\* The sources of the day are read before there is any module.
LEMMA SnapshotKeeps == ASSUME OInv, bare' = bare, NEW g \in Generations, Snapshot(g) PROVE OInv'
<1>1. /\ phase[g] = "none" /\ phase' = [phase EXCEPT ![g] = "snapshot"]
      /\ sources' = [sources EXCEPT ![g] = disk]
      /\ UNCHANGED <<disk, stack, sysModules, genModules, attribute, logNames, owned, matchers>>
  BY DEF Snapshot, Becomes, tables
<1>2. OTypeOK'
  BY <1>1 DEF OInv, OTypeOK
<1>3. /\ phase'[g] = "snapshot" /\ sources'[g] = disk
      /\ \A h \in Generations : h # g => phase'[h] = phase[h] /\ sources'[h] = sources[h]
      /\ disk \in Editions
  BY <1>1 DEF OInv, OTypeOK
<1>4. Whole(g) /\ stack[g] = <<>>
  BY <1>1 DEF OInv, Whole, Sourced, Serving
<1>5. Whole(g)'
  <2>1. Isolated(g)' /\ Clean(g)' /\ Untouched(g)'
    BY <1>1, <1>3, <1>4, NamesDiffer DEF Whole, Isolated, Clean, Untouched
  <2>2. Sourced(g)' /\ Nested(g)'
    BY <1>1, <1>3, <1>4 DEF Whole, Sourced, Nested
  <2>3. Known(g)'
    BY <1>1, <1>3, <1>4, NamesDiffer DEF Whole, Untouched, Known, Serving
  <2> QED
    BY <2>1, <2>2, <2>3 DEF Whole
<1>6. ASSUME NEW h \in Generations, h # g PROVE Whole(h)'
  BY <1>1, <1>3, <1>6, Frame DEF OInv
<1> QED
  BY <1>2, <1>5, <1>6 DEF OInv

\* Without a loader the import fails before it has made anything.
LEMMA NoSpecKeeps == ASSUME OInv, bare' = bare, NEW g \in Generations, NoSpec(g) PROVE OInv'
<1>1. /\ phase[g] = "snapshot" /\ phase' = [phase EXCEPT ![g] = "failed"]
      /\ UNCHANGED <<disk, sources, stack, sysModules, genModules, attribute, logNames, owned, matchers>>
  BY DEF NoSpec, Becomes, tables
<1>2. OTypeOK'
  BY <1>1 DEF OInv, OTypeOK
<1>3. phase'[g] = "failed" /\ \A h \in Generations : h # g => phase'[h] = phase[h]
  BY <1>1 DEF OInv, OTypeOK
<1>4. Whole(g) /\ stack[g] = <<>>
  BY <1>1 DEF OInv, Whole, Sourced, Serving
<1>5. Whole(g)'
  <2>1. Isolated(g)' /\ Clean(g)' /\ Untouched(g)'
    BY <1>1, <1>3, <1>4, NamesDiffer DEF Whole, Isolated, Clean, Untouched
  <2>2. Sourced(g)' /\ Nested(g)'
    BY <1>1, <1>3, <1>4 DEF Whole, Sourced, Nested, Serving
  <2>3. Known(g)'
    BY <1>1, <1>3, <1>4, NamesDiffer DEF Whole, Known, Serving
  <2> QED
    BY <2>1, <2>2, <2>3 DEF Whole
<1>6. ASSUME NEW h \in Generations, h # g PROVE Whole(h)'
  BY <1>1, <1>3, <1>6, Frame DEF OInv
<1> QED
  BY <1>2, <1>5, <1>6 DEF OInv

\* The entry is the bottom of the stack.
LEMMA ExecEntryKeeps == ASSUME OInv, bare' = bare, NEW g \in Generations, ExecEntry(g) PROVE OInv'
<1> DEFINE entry == Made(g, Entry, "plugin", 0)
<1>1. /\ phase[g] = "snapshot" /\ phase' = [phase EXCEPT ![g] = "importing"]
      /\ stack' = [stack EXCEPT ![g] = <<entry>>]
      /\ sysModules' = [sysModules EXCEPT ![NameOf(g, Entry)] = entry]
      /\ logNames' = logNames \union {NameOf(g, Entry)}
      /\ UNCHANGED <<disk, sources, genModules, attribute, owned, matchers>>
  BY DEF ExecEntry, Becomes
<1>2. entry \in Object /\ entry # None /\ entry.of = g /\ entry.mod = Entry /\ entry.by = "plugin"
  <2>1. 0 \in Editions
    BY OwnershipAssumption DEF Editions
  <2> QED
    BY <2>1, MadeIs, NamesDiffer
<1> HIDE DEF entry
<1>3. /\ phase'[g] = "importing" /\ stack'[g] = <<entry>>
      /\ \A h \in Generations : h # g => phase'[h] = phase[h] /\ stack'[h] = stack[h]
      /\ sysModules'[NameOf(g, Entry)] = entry
      /\ \A n \in Names : n # NameOf(g, Entry) => sysModules'[n] = sysModules[n]
  BY <1>1, NamesDiffer DEF OInv, OTypeOK
<1>4. OTypeOK'
  BY <1>1, <1>2, NamesDiffer DEF OInv, OTypeOK
<1>5. Whole(g)
  BY DEF OInv
<1>6. Whole(g)'
  <2>1. Isolated(g)' /\ Clean(g)' /\ Untouched(g)'
    BY <1>1, <1>2, <1>3, <1>5, NamesDiffer DEF Whole, Isolated, Clean, Untouched
  <2>2. Sourced(g)'
    BY <1>1, <1>3, <1>5 DEF Whole, Sourced
  <2>3. Len(<<entry>>) = 1 /\ <<entry>>[1] = entry
    OBVIOUS
  <2>4. Nested(g)'
    BY <1>2, <1>3, <2>3 DEF Nested
  <2>5. Known(g)'
    BY <1>1, <1>3, <1>5, NamesDiffer DEF Whole, Untouched, Known, Serving
  <2> QED
    BY <2>1, <2>2, <2>4, <2>5 DEF Whole
<1>7. ASSUME NEW h \in Generations, h # g PROVE Whole(h)'
  <2>1. \A n \in NamesOf(h) : n \in Names /\ n # NameOf(g, Entry)
    BY <1>7, NamesDiffer
  <2> QED
    BY <1>1, <1>3, <1>7, <2>1, Frame DEF OInv
<1> QED
  BY <1>4, <1>6, <1>7 DEF OInv


\* A matcher is registered while code of the plugin runs.
LEMMA RegisterMatcherKeeps == ASSUME OInv, bare' = bare, NEW g \in Generations, RegisterMatcher(g) PROVE OInv'
<1>1. /\ stack[g] # <<>> \/ phase[g] \in Serving
      /\ matchers' = matchers \union {g}
      /\ UNCHANGED <<disk, sources, phase, stack, sysModules, genModules, attribute, logNames, owned>>
  BY DEF RegisterMatcher, tables
<1>2. OTypeOK'
  BY <1>1 DEF OInv, OTypeOK
<1>3. Whole(g) /\ phase[g] \in {"importing"} \union Serving
  BY <1>1 DEF OInv, Whole, Sourced
<1>4. Whole(g)'
  <2>1. Isolated(g)' /\ Clean(g)' /\ Untouched(g)'
    BY <1>1, <1>3 DEF Whole, Isolated, Clean, Untouched, Serving
  <2>2. Sourced(g)' /\ Nested(g)'
    BY <1>1, <1>3 DEF Whole, Sourced, Nested
  <2>3. Known(g)'
    BY <1>1, <1>3 DEF Whole, Known, Found
  <2> QED
    BY <2>1, <2>2, <2>3 DEF Whole
<1>5. ASSUME NEW h \in Generations, h # g PROVE Whole(h)'
  BY <1>1, <1>5, Frame DEF OInv
<1> QED
  BY <1>2, <1>4, <1>5 DEF OInv

\* What the record adds are the modules that are there.
LEMMA RecordAdds ==
  ASSUME OTypeOK, NEW g \in Generations, Record(g)
  PROVE  /\ owned' \in [Generations -> SUBSET (Names \X Object)]
         /\ owned'[g] = owned[g] \union Found(g)
         /\ \A h \in Generations : h # g => owned'[h] = owned[h]
         /\ Entry \in Bodies \ bare
         /\ \A m \in Bodies \ bare :
           sysModules[NameOf(g, m)] # None => <<NameOf(g, m), sysModules[NameOf(g, m)]>> \in Found(g)
<1>1. Found(g) \in SUBSET (Names \X Object)
  BY NamesDiffer DEF Found, OTypeOK
<1>2. Entry \in Bodies \ bare
  BY NamesDiffer DEF OTypeOK
<1> QED
  BY <1>1, <1>2 DEF Record, OTypeOK, Found

\* A plugin that passes the checks is served.
LEMMA AcceptKeeps ==
  ASSUME OInv, bare' = bare, NEW g \in Generations, Accept(g)
  PROVE  OInv'
<1>a. /\ phase[g] = "imported" /\ phase' = [phase EXCEPT ![g] = "loaded"]
      /\ UNCHANGED <<disk, sources, stack, sysModules, genModules, attribute, logNames, owned, matchers>>
  BY DEF Accept, Becomes, tables
<1>t. OTypeOK'
  BY <1>a DEF OInv, OTypeOK, Serving
<1>v. phase'[g] = "loaded" /\ \A h \in Generations : h # g => phase'[h] = phase[h]
  BY <1>a DEF OInv, OTypeOK
<1>b. Whole(g) /\ stack[g] = <<>>
  BY <1>a DEF OInv, Whole, Sourced, Serving
<1>w. Whole(g)'
  <2>1. Isolated(g)' /\ Clean(g)' /\ Untouched(g)'
    BY <1>a, <1>v, <1>b DEF Whole, Isolated, Clean, Untouched
  <2>2. Sourced(g)' /\ Nested(g)'
    BY <1>a, <1>v, <1>b DEF Whole, Sourced, Nested, Serving
  <2>3. Known(g)'
    BY <1>a, <1>v, <1>b, NamesDiffer DEF Whole, Known, Serving
  <2> QED
    BY <2>1, <2>2, <2>3 DEF Whole
<1>o. ASSUME NEW h \in Generations, h # g PROVE Whole(h)'
  BY <1>a, <1>v, <1>o, Frame DEF OInv
<1> QED
  BY <1>t, <1>w, <1>o DEF OInv

\* An interrupted import is left as it is.
LEMMA ShutdownInterruptedKeeps ==
  ASSUME OInv, bare' = bare, NEW g \in Generations, ShutdownInterrupted(g)
  PROVE  OInv'
<1>a. /\ phase[g] = "interrupted" /\ phase' = [phase EXCEPT ![g] = "abandoned"]
      /\ matchers' = matchers \ {g}
      /\ UNCHANGED <<disk, sources, stack, sysModules, genModules, attribute, logNames, owned>>
  BY DEF ShutdownInterrupted, Becomes, tables
<1>t. OTypeOK'
  BY <1>a DEF OInv, OTypeOK, Serving
<1>v. phase'[g] = "abandoned" /\ \A h \in Generations : h # g => phase'[h] = phase[h]
  BY <1>a DEF OInv, OTypeOK
<1>b. Whole(g) /\ stack[g] = <<>>
  BY <1>a DEF OInv, Whole, Sourced, Serving
<1>w. Whole(g)'
  <2>1. Isolated(g)' /\ Clean(g)' /\ Untouched(g)'
    BY <1>a, <1>v, <1>b DEF Whole, Isolated, Clean, Untouched
  <2>2. Sourced(g)' /\ Nested(g)'
    BY <1>a, <1>v, <1>b DEF Whole, Sourced, Nested, Serving
  <2>3. Known(g)'
    BY <1>a, <1>v, <1>b, NamesDiffer DEF Whole, Known, Serving
  <2> QED
    BY <2>1, <2>2, <2>3 DEF Whole
<1>o. ASSUME NEW h \in Generations, h # g PROVE Whole(h)'
  BY <1>a, <1>v, <1>o, Frame DEF OInv
<1> QED
  BY <1>t, <1>w, <1>o DEF OInv

\* A plugin that has been set up is recorded once more.
LEMMA SetupKeeps ==
  ASSUME OInv, bare' = bare, NEW g \in Generations, Setup(g)
  PROVE  OInv'
<1>a. /\ phase[g] = "loaded" /\ stack[g] = <<>> /\ phase' = [phase EXCEPT ![g] = "active"]
      /\ Record(g)
      /\ UNCHANGED <<disk, sources, stack, sysModules, genModules, attribute, logNames, matchers>>
  BY DEF Setup, Becomes, tables
<1>r. /\ owned' \in [Generations -> SUBSET (Names \X Object)]
      /\ owned'[g] = owned[g] \union Found(g)
      /\ \A h \in Generations : h # g => owned'[h] = owned[h]
      /\ Entry \in Bodies \ bare
      /\ \A m \in Bodies \ bare :
           sysModules[NameOf(g, m)] # None => <<NameOf(g, m), sysModules[NameOf(g, m)]>> \in Found(g)
  BY <1>a, RecordAdds DEF OInv
<1>t. OTypeOK'
  BY <1>a, <1>r DEF OInv, OTypeOK, Serving
<1>v. phase'[g] = "active" /\ \A h \in Generations : h # g => phase'[h] = phase[h]
  BY <1>a DEF OInv, OTypeOK
<1>b. Whole(g)
  BY DEF OInv
<1>w. Whole(g)'
  <2>1. Isolated(g)' /\ Clean(g)' /\ Untouched(g)'
    BY <1>a, <1>v, <1>b DEF Whole, Isolated, Clean, Untouched
  <2>2. Sourced(g)' /\ Nested(g)'
    BY <1>a, <1>v, <1>b DEF Whole, Sourced, Nested, Serving
  <2>3. Known(g)'
    BY <1>a, <1>v, <1>r, <1>b, NamesDiffer DEF Whole, Known, Serving
  <2> QED
    BY <2>1, <2>2, <2>3 DEF Whole
<1>o. ASSUME NEW h \in Generations, h # g PROVE Whole(h)'
  BY <1>a, <1>r, <1>v, <1>o, Frame DEF OInv
<1> QED
  BY <1>t, <1>w, <1>o DEF OInv

\* One whose setup failed is recorded too, and loses its matchers.
LEMMA SetupFailsKeeps ==
  ASSUME OInv, bare' = bare, NEW g \in Generations, SetupFails(g)
  PROVE  OInv'
<1>a. /\ phase[g] = "loaded" /\ stack[g] = <<>> /\ phase' = [phase EXCEPT ![g] = "broken"]
      /\ matchers' = matchers \ {g}
      /\ Record(g)
      /\ UNCHANGED <<disk, sources, stack, sysModules, genModules, attribute, logNames>>
  BY DEF SetupFails, Becomes, tables
<1>r. /\ owned' \in [Generations -> SUBSET (Names \X Object)]
      /\ owned'[g] = owned[g] \union Found(g)
      /\ \A h \in Generations : h # g => owned'[h] = owned[h]
      /\ Entry \in Bodies \ bare
      /\ \A m \in Bodies \ bare :
           sysModules[NameOf(g, m)] # None => <<NameOf(g, m), sysModules[NameOf(g, m)]>> \in Found(g)
  BY <1>a, RecordAdds DEF OInv
<1>t. OTypeOK'
  BY <1>a, <1>r DEF OInv, OTypeOK, Serving
<1>v. phase'[g] = "broken" /\ \A h \in Generations : h # g => phase'[h] = phase[h]
  BY <1>a DEF OInv, OTypeOK
<1>b. Whole(g)
  BY DEF OInv
<1>w. Whole(g)'
  <2>1. Isolated(g)' /\ Clean(g)' /\ Untouched(g)'
    BY <1>a, <1>v, <1>b DEF Whole, Isolated, Clean, Untouched
  <2>2. Sourced(g)' /\ Nested(g)'
    BY <1>a, <1>v, <1>b DEF Whole, Sourced, Nested, Serving
  <2>3. Known(g)'
    BY <1>a, <1>v, <1>r, <1>b, NamesDiffer DEF Whole, Known, Serving
  <2> QED
    BY <2>1, <2>2, <2>3 DEF Whole
<1>o. ASSUME NEW h \in Generations, h # g PROVE Whole(h)'
  BY <1>a, <1>r, <1>v, <1>o, Frame DEF OInv
<1> QED
  BY <1>t, <1>w, <1>o DEF OInv

\* Only where code of the plugin may run is anything imported.
LEMMA ImportersRun ==
  ASSUME NEW g \in Generations, Sourced(g), Importers(g) # {}
  PROVE  /\ phase[g] \in {"importing"} \union Serving /\ sources[g] \in Editions
         /\ stack[g] = <<>> => phase[g] \in Serving
  BY DEF Importers, Sourced

\* A module that the plugin's importer makes is the generation's, with the
\* sources of the day.
LEMMA ImportAbsoluteKeeps ==
  ASSUME OInv, bare' = bare, NEW g \in Generations, NEW m \in Modules, ImportAbsolute(g, m)
  PROVE  OInv'
<1> DEFINE new == Made(g, m, "plugin", sources[g])
<1>a. /\ Importers(g) # {} /\ genModules[g][m] = None
      /\ genModules' = [genModules EXCEPT ![g][m] = new]
      /\ sysModules' = [sysModules EXCEPT ![NameOf(g, m)] = new]
      /\ SetOnPackage(g, m, new) /\ Begin(g, new)
      /\ \E some \in SUBSET {NameOf(g, m)} : logNames' = logNames \union some
      /\ UNCHANGED <<disk, sources, phase, owned, matchers>>
  BY DEF ImportAbsolute, FromSnapshot
<1>b. /\ Whole(g) /\ phase[g] \in {"importing"} \union Serving /\ sources[g] \in Editions
      /\ stack[g] = <<>> => phase[g] \in Serving
  BY <1>a, ImportersRun DEF OInv, Whole
<1>n. /\ new \in Object /\ new # None /\ new.of = g /\ new.mod = m /\ new.by = "plugin"
      /\ new.edition = sources[g] /\ m \in Bodies /\ m # Entry /\ NameOf(g, m) \in Names
  BY <1>b, MadeIs, NamesDiffer
<1> HIDE DEF new
<1>s. /\ stack' \in [Generations -> Seq(Object)]
      /\ \A h \in Generations : h # g => stack'[h] = stack[h]
      /\ stack[g] \in Seq(Object) /\ Len(stack[g]) \in Nat
  BY <1>a, <1>n, BeginAdds DEF OInv
<1>l. /\ \A i \in 1 .. Len(stack[g]) : stack'[g][i] = stack[g][i]
      /\ \A i \in 1 .. Len(stack'[g]) :
           i \notin 1 .. Len(stack[g]) => i = Len(stack[g]) + 1 /\ stack'[g][i] = new
  BY <1>a, <1>n, BeginAdds DEF OInv
<1>e. /\ attribute' \in [Generations -> [Modules -> Object \union {None}]]
      /\ \A h \in Generations : h # g => attribute'[h] = attribute[h]
      /\ \A k \in Modules : \/ attribute'[g][k] = attribute[g][k]
                            \/ k = m /\ attribute'[g][k] = new
  BY <1>a, <1>n, SetTypes DEF OInv
<1>v. /\ genModules'[g][m] = new
      /\ \A k \in Modules : k # m => genModules'[g][k] = genModules[g][k]
      /\ \A h \in Generations : h # g => genModules'[h] = genModules[h]
      /\ sysModules'[NameOf(g, m)] = new
      /\ \A n \in Names : n # NameOf(g, m) => sysModules'[n] = sysModules[n]
  BY <1>a, <1>n DEF OInv, OTypeOK
<1>t. OTypeOK'
  <2>1. /\ stack' \in [Generations -> Seq(Object)]
        /\ sysModules' \in [Names -> Object \union {None}]
        /\ genModules' \in [Generations -> [Modules -> Object \union {None}]]
    BY <1>a, <1>n, <1>s DEF OInv, OTypeOK
  <2>2. \A h \in Generations, k \in Modules :
          genModules'[h][k] # None => genModules'[h][k].by = "plugin" /\ genModules'[h][k].mod = k
    <3> TAKE h \in Generations, k \in Modules
    <3>1. CASE h = g /\ k = m
      BY <1>n, <1>v, <3>1
    <3>2. CASE ~ (h = g /\ k = m)
      <4>1. genModules'[h][k] = genModules[h][k]
        BY <1>v, <3>2
      <4> QED
        BY <4>1 DEF OInv, OTypeOK
    <3> QED
      BY <3>1, <3>2
  <2> QED
    BY <1>a, <1>n, <1>e, <2>1, <2>2 DEF OInv, OTypeOK
<1>w. Whole(g)'
  <2>1. Isolated(g)'
    BY <1>a, <1>b, <1>n, <1>v, <1>e, NamesDiffer DEF Whole, Isolated
  <2>2. Clean(g)' /\ Untouched(g)' /\ Sourced(g)'
    BY <1>a, <1>b DEF Clean, Untouched, Sourced, Serving
  <2>3. Nested(g)'
    <3>1. ASSUME NEW i \in 1 .. Len(stack'[g])
          PROVE  i \notin 1 .. Len(stack[g]) => i = Len(stack[g]) + 1 /\ stack'[g][i] = new
      BY <1>l
    <3>2. ASSUME NEW i \in 1 .. Len(stack[g]), stack[g][i].by = "plugin", stack[g][i].mod = m
          PROVE  FALSE
      <4>1. stack[g][i] \in Object
        BY <1>s
      <4> QED
        BY <4>1, <3>2, <1>a, <1>b, <1>n, NoneIsNoObject DEF Whole, Nested
    <3>3. \A i \in 1 .. Len(stack'[g]) :
            stack'[g][i].mod = Entry <=> i = 1 /\ phase'[g] = "importing"
      <4>1. Len(stack[g]) + 1 = 1 => phase[g] # "importing"
        BY <1>b, <1>s DEF Serving
      <4> QED
        BY <1>a, <1>b, <1>n, <1>l, <3>1, <4>1 DEF Whole, Nested
    <3>4. \A i \in 1 .. Len(stack'[g]) :
            stack'[g][i].by = "plugin" /\ stack'[g][i].mod # Entry
              => genModules'[g][stack'[g][i].mod] = stack'[g][i]
      <4>1. ASSUME NEW i \in 1 .. Len(stack[g])
            PROVE  stack[g][i].mod = Entry \/ stack[g][i].mod \in Modules
        <5>1. stack[g][i] \in Object
          BY <1>s
        <5> QED
          BY <5>1 DEF Object, Bodies
      <4>2. ASSUME NEW i \in 1 .. Len(stack[g]), stack[g][i].by = "plugin", stack[g][i].mod # Entry
            PROVE  genModules'[g][stack[g][i].mod] = stack[g][i]
        <5>1. genModules[g][stack[g][i].mod] = stack[g][i]
          BY <1>b, <4>2 DEF Whole, Nested
        <5>2. stack[g][i].mod \in Modules /\ stack[g][i].mod # m
          BY <3>2, <4>1, <4>2
        <5> QED
          BY <1>v, <5>1, <5>2
      <4> TAKE i \in 1 .. Len(stack'[g])
      <4>3. CASE i \in 1 .. Len(stack[g])
        BY <1>l, <4>2, <4>3
      <4>4. CASE i \notin 1 .. Len(stack[g])
        BY <1>n, <1>v, <3>1, <4>4
      <4> QED
        BY <4>3, <4>4
    <3>5. \A i, j \in 1 .. Len(stack'[g]) :
            stack'[g][i].by = "plugin" /\ stack'[g][j].by = "plugin"
              /\ stack'[g][i].mod = stack'[g][j].mod => i = j
      <4> TAKE i, j \in 1 .. Len(stack'[g])
      <4>1. CASE i \in 1 .. Len(stack[g]) /\ j \in 1 .. Len(stack[g])
        BY <1>b, <1>l, <4>1 DEF Whole, Nested
      <4>2. CASE ~ (i \in 1 .. Len(stack[g]) /\ j \in 1 .. Len(stack[g]))
        BY <1>n, <1>l, <3>1, <3>2, <4>2, SMTT(30)
      <4> QED
        BY <4>1, <4>2
    <3> QED
      BY <3>3, <3>4, <3>5 DEF Nested
  <2>4. Known(g)'
    BY <1>a, <1>b, <1>n, <1>v, NamesDiffer DEF Whole, Known, Serving
  <2> QED
    BY <2>1, <2>2, <2>3, <2>4 DEF Whole
<1>o. ASSUME NEW h \in Generations, h # g PROVE Whole(h)'
  <2>1. \A n \in NamesOf(h) : n \in Names /\ n # NameOf(g, m)
    BY <1>n, <1>o, NamesDiffer
  <2> QED
    BY <1>a, <1>s, <1>v, <1>e, <1>o, <2>1, Frame DEF OInv
<1> QED
  BY <1>t, <1>w, <1>o DEF OInv

\* A module that Python makes takes a name that was free.
LEMMA ImportRelativeKeeps ==
  ASSUME OInv, bare' = bare, NEW g \in Generations, NEW m \in Modules, ImportRelative(g, m)
  PROVE  OInv'
<1> DEFINE new == Made(g, m, "python", disk)
<1>a. /\ Importers(g) # {} /\ sysModules[NameOf(g, m)] = None
      /\ sysModules' = [sysModules EXCEPT ![NameOf(g, m)] = new]
      /\ (m \in bare /\ SetOnPackage(g, m, new)) \/ UNCHANGED attribute
      /\ Begin(g, new)
      /\ UNCHANGED <<disk, sources, phase, genModules, owned, logNames, matchers>>
  BY DEF ImportRelative
<1>b. /\ Whole(g) /\ phase[g] \in {"importing"} \union Serving
      /\ stack[g] = <<>> => phase[g] \in Serving
  BY <1>a, ImportersRun DEF OInv, Whole
<1>n. /\ new \in Object /\ new # None /\ new.of = g /\ new.mod = m /\ new.by = "python"
      /\ m \in Bodies /\ m # Entry /\ NameOf(g, m) \in Names
  BY MadeIs, NamesDiffer DEF OInv, OTypeOK
<1> HIDE DEF new
<1>s. /\ stack' \in [Generations -> Seq(Object)]
      /\ \A h \in Generations : h # g => stack'[h] = stack[h]
      /\ stack[g] \in Seq(Object) /\ Len(stack[g]) \in Nat
  BY <1>a, <1>n, BeginAdds DEF OInv
<1>l. /\ \A i \in 1 .. Len(stack[g]) : stack'[g][i] = stack[g][i]
      /\ \A i \in 1 .. Len(stack'[g]) :
           i \notin 1 .. Len(stack[g]) => i = Len(stack[g]) + 1 /\ stack'[g][i] = new
  BY <1>a, <1>n, BeginAdds DEF OInv
<1>e. /\ attribute' \in [Generations -> [Modules -> Object \union {None}]]
      /\ \A h \in Generations : h # g => attribute'[h] = attribute[h]
      /\ \A k \in Modules : \/ attribute'[g][k] = attribute[g][k]
                            \/ k = m /\ attribute'[g][k] = new
  <2>1. CASE SetOnPackage(g, m, new)
    BY <1>n, <2>1, SetTypes DEF OInv
  <2>2. CASE UNCHANGED attribute
    BY <2>2 DEF OInv, OTypeOK
  <2> QED
    BY <1>a, <2>1, <2>2
<1>v. /\ sysModules'[NameOf(g, m)] = new
      /\ \A n \in Names : n # NameOf(g, m) => sysModules'[n] = sysModules[n]
  BY <1>a, <1>n DEF OInv, OTypeOK
<1>t. OTypeOK'
  <2>1. /\ stack' \in [Generations -> Seq(Object)]
        /\ sysModules' \in [Names -> Object \union {None}]
    BY <1>a, <1>n, <1>s DEF OInv, OTypeOK
  <2> QED
    BY <1>a, <1>e, <2>1 DEF OInv, OTypeOK
<1>w. Whole(g)'
  <2>1. Isolated(g)'
    BY <1>a, <1>b, <1>n, <1>v, <1>e, NamesDiffer DEF Whole, Isolated
  <2>2. Clean(g)' /\ Untouched(g)' /\ Sourced(g)'
    BY <1>a, <1>b DEF Clean, Untouched, Sourced, Serving, Whole
  <2>3. Nested(g)'
    <3>1. ASSUME NEW i \in 1 .. Len(stack'[g])
          PROVE  i \notin 1 .. Len(stack[g]) => i = Len(stack[g]) + 1 /\ stack'[g][i] = new
      BY <1>l
    <3>2. Len(stack[g]) + 1 = 1 => phase[g] # "importing"
      BY <1>b, <1>s DEF Serving
    <3>3. \A i \in 1 .. Len(stack'[g]) : stack'[g][i].mod = Entry <=> i = 1 /\ phase'[g] = "importing"
      BY <1>a, <1>b, <1>n, <1>l, <3>1, <3>2 DEF Whole, Nested
    <3>4. \A i \in 1 .. Len(stack'[g]) :
            stack'[g][i].by = "plugin" /\ stack'[g][i].mod # Entry
              => genModules'[g][stack'[g][i].mod] = stack'[g][i]
      BY <1>a, <1>b, <1>n, <1>l, <3>1 DEF Whole, Nested
    <3>5. \A i, j \in 1 .. Len(stack'[g]) :
            stack'[g][i].by = "plugin" /\ stack'[g][j].by = "plugin"
              /\ stack'[g][i].mod = stack'[g][j].mod => i = j
      <4> TAKE i, j \in 1 .. Len(stack'[g])
      <4>1. CASE i \in 1 .. Len(stack[g]) /\ j \in 1 .. Len(stack[g])
        BY <1>b, <1>l, <4>1 DEF Whole, Nested
      <4>2. CASE ~ (i \in 1 .. Len(stack[g]) /\ j \in 1 .. Len(stack[g]))
        BY <1>n, <3>1, <4>2
      <4> QED
        BY <4>1, <4>2
    <3> QED
      BY <3>3, <3>4, <3>5 DEF Nested
  <2>4. Known(g)'
    BY <1>a, <1>b, <1>n, <1>v, NamesDiffer DEF Whole, Known, Serving
  <2> QED
    BY <2>1, <2>2, <2>3, <2>4 DEF Whole
<1>o. ASSUME NEW h \in Generations, h # g PROVE Whole(h)'
  <2>1. \A n \in NamesOf(h) : n \in Names /\ n # NameOf(g, m)
    BY <1>n, <1>o, NamesDiffer
  <2> QED
    BY <1>a, <1>s, <1>v, <1>e, <1>o, <2>1, Frame DEF OInv
<1> QED
  BY <1>t, <1>w, <1>o DEF OInv

\* A stack stays nested when bodies end, innermost first, and the generation
\* still knows the modules that are left.
LEMMA NestedFront ==
  ASSUME NEW g \in Generations, Nested(g), phase'[g] = phase[g],
         \A i \in 1 .. Len(stack'[g]) : i \in 1 .. Len(stack[g]),
         \A i \in 1 .. Len(stack'[g]) : stack'[g][i] = stack[g][i],
         \A i \in 1 .. Len(stack'[g]) :
           stack[g][i].by = "plugin" /\ stack[g][i].mod # Entry
             => genModules'[g][stack[g][i].mod] = genModules[g][stack[g][i].mod]
  PROVE  Nested(g)'
<1>1. \A i \in 1 .. Len(stack'[g]) : stack'[g][i].mod = Entry <=> i = 1 /\ phase'[g] = "importing"
  BY DEF Nested
<1>2. ASSUME NEW i \in 1 .. Len(stack'[g]), stack'[g][i].by = "plugin", stack'[g][i].mod # Entry
      PROVE  genModules'[g][stack'[g][i].mod] = stack'[g][i]
  <2>1. i \in 1 .. Len(stack[g]) /\ stack'[g][i] = stack[g][i]
    OBVIOUS
  <2>2. genModules[g][stack[g][i].mod] = stack[g][i]
    BY <1>2, <2>1 DEF Nested
  <2>3. genModules'[g][stack[g][i].mod] = genModules[g][stack[g][i].mod]
    BY <1>2, <2>1
  <2> QED
    BY <2>1, <2>2, <2>3
<1>3. ASSUME NEW i \in 1 .. Len(stack'[g]), NEW j \in 1 .. Len(stack'[g]),
             stack'[g][i].by = "plugin", stack'[g][j].by = "plugin",
             stack'[g][i].mod = stack'[g][j].mod
      PROVE  i = j
  BY <1>3 DEF Nested
<1> QED
  BY <1>1, <1>2, <1>3 DEF Nested

\* A body that has returned is complete; the entry's return is recorded.
LEMMA ReturnKeeps == ASSUME OInv, bare' = bare, NEW g \in Generations, Return(g) PROVE OInv'
<1>a. /\ stack[g] # <<>> /\ stack' = [stack EXCEPT ![g] = Front(stack[g])]
      /\ UNCHANGED <<disk, sources, sysModules, genModules, logNames, matchers>>
  BY DEF Return
<1>b. Whole(g) /\ phase[g] \in {"importing"} \union Serving
  BY <1>a DEF OInv, Whole, Sourced
<1>s. /\ stack[g] \in Seq(Object) /\ stack'[g] = Front(stack[g])
      /\ \A h \in Generations : h # g => stack'[h] = stack[h]
  BY <1>a DEF OInv, OTypeOK
<1>l. /\ stack'[g] \in Seq(Object) /\ Len(stack[g]) \in Nat \ {0}
      /\ Len(stack'[g]) = Len(stack[g]) - 1
      /\ \A i \in 1 .. Len(stack'[g]) : i \in 1 .. Len(stack[g]) - 1 /\ stack'[g][i] = stack[g][i]
      /\ \A i \in 1 .. Len(stack'[g]) : i \in 1 .. Len(stack[g])
      /\ Len(stack[g]) \in 1 .. Len(stack[g])
      /\ Len(stack[g]) = 1 => stack'[g] = <<>>
  BY <1>a, <1>s, FrontOf
<1>e. Top(g).mod = Entry => Len(stack[g]) = 1 /\ phase[g] = "importing"
  BY <1>b, <1>l DEF Top, Whole, Nested
<1>f. Top(g).mod = Entry => stack'[g] = <<>>
  BY <1>e, <1>l
<1>g. Top(g).mod # Entry => (phase[g] = "importing" => stack'[g] # <<>>)
  <2> SUFFICES ASSUME Top(g).mod # Entry, phase[g] = "importing", stack'[g] = <<>> PROVE FALSE
    OBVIOUS
  <2>1. Len(stack[g]) = 1
    BY <1>l
  <2> QED
    BY <1>b, <2>1 DEF Top, Whole, Nested
<1>1. CASE Top(g).mod = Entry
  <2>a. phase' = [phase EXCEPT ![g] = "imported"] /\ Record(g) /\ UNCHANGED attribute
    BY <1>1 DEF Return, Becomes
  <2>r. /\ owned' \in [Generations -> SUBSET (Names \X Object)]
        /\ owned'[g] = owned[g] \union Found(g)
        /\ \A h \in Generations : h # g => owned'[h] = owned[h]
        /\ Entry \in Bodies \ bare
        /\ \A m \in Bodies \ bare :
           sysModules[NameOf(g, m)] # None => <<NameOf(g, m), sysModules[NameOf(g, m)]>> \in Found(g)
    BY <2>a, RecordAdds DEF OInv
  <2>v. phase'[g] = "imported" /\ \A h \in Generations : h # g => phase'[h] = phase[h]
    BY <2>a DEF OInv, OTypeOK
  <2>t. OTypeOK'
    <3>1. stack' \in [Generations -> Seq(Object)]
      BY <1>a, <1>s, <1>l DEF OInv, OTypeOK
    <3> QED
      BY <1>a, <2>a, <2>r, <3>1 DEF OInv, OTypeOK, Serving
  <2>w. Whole(g)'
    <3>1. Isolated(g)' /\ Clean(g)' /\ Untouched(g)'
      BY <1>a, <2>a, <2>v, <1>b DEF Whole, Isolated, Clean, Untouched
    <3>2. Sourced(g)'
      BY <1>a, <1>b, <1>1, <1>f, <2>v DEF Whole, Sourced, Serving
    <3>3. Nested(g)'
      BY <1>1, <1>f DEF Nested
    <3>4. Known(g)'
      <4>1. Found(g)' = Found(g)
        BY <1>a DEF Found
      <4> QED
        BY <1>a, <1>b, <2>r, <2>v, <4>1, NamesDiffer DEF Whole, Known
    <3> QED
      BY <3>1, <3>2, <3>3, <3>4 DEF Whole
  <2>o. ASSUME NEW h \in Generations, h # g PROVE Whole(h)'
    BY <1>a, <1>s, <2>a, <2>r, <2>v, <2>o, Frame DEF OInv
  <2> QED
    BY <2>t, <2>w, <2>o DEF OInv
<1>2. CASE Top(g).mod # Entry
  <2>a. UNCHANGED <<phase, owned>> /\ Complete(g, Top(g))
    BY <1>2 DEF Return
  <2>m. Top(g) \in Object /\ Top(g).mod \in Modules
    <3>1. Top(g) \in Object
      BY <1>s, <1>l DEF Top
    <3> QED
      BY <1>2, <3>1 DEF Object, Bodies
  <2> DEFINE m == Top(g).mod
             there == sysModules[NameOf(g, Top(g).mod)]
  <2>i. there # None =>
          /\ there \in Object /\ there.of = g
          /\ there.by = "plugin" => there.edition = sources[g]
    <3>1. NameOf(g, m) \in Names /\ NameOf(g, m) \in NamesOf(g)
      BY <2>m, NamesDiffer
    <3>2. there # None => there \in Object /\ there.of = g
      BY <1>b, <3>1 DEF OInv, OTypeOK, Whole, Isolated
    <3>3. there # None /\ there.by = "plugin" => there.edition = sources[g]
      BY <1>b, <2>m DEF Whole, Isolated, Known
    <3> QED
      BY <3>2, <3>3
  <2>e. /\ attribute' \in [Generations -> [Modules -> Object \union {None}]]
        /\ \A h \in Generations : h # g => attribute'[h] = attribute[h]
        /\ \A k \in Modules : \/ attribute'[g][k] = attribute[g][k]
                              \/ k = m /\ attribute'[g][k] = there /\ there # None
    <3>1. CASE UNCHANGED attribute
      BY <3>1 DEF OInv, OTypeOK
    <3>2. CASE there # None /\ SetOnPackage(g, m, there)
      <4>1. there \in Object /\ m \in Modules
        BY <2>i, <2>m, <3>2
      <4> HIDE DEF m, there
      <4> QED
        BY <3>2, <4>1, SetTypes DEF OInv
    <3> QED
      BY <2>a, <3>1, <3>2 DEF Complete
  <2> HIDE DEF m, there
  <2>t. OTypeOK'
    <3>1. stack' \in [Generations -> Seq(Object)]
      BY <1>a, <1>s, <1>l DEF OInv, OTypeOK
    <3> QED
      BY <1>a, <2>a, <2>e, <3>1 DEF OInv, OTypeOK
  <2>w. Whole(g)'
    <3>1. Isolated(g)'
      BY <1>a, <1>b, <2>e, <2>i DEF Whole, Isolated
    <3>5. Clean(g)' /\ Untouched(g)'
      BY <1>a, <1>b, <2>a, NamesDiffer DEF Whole, Clean, Untouched, Serving
    <3>2. Sourced(g)'
      BY <1>a, <1>b, <2>a DEF Whole, Sourced
    <3>3. Nested(g)'
      BY <1>a, <1>b, <1>l, <2>a, NestedFront DEF Whole
    <3>4. Known(g)'
      BY <1>a, <1>b, <2>a DEF Whole, Known, Found
    <3> QED
      BY <3>1, <3>2, <3>3, <3>4, <3>5 DEF Whole
  <2>o. ASSUME NEW h \in Generations, h # g PROVE Whole(h)'
    BY <1>a, <1>s, <2>a, <2>e, <2>o, Frame DEF OInv
  <2> QED
    BY <2>t, <2>w, <2>o DEF OInv
<1> QED
  BY <1>1, <1>2

\* A body that raises takes its module with it.
LEMMA RaiseInsideKeeps == ASSUME OInv, bare' = bare, NEW g \in Generations, RaiseInside(g) PROVE OInv'
<1> DEFINE top == Top(g)
<1>a. /\ stack[g] # <<>> /\ stack' = [stack EXCEPT ![g] = Front(stack[g])]
      /\ top.mod # Entry /\ RemoveBodies(g, {top})
      /\ UNCHANGED <<disk, sources, phase, owned, matchers>>
  BY DEF RaiseInside
<1>b. Whole(g) /\ phase[g] \in {"importing"} \union Serving
  BY <1>a DEF OInv, Whole, Sourced
<1>s. /\ stack[g] \in Seq(Object) /\ stack'[g] = Front(stack[g])
      /\ \A h \in Generations : h # g => stack'[h] = stack[h]
  BY <1>a DEF OInv, OTypeOK
<1>l. /\ stack'[g] \in Seq(Object) /\ Len(stack[g]) \in Nat \ {0}
      /\ \A i \in 1 .. Len(stack'[g]) : i \in 1 .. Len(stack[g]) - 1 /\ stack'[g][i] = stack[g][i]
      /\ \A i \in 1 .. Len(stack'[g]) : i \in 1 .. Len(stack[g]) /\ i # Len(stack[g])
      /\ Len(stack[g]) \in 1 .. Len(stack[g])
      /\ top = stack[g][Len(stack[g])] /\ top \in Object
  <2>1. /\ stack'[g] \in Seq(Object) /\ Len(stack[g]) \in Nat \ {0}
        /\ \A i \in 1 .. Len(stack'[g]) : i \in 1 .. Len(stack[g]) - 1 /\ stack'[g][i] = stack[g][i]
        /\ \A i \in 1 .. Len(stack'[g]) : i \in 1 .. Len(stack[g])
        /\ Len(stack[g]) \in 1 .. Len(stack[g]) /\ stack[g][Len(stack[g])] \in Object
    BY <1>a, <1>s, FrontOf, SMTT(30)
  <2>2. \A i \in 1 .. Len(stack[g]) - 1 : i # Len(stack[g])
    BY <2>1
  <2> QED
    BY <2>1, <2>2 DEF Top
<1> HIDE DEF top
<1>r. /\ sysModules' \in [Names -> Object \union {None}]
      /\ \A n \in Names : sysModules'[n] \in {sysModules[n], None}
      /\ \A n \in Names : n = NameOf(g, top.mod) /\ sysModules[n] = top => sysModules'[n] = None
      /\ genModules' \in [Generations -> [Modules -> Object \union {None}]]
      /\ \A h \in Generations : h # g => genModules'[h] = genModules[h]
      /\ \A m \in Modules : genModules'[g][m] \in {genModules[g][m], None}
      /\ \A m \in Modules : genModules'[g][m] # genModules[g][m] => top.by = "plugin" /\ top.mod = m
      /\ attribute' \in [Generations -> [Modules -> Object \union {None}]]
      /\ \A h \in Generations : h # g => attribute'[h] = attribute[h]
      /\ \A m \in Modules : attribute'[g][m] \in {attribute[g][m], None}
      /\ logNames' \subseteq logNames
  <2>1. {top} \in SUBSET Object /\ OTypeOK
    BY <1>l DEF OInv
  <2>2. /\ sysModules' \in [Names -> Object \union {None}]
        /\ \A n \in Names : sysModules'[n] \in {sysModules[n], None}
        /\ \A o \in {top}, n \in Names :
             n = NameOf(g, o.mod) /\ (sysModules[n] = o \/ o.by = "python") => sysModules'[n] = None
        /\ genModules' \in [Generations -> [Modules -> Object \union {None}]]
        /\ \A h \in Generations : h # g => genModules'[h] = genModules[h]
        /\ \A m \in Modules : genModules'[g][m] \in {genModules[g][m], None}
        /\ \A m \in Modules : genModules'[g][m] # genModules[g][m]
             => \E o \in {top} : o.by = "plugin" /\ o.mod = m
        /\ attribute' \in [Generations -> [Modules -> Object \union {None}]]
        /\ \A h \in Generations : h # g => attribute'[h] = attribute[h]
        /\ \A m \in Modules : attribute'[g][m] \in {attribute[g][m], None}
        /\ logNames' \subseteq logNames
    BY <1>a, <2>1, RemoveTypes
  <2> QED
    BY <2>2
<1>t. OTypeOK'
  <2>1. stack' \in [Generations -> Seq(Object)]
    BY <1>a, <1>s, <1>l DEF OInv, OTypeOK
  <2>2. \A h \in Generations, m \in Modules :
          genModules'[h][m] # None => genModules'[h][m].by = "plugin" /\ genModules'[h][m].mod = m
    <3> TAKE h \in Generations, m \in Modules
    <3>1. genModules'[h][m] \in {genModules[h][m], None}
      BY <1>r
    <3> QED
      BY <3>1 DEF OInv, OTypeOK
  <2> QED
    BY <1>a, <1>r, <2>1, <2>2 DEF OInv, OTypeOK
<1>w. Whole(g)'
  <2>1. Isolated(g)'
    <3>1. \A n \in NamesOf(g) : sysModules'[n] # None => sysModules'[n].of = g
      BY <1>b, <1>r, NamesDiffer DEF Whole, Isolated
    <3>2. \A m \in Modules : genModules'[g][m] # None =>
            genModules'[g][m].of = g /\ genModules'[g][m].edition = sources'[g]
      BY <1>a, <1>b, <1>r DEF Whole, Isolated
    <3>3. \A m \in Modules : attribute'[g][m] # None =>
            /\ attribute'[g][m].of = g
            /\ attribute'[g][m].by = "plugin" => attribute'[g][m].edition = sources'[g]
      BY <1>a, <1>b, <1>r DEF Whole, Isolated
    <3> QED
      BY <3>1, <3>2, <3>3 DEF Isolated
  <2>2. Clean(g)' /\ Untouched(g)'
    BY <1>a, <1>b DEF Clean, Untouched, Serving
  <2>3. Sourced(g)'
    BY <1>a, <1>b DEF Whole, Sourced
  <2>4. Nested(g)'
    <3>1. ASSUME NEW i \in 1 .. Len(stack'[g]), stack[g][i].by = "plugin", stack[g][i].mod # Entry
          PROVE  genModules'[g][stack[g][i].mod] = genModules[g][stack[g][i].mod]
      <4>1. i \in 1 .. Len(stack[g]) /\ i # Len(stack[g]) /\ stack[g][i] \in Object
        BY <1>s, <1>l
      <4>2. stack[g][i].mod \in Modules
        BY <3>1, <4>1 DEF Object, Bodies
      <4>3. ~ (top.by = "plugin" /\ top.mod = stack[g][i].mod)
        BY <1>b, <1>l, <3>1, <4>1 DEF Whole, Nested
      <4> QED
        BY <1>r, <4>2, <4>3
    <3> QED
      BY <1>a, <1>b, <1>l, <3>1, NestedFront DEF Whole
  <2>5. Known(g)'
    <3>1. ASSUME NEW m \in Modules, sysModules'[NameOf(g, m)] # None,
                 sysModules'[NameOf(g, m)].by = "plugin"
          PROVE  genModules'[g][m] = sysModules'[NameOf(g, m)]
      <4>1. NameOf(g, m) \in Names
        BY NamesDiffer
      <4>2. sysModules'[NameOf(g, m)] = sysModules[NameOf(g, m)]
        BY <1>r, <3>1, <4>1
      <4>3. genModules[g][m] = sysModules[NameOf(g, m)]
        BY <1>b, <3>1, <4>2 DEF Whole, Known
      <4>4. ASSUME genModules'[g][m] # genModules[g][m] PROVE FALSE
        <5>1. top.by = "plugin" /\ top.mod = m
          BY <1>r, <4>4
        <5>2. genModules[g][m] = top
          BY <1>a, <1>b, <1>l, <5>1 DEF Whole, Nested
        <5> QED
          BY <1>r, <3>1, <4>1, <4>3, <5>1, <5>2
      <4> QED
        BY <4>2, <4>3, <4>4
    <3>2. Found(g)' \subseteq Found(g)
      <4>1. \A m \in Bodies : sysModules'[NameOf(g, m)] \in {sysModules[NameOf(g, m)], None}
        BY <1>r, NamesDiffer
      <4> QED
        BY <4>1 DEF Found
    <3>3. NameOf(g, Entry) \in Names
      BY NamesDiffer
    <3> QED
      BY <1>a, <1>b, <1>r, <3>1, <3>2, <3>3 DEF Whole, Known
  <2> QED
    BY <2>1, <2>2, <2>3, <2>4, <2>5 DEF Whole
<1>o. ASSUME NEW h \in Generations, h # g PROVE Whole(h)'
  <2>1. \A n \in NamesOf(h) : n \in Names
    BY NamesDiffer
  <2> QED
    BY <1>a, <1>s, <1>r, <1>o, <2>1, Frame DEF OInv
<1> QED
  BY <1>t, <1>w, <1>o DEF OInv

\* A generation that is discarded is whole if what it does not take away is
\* Python's, and is left by a manager that closes or has no file.
LEMMA DiscardKeeps ==
  ASSUME OInv, bare' = bare, NEW g \in Generations, NEW recorded, NEW end \in {"failed", "closed"},
         Discard(g, recorded), phase' = [phase EXCEPT ![g] = end],
         stack' = [stack EXCEPT ![g] = <<>>], disk' = disk,
         \A m \in Bodies :
           /\ sysModules[NameOf(g, m)] # None
           /\ end = "closed" \/ m \in bare => sysModules[NameOf(g, m)].by # "python"
           => <<NameOf(g, m), sysModules[NameOf(g, m)]>> \in recorded \union InGeneration(g)
  PROVE  OInv'
<1>r. /\ sysModules' \in [Names -> Object \union {None}]
      /\ \A n \in Names : sysModules'[n] \in {sysModules[n], None}
      /\ genModules' \in [Generations -> [Modules -> Object \union {None}]]
      /\ \A h \in Generations : h # g => genModules'[h] = genModules[h]
      /\ \A m \in Modules : genModules'[g][m] = None
      /\ attribute' \in [Generations -> [Modules -> Object \union {None}]]
      /\ \A h \in Generations : h # g => attribute'[h] = attribute[h]
      /\ \A m \in Modules : attribute'[g][m] = None
      /\ logNames' \subseteq Names /\ logNames' = logNames \ NamesOf(g)
      /\ sources' = [sources EXCEPT ![g] = None]
      /\ owned' = [owned EXCEPT ![g] = {}]
      /\ matchers' = matchers \ {g} /\ matchers' \subseteq Generations
  BY DiscardTypes DEF OInv
<1>v. /\ phase'[g] = end /\ stack'[g] = <<>> /\ sources'[g] = None /\ owned'[g] = {}
      /\ \A h \in Generations : h # g =>
           /\ phase'[h] = phase[h] /\ stack'[h] = stack[h]
           /\ sources'[h] = sources[h] /\ owned'[h] = owned[h]
  BY <1>r DEF OInv, OTypeOK
<1>n. ASSUME NEW m \in Bodies, sysModules'[NameOf(g, m)] # None
      PROVE  /\ sysModules'[NameOf(g, m)] = sysModules[NameOf(g, m)] /\ sysModules[NameOf(g, m)] # None
             /\ end = "closed" \/ m \in bare
             /\ sysModules[NameOf(g, m)].by = "python"
  <2>1. NameOf(g, m) \in Names
    BY NamesDiffer
  <2>2. <<NameOf(g, m), sysModules[NameOf(g, m)]>> \notin recorded \union InGeneration(g)
    BY <1>n, <2>1 DEF Discard, DiscardModules, Without
  <2> QED
    BY <1>n, <1>r, <2>1, <2>2
<1>i. ASSUME NEW n \in NamesOf(g), sysModules'[n] # None PROVE sysModules'[n].of = g
  <2>1. PICK m \in Bodies : n = NameOf(g, m)
    BY NamesDiffer
  <2> QED
    BY <1>i, <1>n, <2>1 DEF OInv, Whole, Isolated
<1>t. OTypeOK'
  <2>1. \A h \in Generations, m \in Modules :
          genModules'[h][m] # None => genModules'[h][m].by = "plugin" /\ genModules'[h][m].mod = m
    <3> TAKE h \in Generations, m \in Modules
    <3>1. genModules'[h][m] \in {genModules[h][m], None}
      BY <1>r
    <3> QED
      BY <3>1 DEF OInv, OTypeOK
  <2>2. /\ phase' \in [Generations -> Serving \union {"none", "snapshot", "importing", "imported",
                                "broken", "failed", "interrupted", "closed", "abandoned"}]
        /\ stack' \in [Generations -> Seq(Object)]
    BY DEF OInv, OTypeOK
  <2>3. /\ sources' \in [Generations -> Editions \union {None}]
        /\ owned' \in [Generations -> SUBSET (Names \X Object)]
    BY <1>r DEF OInv, OTypeOK
  <2>4. disk' \in Editions /\ bare' \subseteq Modules
    BY DEF OInv, OTypeOK
  <2> QED
    BY <1>r, <2>1, <2>2, <2>3, <2>4 DEF OTypeOK, Serving, Editions
<1>w. Whole(g)'
  <2>1. Isolated(g)'
    BY <1>i, <1>r DEF Isolated
  <2>2. Clean(g)'
    BY <1>n, <1>r, <1>v DEF Clean
  <2>3. Untouched(g)' /\ Sourced(g)'
    BY <1>v DEF Untouched, Sourced, Serving
  <2>4. Nested(g)'
    BY <1>v DEF Nested
  <2>5. Known(g)'
    BY <1>n, <1>v, NamesDiffer DEF Known, Serving
  <2> QED
    BY <2>1, <2>2, <2>3, <2>4, <2>5 DEF Whole
<1>o. ASSUME NEW h \in Generations, h # g PROVE Whole(h)'
  <2>1. \A n \in NamesOf(h) : n \in Names
    BY NamesDiffer
  <2> QED
    BY <1>r, <1>v, <1>o, <2>1, Frame DEF OInv
<1> QED
  BY <1>t, <1>w, <1>o DEF OInv

\* What the plugin's importer has put under a name, its generation knows.
LEMMA PluginKnown ==
  ASSUME OInv, NEW g \in Generations, NEW m \in Modules,
         sysModules[NameOf(g, m)] # None, sysModules[NameOf(g, m)].by # "python"
  PROVE  <<NameOf(g, m), sysModules[NameOf(g, m)]>> \in InGeneration(g)
<1>1. sysModules[NameOf(g, m)] \in Object
  BY NamesDiffer DEF OInv, OTypeOK
<1>2. sysModules[NameOf(g, m)].by = "plugin"
  BY <1>1 DEF Object
<1>3. genModules[g][m] = sysModules[NameOf(g, m)]
  BY <1>2 DEF OInv, Whole, Known
<1> QED
  BY <1>3 DEF InGeneration

\* The entry that raises takes everything that was found with it.
LEMMA RaiseInEntryKeeps == ASSUME OInv, bare' = bare, NEW g \in Generations, RaiseInEntry(g) PROVE OInv'
<1>1. /\ Discard(g, Found(g)) /\ phase' = [phase EXCEPT ![g] = "failed"]
      /\ stack' = [stack EXCEPT ![g] = <<>>] /\ disk' = disk
  BY DEF RaiseInEntry, Becomes
<1>2. \A m \in Bodies \ bare :
           sysModules[NameOf(g, m)] # None => <<NameOf(g, m), sysModules[NameOf(g, m)]>> \in Found(g)
  BY DEF Found
<1>3. \A m \in Bodies : m \in bare => m \in Modules
  BY DEF OInv, OTypeOK
<1> QED
  BY <1>1, <1>2, <1>3, PluginKnown, DiscardKeeps

\* The rejected plugin's modules have all been recorded.
LEMMA RejectKeeps == ASSUME OInv, bare' = bare, NEW g \in Generations, Reject(g) PROVE OInv'
<1>1. /\ Discard(g, owned[g]) /\ phase' = [phase EXCEPT ![g] = "failed"]
      /\ phase[g] = "imported" /\ stack' = stack /\ disk' = disk
  BY DEF Reject, Becomes
<1>2. stack' = [stack EXCEPT ![g] = <<>>]
  BY <1>1 DEF OInv, OTypeOK, Whole, Sourced, Serving
<1>3. \A m \in Bodies \ bare :
        sysModules[NameOf(g, m)] # None => <<NameOf(g, m), sysModules[NameOf(g, m)]>> \in owned[g]
  BY <1>1 DEF OInv, Whole, Known, Found
<1>4. \A m \in Bodies : m \in bare => m \in Modules
  BY DEF OInv, OTypeOK
<1> QED
  BY <1>1, <1>2, <1>3, <1>4, PluginKnown, DiscardKeeps

\* What the closed manager has not recorded and its generation does not know
\* is Python's.
LEMMA ShutdownKeeps == ASSUME OInv, bare' = bare, NEW g \in Generations, Shutdown(g) PROVE OInv'
<1>1. /\ Discard(g, owned[g]) /\ phase' = [phase EXCEPT ![g] = "closed"]
      /\ phase[g] \in Serving \union {"broken"} /\ stack[g] = <<>> /\ stack' = stack /\ disk' = disk
  BY DEF Shutdown, Becomes
<1>2. stack' = [stack EXCEPT ![g] = <<>>]
  BY <1>1 DEF OInv, OTypeOK
<1>3. ASSUME NEW m \in Bodies, sysModules[NameOf(g, m)] # None, sysModules[NameOf(g, m)].by # "python"
      PROVE  <<NameOf(g, m), sysModules[NameOf(g, m)]>> \in owned[g] \union InGeneration(g)
  <2>1. CASE m = Entry
    BY <1>1, <1>3, <2>1 DEF OInv, Whole, Known
  <2>2. CASE m # Entry
    BY <1>3, <2>2, NamesDiffer, PluginKnown
  <2> QED
    BY <2>1, <2>2
<1> QED
  BY <1>1, <1>2, <1>3, DiscardKeeps

\* The bodies that an interrupt ends take their modules with them.
LEMMA ExitKeeps == ASSUME OInv, bare' = bare, NEW g \in Generations, Exit(g) PROVE OInv'
<1> DEFINE bodies == {stack[g][i] : i \in 1 .. Len(stack[g])} \ {o \in Object : o.mod = Entry}
<1>a. /\ stack[g] # <<>> /\ stack' = [stack EXCEPT ![g] = <<>>]
      /\ RemoveBodies(g, bodies)
      /\ UNCHANGED <<disk, sources, owned, matchers>>
  BY DEF Exit
<1>p. phase' = IF phase[g] = "importing" THEN [phase EXCEPT ![g] = "interrupted"] ELSE phase
  BY DEF Exit, Becomes
<1>b. Whole(g) /\ phase[g] \in {"importing"} \union Serving
  BY <1>a DEF OInv, Whole, Sourced
<1>s. /\ stack[g] \in Seq(Object) /\ stack'[g] = <<>>
      /\ \A h \in Generations : h # g => stack'[h] = stack[h] /\ phase'[h] = phase[h]
      /\ phase'[g] \in {"interrupted"} \union Serving
      /\ phase'[g] \in Serving => phase'[g] = phase[g]
  BY <1>a, <1>b, <1>p DEF OInv, OTypeOK, Serving
<1>l. /\ bodies \in SUBSET Object
      /\ \A o \in bodies : o.mod # Entry /\ \E i \in 1 .. Len(stack[g]) : o = stack[g][i]
  <2>1. \A i \in 1 .. Len(stack[g]) : stack[g][i] \in Object
    BY <1>s
  <2> QED
    BY <2>1
<1> HIDE DEF bodies
<1>r. /\ sysModules' \in [Names -> Object \union {None}]
      /\ \A n \in Names : sysModules'[n] \in {sysModules[n], None}
      /\ \A o \in bodies, n \in Names :
           n = NameOf(g, o.mod) /\ (sysModules[n] = o \/ o.by = "python") => sysModules'[n] = None
      /\ genModules' \in [Generations -> [Modules -> Object \union {None}]]
      /\ \A h \in Generations : h # g => genModules'[h] = genModules[h]
      /\ \A m \in Modules : genModules'[g][m] \in {genModules[g][m], None}
      /\ \A m \in Modules : genModules'[g][m] # genModules[g][m]
           => \E o \in bodies : o.by = "plugin" /\ o.mod = m
      /\ attribute' \in [Generations -> [Modules -> Object \union {None}]]
      /\ \A h \in Generations : h # g => attribute'[h] = attribute[h]
      /\ \A m \in Modules : attribute'[g][m] \in {attribute[g][m], None}
      /\ logNames' \subseteq logNames
  BY <1>a, <1>l, RemoveTypes DEF OInv
<1>t. OTypeOK'
  <2>1. /\ stack' \in [Generations -> Seq(Object)]
        /\ phase' \in [Generations -> Serving \union {"none", "snapshot", "importing", "imported",
                                "broken", "failed", "interrupted", "closed", "abandoned"}]
    BY <1>a, <1>p DEF OInv, OTypeOK
  <2>2. \A h \in Generations, m \in Modules :
          genModules'[h][m] # None => genModules'[h][m].by = "plugin" /\ genModules'[h][m].mod = m
    <3> TAKE h \in Generations, m \in Modules
    <3>1. genModules'[h][m] \in {genModules[h][m], None}
      BY <1>r
    <3> QED
      BY <3>1 DEF OInv, OTypeOK
  <2> QED
    BY <1>a, <1>r, <2>1, <2>2 DEF OInv, OTypeOK
<1>w. Whole(g)'
  <2>1. Isolated(g)'
    <3>1. \A n \in NamesOf(g) : sysModules'[n] # None => sysModules'[n].of = g
      BY <1>b, <1>r, NamesDiffer DEF Whole, Isolated
    <3>2. \A m \in Modules : genModules'[g][m] # None =>
            genModules'[g][m].of = g /\ genModules'[g][m].edition = sources'[g]
      BY <1>a, <1>b, <1>r DEF Whole, Isolated
    <3>3. \A m \in Modules : attribute'[g][m] # None =>
            /\ attribute'[g][m].of = g
            /\ attribute'[g][m].by = "plugin" => attribute'[g][m].edition = sources'[g]
      BY <1>a, <1>b, <1>r DEF Whole, Isolated
    <3> QED
      BY <3>1, <3>2, <3>3 DEF Isolated
  <2>2. Clean(g)' /\ Untouched(g)'
    BY <1>s DEF Clean, Untouched, Serving
  <2>3. Sourced(g)'
    BY <1>a, <1>b, <1>s DEF Whole, Sourced, Serving
  <2>4. Nested(g)'
    BY <1>s DEF Nested
  <2>5. Known(g)'
    <3>1. ASSUME NEW m \in Modules, sysModules'[NameOf(g, m)] # None,
                 sysModules'[NameOf(g, m)].by = "plugin"
          PROVE  genModules'[g][m] = sysModules'[NameOf(g, m)]
      <4>1. NameOf(g, m) \in Names
        BY NamesDiffer
      <4>2. sysModules'[NameOf(g, m)] = sysModules[NameOf(g, m)]
        BY <1>r, <3>1, <4>1
      <4>3. genModules[g][m] = sysModules[NameOf(g, m)]
        BY <1>b, <3>1, <4>2 DEF Whole, Known
      <4>4. ASSUME genModules'[g][m] # genModules[g][m] PROVE FALSE
        <5>1. PICK o \in bodies : o.by = "plugin" /\ o.mod = m
          BY <1>r, <4>4
        <5>2. genModules[g][m] = o
          BY <1>b, <1>l, <5>1 DEF Whole, Nested
        <5> QED
          BY <1>r, <3>1, <4>1, <4>3, <5>1, <5>2
      <4> QED
        BY <4>2, <4>3, <4>4
    <3>2. NameOf(g, Entry) \in Names
      BY NamesDiffer
    <3> QED
      BY <1>a, <1>b, <1>r, <1>s, <3>1, <3>2 DEF Whole, Known, Serving
  <2> QED
    BY <2>1, <2>2, <2>3, <2>4, <2>5 DEF Whole
<1>o. ASSUME NEW h \in Generations, h # g PROVE Whole(h)'
  <2>1. \A n \in NamesOf(h) : n \in Names
    BY NamesDiffer
  <2> QED
    BY <1>a, <1>s, <1>r, <1>o, <2>1, Frame DEF OInv
<1> QED
  BY <1>t, <1>w, <1>o DEF OInv

----------------------------------------------------------------------------
(* The theorems.                                                            *)

\* There is nothing when the program starts.
LEMMA OwnershipInit == OInit => OInv
<1> SUFFICES ASSUME OInit PROVE OInv
  OBVIOUS
<1>1. OTypeOK
  BY OwnershipAssumption DEF OInit, OTypeOK, Editions, Nothing
<1>2. ASSUME NEW g \in Generations PROVE Whole(g)
  <2>1. /\ phase[g] = "none" /\ stack[g] = <<>> /\ sources[g] = None /\ owned[g] = {}
        /\ g \notin matchers /\ logNames = {}
        /\ \A m \in Modules : genModules[g][m] = None /\ attribute[g][m] = None
        /\ \A n \in NamesOf(g) : sysModules[n] = None
    BY NamesDiffer DEF OInit, Nothing
  <2>2. Isolated(g) /\ Clean(g) /\ Untouched(g)
    BY <2>1, NamesDiffer DEF Isolated, Clean, Untouched
  <2>3. Sourced(g) /\ Nested(g)
    BY <2>1 DEF Sourced, Nested, Serving
  <2>4. Known(g)
    BY <2>1, NamesDiffer DEF Known, Serving
  <2> QED
    BY <2>2, <2>3, <2>4 DEF Whole
<1> QED
  BY <1>1, <1>2 DEF OInv

\* Every step keeps the generations whole.
LEMMA OwnershipStep == OInv /\ [ONext]_ovars => OInv'
<1> SUFFICES ASSUME OInv, [ONext]_ovars PROVE OInv'
  OBVIOUS
<1>0. bare' = bare
  BY DEF ONext, ovars
<1>1. CASE UNCHANGED ovars
  <2>1. OTypeOK'
    BY <1>1 DEF OInv, OTypeOK, ovars, tables
  <2>2. ASSUME NEW g \in Generations PROVE Whole(g)'
    BY <1>1, <2>2, Frame DEF OInv, ovars, tables
  <2> QED
    BY <2>1, <2>2 DEF OInv
<1>2. CASE Edit
  BY <1>0, <1>2, EditKeeps
<1>3. ASSUME NEW g \in Generations, NEW m \in Modules, ImportAbsolute(g, m) \/ ImportRelative(g, m)
      PROVE  OInv'
  BY <1>0, <1>3, ImportAbsoluteKeeps, ImportRelativeKeeps
<1>4. ASSUME NEW g \in Generations,
             \/ Snapshot(g) \/ NoSpec(g) \/ ExecEntry(g) \/ RegisterMatcher(g)
             \/ Return(g) \/ RaiseInside(g) \/ RaiseInEntry(g) \/ Exit(g)
      PROVE  OInv'
  BY <1>0, <1>4, SnapshotKeeps, NoSpecKeeps, ExecEntryKeeps, RegisterMatcherKeeps, ReturnKeeps,
     RaiseInsideKeeps, RaiseInEntryKeeps, ExitKeeps
<1>5. ASSUME NEW g \in Generations,
             \/ Accept(g) \/ Reject(g) \/ Setup(g) \/ SetupFails(g)
             \/ Shutdown(g) \/ ShutdownInterrupted(g)
      PROVE  OInv'
  BY <1>0, <1>5, AcceptKeeps, RejectKeeps, SetupKeeps, SetupFailsKeeps, ShutdownKeeps,
     ShutdownInterruptedKeeps
<1> QED
  BY <1>1, <1>2, <1>3, <1>4, <1>5 DEF ONext

\* The invariant holds in every reachable state.
LEMMA OwnershipInvariant == OSpec => []OInv
  BY OwnershipInit, OwnershipStep, PTL DEF OSpec

\* The state of the module tables has the types of _load_candidate() and below,
\* and the modules of a generation are made by the plugin's own importer.
THEOREM OwnershipTypes == OSpec => []OTypeOK
<1>1. OInv => OTypeOK
  BY DEF OInv
<1> QED
  BY <1>1, OwnershipInvariant, PTL

\* Two managers that hold one directory never see each other's modules, and what
\* a generation's importer makes is of the sources read when its import began,
\* whatever the plugin's code imports and however often the files are edited; a
\* from-import is answered with that or with a module that Python has loaded.
THEOREM GenerationsIsolated == OSpec => []Isolation
<1>1. OInv => Isolation
  BY DEF OInv, Whole, Isolated, Isolation
<1> QED
  BY <1>1, OwnershipInvariant, PTL

\* A failed import and a closed manager leave neither modules nor display names
\* nor matchers behind, but for what Python has loaded and no record finds: the
\* directories without __init__.py, and what is imported after the last record.
THEOREM NothingIsLeft == OSpec => []NothingLeft
<1>1. OInv => NothingLeft
  BY DEF OInv, Whole, Clean, NothingLeft
<1> QED
  BY <1>1, OwnershipInvariant, PTL

----------------------------------------------------------------------------
(* Startup: for any sections of a configuration, any spelling of a protocol. *)

\* The modules of jianer that copy, and those of an adapter.
Facades == {"segments", "common", "listener"}
Replaceable == {"res", "common", "listener"}

\* What the loader has replaced so far.
Done == CASE spc = "common" -> {"res"}
          [] spc = "listener" -> {"res", "common"}
          [] spc \in {"returned", "running"} -> Replaceable
          [] OTHER -> {}

Chosen == Canon(settings.protocol)

ParsedOK ==
  /\ settings.connections \in Sections \union {NoSection}
  /\ settings.upper \in Sections \union {NoSection}
  /\ parsed = CASE settings.connections # NoSection -> Parse(settings.connections)
                [] settings.connections = NoSection /\ settings.upper # NoSection ->
                     Parse(settings.upper)
                [] OTHER -> <<>>

LoadingOK ==
  /\ spc \in {"unset", "set", "failed", "returned", "running", "res", "common", "listener"}
  /\ tried \subseteq Adapters
  /\ DOMAIN replaced = Replaceable /\ DOMAIN copied = Facades
  /\ spc \in Replaceable => loading = Chosen
  /\ spc \in Replaceable \union {"returned", "running"} => Chosen \in tried
  /\ \A m \in Done : replaced[m] = Chosen
  /\ ~early => \A m \in Facades : copied[m] \in tried \union {"none"}
  /\ spc = "running" => \A m \in Facades : copied[m] # "none"

StartupInv == ParsedOK /\ LoadingOK

\* A protocol that has a loader is an adapter, under its own name.
LEMMA LoaderIsCanon ==
  ASSUME NEW name, LoaderFor(name) # "none"
  PROVE  LoaderFor(name) = Canon(name) /\ Canon(name) \in Adapters
  BY DEF LoaderFor, Canon, Adapters

\* At first nothing is loaded.
LEMMA StartupInit == StartInit => StartupInv
  BY DEF StartInit, StartupInv, ParsedOK, LoadingOK, Done, Replaceable, Facades, Adapters

\* A copy is of what was replaced.
LEMMA CopiesAreOf ==
  ASSUME LoadingOK, NEW from \in SUBSET Facades, Copies(from, FacadeNames)
  PROVE  /\ DOMAIN copied' = Facades
         /\ \A m \in Facades : \/ copied'[m] = copied[m] /\ (m \in from => copied[m] # "none")
                               \/ m \in from /\ copied'[m] = replaced[FacadeNames[m]]
  BY DEF LoadingOK, Copies, FacadeNames, Facades

\* The invariant is inductive: one step per action.
LEMMA StartupStep == StartupInv /\ [StartNext]_startVars => StartupInv'
<1> SUFFICES ASSUME StartupInv, [StartNext]_startVars PROVE StartupInv'
  OBVIOUS
<1> USE DEF StartupInv
<1>a. \A x \in Adapters : x # "none"
  BY DEF Adapters
<1>1. CASE ReadSettings
  <2>1. PICK p \in Spellings, c \in Sections \union {NoSection}, u \in Sections \union {NoSection} :
          Configure(p, c, u)
    BY <1>1 DEF ReadSettings
  <2>2. ParsedOK'
    BY <2>1 DEF Configure, ParsedOK, Parse, LastFor, ProtocolsOf
  <2>3. LoadingOK'
    BY <1>1 DEF ReadSettings, LoadingOK, Done, Replaceable
  <2> QED
    BY <2>2, <2>3
<1>2. CASE ImportEarly
  BY <1>2 DEF ImportEarly, Copies, LoadingOK, ParsedOK, Done, Replaceable, Chosen
<1>3. CASE LoadConfigured
  <2> DEFINE a == LoaderFor(settings.protocol)
  <2>1. /\ loading' = a /\ tried' = tried \union ({a} \ {"none"})
        /\ spc' = IF a = "none" THEN "failed" ELSE "res"
        /\ UNCHANGED <<settings, parsed, early, replaced, copied>>
    BY <1>3 DEF LoadConfigured, LoadOrder
  <2>2. a # "none" => a = Chosen /\ Chosen \in Adapters
    BY LoaderIsCanon DEF Chosen
  <2> HIDE DEF a
  <2>3. LoadingOK'
    BY <2>1, <2>2, <1>a DEF LoadingOK, Done, Replaceable, Chosen
  <2> QED
    BY <2>1, <2>3 DEF ParsedOK
<1>4. CASE ImportAndReplace
  <2>1. spc \in Replaceable
    BY <1>4 DEF ImportAndReplace, Loading, LoadOrder, Range, Replaceable
  <2>2. /\ UNCHANGED <<settings, parsed, tried, early>>
        /\ replaced' = [replaced EXCEPT ![spc] = loading]
    BY <1>4 DEF ImportAndReplace
  <2>3. /\ spc = "res" => spc' = "common"
        /\ spc = "common" => spc' = "listener"
        /\ spc = "listener" => spc' = "returned"
    BY <1>4, <2>1 DEF ImportAndReplace, NextOf, LoadOrder, Replaceable
  <2>4. loading' = IF spc' = "returned" THEN "none" ELSE loading
    BY <1>4 DEF ImportAndReplace
  <2>5. PICK from \in SUBSET Facades : /\ Copies(from, FacadeNames)
                                       /\ from = IF spc = "listener" THEN {"segments", "common"} ELSE {}
    BY <1>4 DEF ImportAndReplace, Facades
  <2>6. /\ DOMAIN copied' = Facades
        /\ \A m \in Facades : \/ copied'[m] = copied[m]
                              \/ spc = "listener" /\ m \in {"segments", "common"}
                                 /\ copied'[m] = replaced[FacadeNames[m]]
    BY <2>5, CopiesAreOf
  <2>7. spc = "listener" => replaced["res"] = Chosen /\ replaced["common"] = Chosen
    BY DEF LoadingOK, Done
  <2>8. FacadeNames["segments"] = "res" /\ FacadeNames["common"] = "common"
    BY DEF FacadeNames
  <2>9. ~early => \A m \in Facades : copied'[m] \in tried \union {"none"}
    BY <2>1, <2>6, <2>7, <2>8 DEF LoadingOK
  <2>10. loading = Chosen /\ Chosen \in tried /\ Chosen' = Chosen
    BY <2>1, <2>2 DEF LoadingOK, Chosen
  <2>11. /\ DOMAIN replaced' = Replaceable
         /\ \A m \in Done' : replaced'[m] = Chosen
    BY <2>1, <2>2, <2>3, <2>7, <2>10 DEF LoadingOK, Done, Replaceable
  <2>12. LoadingOK'
    BY <2>1, <2>2, <2>3, <2>4, <2>6, <2>9, <2>10, <2>11 DEF LoadingOK, Replaceable
  <2> QED
    BY <2>2, <2>12 DEF ParsedOK
<1>5. CASE ImportFails
  <2>1. /\ spc' = "failed" /\ spc \in Replaceable
        /\ UNCHANGED <<settings, parsed, tried, early, replaced>>
    BY <1>5 DEF ImportFails, Loading, LoadOrder, Range, Replaceable
  <2>2. PICK from \in SUBSET Facades :
          /\ Copies(from, FacadeNames)
          /\ from \subseteq {"segments", "common"} /\ (from # {} => spc = "listener")
    BY <1>5 DEF ImportFails, Facades
  <2>3. /\ DOMAIN copied' = Facades
        /\ \A m \in Facades : \/ copied'[m] = copied[m]
                              \/ spc = "listener" /\ m \in {"segments", "common"}
                                 /\ copied'[m] = replaced[FacadeNames[m]]
    BY <2>2, CopiesAreOf
  <2>4. spc = "listener" => replaced["res"] = Chosen /\ replaced["common"] = Chosen
    BY DEF LoadingOK, Done
  <2>5. FacadeNames["segments"] = "res" /\ FacadeNames["common"] = "common"
    BY DEF FacadeNames
  <2>6. ~early => \A m \in Facades : copied'[m] \in tried \union {"none"}
    BY <2>1, <2>3, <2>4, <2>5 DEF LoadingOK
  <2>7. LoadingOK'
    BY <2>1, <2>3, <2>6 DEF LoadingOK, Done, Replaceable
  <2> QED
    BY <2>1, <2>7 DEF ParsedOK
<1>6. CASE StartRun
  <2>1. /\ spc = "returned" /\ spc' = "running" /\ Copies(Facades, FacadeNames)
        /\ UNCHANGED <<settings, parsed, loading, tried, early, replaced>>
    BY <1>6 DEF StartRun, LoadingOK
  <2>2. /\ DOMAIN copied' = Facades
        /\ \A m \in Facades : \/ copied'[m] = copied[m] /\ copied[m] # "none"
                              \/ copied'[m] = replaced[FacadeNames[m]]
    BY <2>1, CopiesAreOf
  <2>3. \A m \in Facades : replaced[FacadeNames[m]] = Chosen
    BY <2>1 DEF LoadingOK, Done, FacadeNames, Facades, Replaceable
  <2>4. Chosen \in tried /\ tried \subseteq Adapters
    BY <2>1 DEF LoadingOK
  <2>5. \A m \in Facades : copied'[m] # "none" /\ (~early => copied'[m] \in tried)
    BY <2>2, <2>3, <2>4, <1>a DEF LoadingOK
  <2>6. LoadingOK'
    BY <2>1, <2>2, <2>4, <2>5 DEF LoadingOK, Done, Replaceable, Chosen
  <2> QED
    BY <2>1, <2>6 DEF ParsedOK
<1>7. CASE UNCHANGED startVars
  <2>1. /\ UNCHANGED <<settings, parsed, spc, loading, replaced, copied, tried, early>>
        /\ Chosen' = Chosen /\ Done' = Done
    BY <1>7 DEF startVars, Chosen, Done
  <2>2. ParsedOK'
    BY <2>1 DEF ParsedOK
  <2>3. LoadingOK'
    BY <2>1 DEF LoadingOK
  <2> QED
    BY <2>2, <2>3
<1> QED
  BY <1>1, <1>2, <1>3, <1>4, <1>5, <1>6, <1>7 DEF StartNext

\* The entry parsed for a protocol is the last of the section that is its.
LEMMA ParsedIsLast ==
  ASSUME NEW s \in Sections, NEW p, \E i \in DOMAIN s : Canon(s[i].key) = p
  PROVE  \E i \in 1..Len(s) :
           /\ Canon(s[i].key) = p
           /\ \A j \in 1..Len(s) : Canon(s[j].key) = p => j <= i
           /\ p \in DOMAIN Parse(s) /\ Parse(s)[p].key = s[i].key
<1> DEFINE mine == {i \in 1..Len(s) : Canon(s[i].key) = p}
<1>1. Len(s) \in Nat /\ DOMAIN s = 1..Len(s)
  BY StartupAssumption
<1>2. mine \in SUBSET (1..Len(s)) /\ mine # {}
  BY <1>1
<1>3. PICK i \in mine : \A j \in mine : j <= i
  <2> HIDE DEF mine
  <2> QED
    BY <1>1, <1>2, GreatestNat
<1> DEFINE Latest(k) == /\ Canon(s[k].key) = p
                      /\ \A j \in k + 1 .. Len(s) : Canon(s[j].key) # p
<1>4. Latest(i) /\ i \in DOMAIN s
  BY <1>1, <1>3
<1>5. ASSUME NEW k \in DOMAIN s, Latest(k) PROVE k = i
  <2>1. k <= i
    BY <1>1, <1>3, <1>5
  <2>2. ~(k < i)
    BY <1>1, <1>3, <1>5
  <2> QED
    BY <1>1, <2>1, <2>2
<1>6. LastFor(s, p) = s[CHOOSE k \in DOMAIN s : Latest(k)]
  BY DEF LastFor
<1>7. LastFor(s, p) = s[i]
  <2> HIDE DEF Latest
  <2> QED
    BY <1>4, <1>5, <1>6
<1>8. p \in ProtocolsOf(s)
  BY <1>4 DEF ProtocolsOf
<1>9. p \in DOMAIN Parse(s) /\ Parse(s)[p].key = s[i].key
  BY <1>7, <1>8 DEF Parse
<1> QED
  BY <1>3, <1>9

\* What the invariant says of a start that is over.
LEMMA WholeThen == StartupInv => AdapterIsWhole
<1> SUFFICES ASSUME StartupInv PROVE AdapterIsWhole
  OBVIOUS
<1> USE DEF StartupInv
<1>1. spc \in {"returned", "running"} => \A m \in DOMAIN replaced : replaced[m] = Chosen
  BY DEF LoadingOK, Done
<1>2. ASSUME spc = "running", ~early, Cardinality(tried) = 1
      PROVE  \A m \in DOMAIN copied : copied[m] = Chosen
  <2>1. tried = {Chosen}
    <3>1. IsFiniteSet(Adapters)
      <4>1. IsFiniteSet({"OneBot"})
        BY FS_Singleton
      <4>2. IsFiniteSet({"OneBot"} \union {"Milky"})
        BY <4>1, FS_AddElement
      <4>3. IsFiniteSet({"OneBot"} \union {"Milky"} \union {"Feishu"})
        BY <4>2, FS_AddElement
      <4>4. Adapters = {"OneBot"} \union {"Milky"} \union {"Feishu"}
        BY DEF Adapters
      <4> QED
        BY <4>3, <4>4
    <3>2. IsFiniteSet(tried) /\ Chosen \in tried
      BY <1>2, <3>1, FS_Subset DEF LoadingOK
    <3> QED
      BY <1>2, <3>2, FS_Singleton
  <2> QED
    BY <1>2, <2>1 DEF LoadingOK
<1> DEFINE user == IF settings.connections # NoSection THEN settings.connections
                   ELSE settings.upper
           mine == {i \in 1 .. (IF user = NoSection THEN 0 ELSE Len(user)) :
                      Canon(user[i].key) = Chosen}
<1>3. ASSUME mine # {}
      PROVE  \E i \in mine : /\ \A j \in mine : j <= i
                             /\ GetConnection(Chosen).key = user[i].key
  <2>1. user # NoSection
    BY <1>3
  <2>2. user \in Sections /\ parsed = Parse(user)
    <3>1. CASE settings.connections # NoSection
      BY <3>1 DEF ParsedOK
    <3>2. CASE settings.connections = NoSection
      <4>1. user = settings.upper
        BY <3>2
      <4> QED
        BY <2>1, <3>2, <4>1 DEF ParsedOK
    <3> QED
      BY <3>1, <3>2
  <2>3. Len(user) \in Nat /\ DOMAIN user = 1..Len(user)
    BY <2>2, StartupAssumption
  <2>4. mine = {i \in 1..Len(user) : Canon(user[i].key) = Chosen}
    BY <2>1
  <2> HIDE DEF user
  <2>5. \E i \in DOMAIN user : Canon(user[i].key) = Chosen
    BY <1>3, <2>3, <2>4
  <2>6. PICK i \in 1..Len(user) :
          /\ Canon(user[i].key) = Chosen
          /\ \A j \in 1..Len(user) : Canon(user[j].key) = Chosen => j <= i
          /\ Chosen \in DOMAIN Parse(user) /\ Parse(user)[Chosen].key = user[i].key
    BY <2>2, <2>5, ParsedIsLast
  <2>7. GetConnection(Chosen).key = user[i].key
    BY <2>2, <2>6 DEF GetConnection
  <2> QED
    BY <2>4, <2>6, <2>7
<1>4. ASSUME spc = "running" PROVE "listener" \in DOMAIN copied
  BY DEF LoadingOK, Facades
<1> QED
  BY <1>1, <1>2, <1>3, <1>4 DEF AdapterIsWhole, Chosen

\* A process that runs has all of one adapter's modules, also where the facades
\* have copied them, and the connection that the configuration gives it last.
THEOREM LoadedAdapterIsWhole == StartSpec => []AdapterIsWhole
<1> QED
  BY StartupInit, StartupStep, WholeThen, PTL DEF StartSpec

----------------------------------------------------------------------------
(* ApiCalls: for any callers and number of attempts.                        *)

Manners == {"told", "ordered", "asked", "forwarded", "local", "swallowed", "caught", "ignored",
            "unsupported"}

\* The manners of a table are those of its parts.
LEMMA Merged ==
  ASSUME NEW f, NEW g, NEW S, \A x \in DOMAIN f : f[x] \in S, \A x \in DOMAIN g : g[x] \in S
  PROVE  \A x \in DOMAIN And(f, g) : And(f, g)[x] \in S
  BY DEF And

\* A OneBot call only tells, or asks.
LEMMA OneBotManners ==
  ASSUME NEW a \in {"websocket", "http"}, NEW op \in DOMAIN MannerOf(a)
  PROVE  MannerOf(a)[op] \in {"told", "asked"}
<1>1. \A x \in DOMAIN OneBotMessages : OneBotMessages[x] \in {"told", "asked"}
  BY DEF OneBotMessages
<1>2. \A x \in DOMAIN OneBotGroups : OneBotGroups[x] \in {"told", "asked"}
  BY DEF OneBotGroups
<1>3. \A x \in DOMAIN OneBotCustom : OneBotCustom[x] \in {"told", "asked"}
  BY DEF OneBotCustom
<1>4. MannerOf(a) = And(OneBotMessages, And(OneBotGroups, OneBotCustom))
  BY DEF MannerOf
<1> QED
  BY <1>1, <1>2, <1>3, <1>4, Merged

\* Every operation of an adapter has a manner.
LEMMA AllManners ==
  ASSUME NEW a \in {"websocket", "http", "milky", "feishu"}, NEW op \in DOMAIN MannerOf(a)
  PROVE  MannerOf(a)[op] \in Manners
<1> USE DEF Manners
<1>1. CASE a = "milky"
  <2>1. \A x \in DOMAIN MilkyMessages : MilkyMessages[x] \in Manners
    BY DEF MilkyMessages
  <2>2. \A x \in DOMAIN MilkyGroups : MilkyGroups[x] \in Manners
    BY DEF MilkyGroups
  <2>3. \A x \in DOMAIN MilkyOthers : MilkyOthers[x] \in Manners
    BY DEF MilkyOthers
  <2>4. MannerOf(a) = And(MilkyMessages, And(MilkyGroups, MilkyOthers))
    BY <1>1 DEF MannerOf
  <2> HIDE DEF Manners
  <2> QED
    BY <2>1, <2>2, <2>3, <2>4, Merged
<1>2. CASE a = "feishu"
  <2>1. \A x \in DOMAIN FeishuMessages : FeishuMessages[x] \in Manners
    BY DEF FeishuMessages
  <2>2. \A x \in DOMAIN FeishuGroups : FeishuGroups[x] \in Manners
    BY DEF FeishuGroups
  <2>3. \A x \in DOMAIN FeishuCustom : FeishuCustom[x] \in Manners
    BY DEF FeishuCustom
  <2>4. MannerOf(a) = And(FeishuMessages, And(FeishuGroups, FeishuCustom))
    BY <1>2 DEF MannerOf
  <2> HIDE DEF Manners
  <2> QED
    BY <2>1, <2>2, <2>3, <2>4, Merged
<1>3. CASE a \in {"websocket", "http"}
  BY <1>3, OneBotManners
<1> QED
  BY <1>1, <1>2, <1>3

----------------------------------------------------------------------------
Places == {"idle", "refused", "posting", "reported", "fetching", "awaiting", "returned", "raised"}
Mails == SUBSET [report : Reports, old : BOOLEAN]

Calls == [pc : Places, manner : Manners, fills : BOOLEAN, attempt : 1..MaxAttempts,
          done : Nat, report : Reports]

CallTypes ==
  /\ api \in {"websocket", "http", "milky", "feishu"}
  /\ call \in [Callers -> Calls]
  /\ link \in [Callers -> {"nothing", "request", "report"}]
  /\ mail \in [Callers -> Mails]

OneBot == api \in {"websocket", "http"}

\* What is known of a call, by where it is.
CallOK(c) ==
  /\ call[c].pc = "idle" => call[c].attempt = 1
  /\ call[c].pc \in {"idle", "refused"} => call[c].done = 0 /\ link[c] = "nothing"
  /\ OneBot /\ call[c].pc # "idle" => call[c].manner \in {"told", "asked"}
  /\ call[c].pc = "posting" =>
       /\ call[c].done < (IF api = "milky" THEN call[c].attempt ELSE 1)
       /\ link[c] = "nothing"
       /\ call[c].manner \notin {"local", "ignored", "unsupported"}
  /\ call[c].done <= (IF api = "milky" THEN MaxAttempts ELSE 1)
  /\ call[c].pc = "reported" /\ call[c].manner # "local" /\ call[c].report.ok => call[c].done > 0
  /\ call[c].manner \in {"ordered", "forwarded"} =>
       /\ call[c].pc \in {"fetching", "returned"} => call[c].done > 0
       /\ call[c].pc # "awaiting"
  /\ call[c].pc \in {"reported", "fetching"} => ~OneBot
  /\ call[c].pc = "awaiting" => OneBot
  /\ link[c] # "nothing" => OneBot
  /\ link[c] = "request" => call[c].done = 0
  /\ call[c].pc = "fetching" => \E m \in mail[c] : ~m.old

CallsInv == CallTypes /\ \A c \in Callers : CallOK(c)

\* At first nobody calls.
LEMMA CallsInit == ApiInit => CallsInv
  BY ApiAssumption
  DEF ApiInit, CallsInv, CallTypes, Calls, CallOK, Places, Manners, Mails, Reports, Failure, Report, OneBot

\* A step of one caller leaves the others' calls alone, and no mail that is new
\* is dropped.
LEMMA OthersKept ==
  ASSUME CallsInv, CallTypes', NEW c \in Callers, NEW d \in Callers \ {c},
         call'[d] = call[d], link'[d] = link[d], api' = api, mail'[d] \in {mail[d], Kept(d)}
  PROVE  CallOK(d)'
<1>1. CallOK(d)
  BY DEF CallsInv
<1>2. (\E m \in mail[d] : ~m.old) => (\E m \in mail'[d] : ~m.old)
  BY DEF Kept
<1> QED
  BY <1>1, <1>2 DEF CallOK, OneBot

\* A step of one caller keeps the invariant if its own call does.
LEMMA OneCalls ==
  ASSUME CallsInv, CallTypes', NEW c \in Callers, CallOK(c)', api' = api,
         \A d \in Callers \ {c} : /\ call'[d] = call[d] /\ link'[d] = link[d]
                                 /\ mail'[d] \in {mail[d], Kept(d)}
  PROVE  CallsInv'
  BY OthersKept DEF CallsInv

\* A call whose fields keep their sets is a call.
LEMMA StaysCall ==
  ASSUME CallTypes, NEW c \in Callers, NEW k \in Calls, call' = [call EXCEPT ![c] = k],
         api' = api, link' \in [Callers -> {"nothing", "request", "report"}],
         mail' \in [Callers -> Mails]
  PROVE  CallTypes'
  BY DEF CallTypes

\* A report that comes makes the older mail of the others old.
LEMMA Mailing ==
  ASSUME CallTypes, NEW c \in Callers, NEW r \in Reports, mail' = MailWith(c, r)
  PROVE  /\ mail' \in [Callers -> Mails]
         /\ mail'[c] = {[report |-> r, old |-> FALSE]}
         /\ \A d \in Callers \ {c} : mail'[d] = Kept(d)
  BY DEF CallTypes, Calls, MailWith, Kept, Mails

\* One step per action of a caller.
LEMMA CallsStep ==
  ASSUME CallsInv, NEW c \in Callers,
         CallStep(c) \/ GrowOld(c) \/ Serve(c) \/ DeliverReport(c) \/ LoseReport(c)
  PROVE  CallsInv'
<1> USE ApiAssumption DEF Places, OneBot
<1>t. CallTypes
  BY DEF CallsInv
<1>ok. CallOK(c)
  BY DEF CallsInv
<1>r. Failure \in Reports /\ ~Failure.ok /\ Report(TRUE, "whole") \in Reports
      /\ \A r \in Reports : r.ok \in BOOLEAN
  BY DEF Reports, Failure, Report
<1>1. CASE StartCall(c)
  <2>1. PICK op \in DOMAIN MannerOf(api), good \in BOOLEAN :
          LET manner == MannerOf(api)[op]
          IN  call' = [call EXCEPT ![c].manner = manner, ![c].fills = op \in Fills(api),
                                ![c].pc = IF ~good /\ op \in Checks(api) THEN "refused"
                                          ELSE StartPc(manner),
                                ![c].report = IF manner = "local" THEN Report(TRUE, "whole")
                                              ELSE Failure]
    BY <1>1 DEF StartCall
  <2>2. PICK manner \in Manners : manner = MannerOf(api)[op]
    BY <1>t, AllManners DEF CallTypes, Calls
  <2>3. OneBot => manner \in {"told", "asked"}
    BY <2>2, OneBotManners DEF OneBot
  <2>4. /\ StartPc(manner) \in Places
        /\ StartPc(manner) = "posting" => manner \notin {"local", "ignored", "unsupported"}
        /\ StartPc(manner) = "reported" => manner = "local"
        /\ StartPc(manner) = "returned" => manner = "ignored"
        /\ StartPc(manner) \in {"posting", "reported", "returned", "refused"}
    BY DEF StartPc, Manners
  <2>5. PICK pc \in {"refused", StartPc(manner)} :
          pc = IF ~good /\ op \in Checks(api) THEN "refused" ELSE StartPc(manner)
    <3>1. CASE ~good /\ op \in Checks(api)
      BY <3>1, Zenon
    <3>2. CASE ~(~good /\ op \in Checks(api))
      BY <3>2, Zenon
    <3> QED
      BY <3>1, <3>2
  <2>6. PICK report \in Reports :
          report = (IF manner = "local" THEN Report(TRUE, "whole") ELSE Failure)
    BY <1>r
  <2> DEFINE fills == op \in Fills(api)
  <2>7. fills \in BOOLEAN
    OBVIOUS
  <2>8. call' = [call EXCEPT ![c].manner = manner, ![c].fills = fills, ![c].pc = pc,
                             ![c].report = report]
    BY <2>1, <2>2, <2>5, <2>6, Zenon
  <2> HIDE DEF fills
  <2>9. UNCHANGED <<api, link, mail>> /\ call[c].pc = "idle"
    BY <1>1 DEF StartCall
  <2>10. CallTypes'
    BY <1>t, <2>4, <2>5, <2>7, <2>8, <2>9 DEF CallTypes, Calls
  <2>11. /\ call'[c].pc = pc /\ call'[c].manner = manner /\ call'[c].report = report
         /\ call'[c].done = call[c].done /\ call'[c].attempt = call[c].attempt
    BY <1>t, <2>8 DEF CallTypes, Calls
  <2>12. CallOK(c)'
    BY <1>t, <1>ok, <2>3, <2>4, <2>5, <2>9, <2>11 DEF CallTypes, Calls, CallOK
  <2>13. \A d \in Callers \ {c} : call'[d] = call[d]
    BY <1>t, <2>8 DEF CallTypes, Calls
  <2> QED
    BY <2>9, <2>10, <2>12, <2>13, OneCalls
<1>2. CASE PostFrame(c)
  <2>1. CallTypes'
    BY <1>t, <1>2 DEF CallTypes, Calls, PostFrame, Goes, Sent
  <2>2. CallOK(c)'
    BY <1>t, <1>ok, <1>2 DEF CallTypes, Calls, CallOK, PostFrame, Goes, Sent
  <2>3. /\ api' = api
        /\ \A d \in Callers \ {c} : /\ call'[d] = call[d] /\ link'[d] = link[d]
                                    /\ mail'[d] \in {mail[d], Kept(d)}
    BY <1>t, <1>2 DEF CallTypes, Calls, PostFrame, Goes, Sent
  <2> QED
    BY <2>1, <2>2, <2>3, OneCalls
<1>3. CASE Serve(c)
  <2>1. PICK r \in Reports : call' = [call EXCEPT ![c].report = r, ![c].done = Carried(c, r.ok)]
    BY <1>3 DEF Serve
  <2>2. link' = [link EXCEPT ![c] = "report"] /\ link[c] = "request" /\ UNCHANGED <<api, mail>>
    BY <1>3 DEF Serve
  <2>3. Carried(c, r.ok) \in {0, 1}
    BY <1>t, <1>ok, <2>2 DEF CallTypes, Calls, CallOK, Carried
  <2>4. CallTypes'
    <3>1. PICK n \in Nat : n = Carried(c, r.ok)
      BY <2>3
    <3>2. PICK k : k = [call[c] EXCEPT !.report = r, !.done = n]
      OBVIOUS
    <3>3. k \in Calls
      BY <1>t, <3>2 DEF CallTypes, Calls
    <3>4. call' = [call EXCEPT ![c] = k]
      BY <1>t, <2>1, <3>1, <3>2 DEF CallTypes
    <3> QED
      BY <1>t, <2>2, <3>3, <3>4, StaysCall DEF CallTypes
  <2>5. /\ call'[c].pc = call[c].pc /\ call'[c].manner = call[c].manner
        /\ call'[c].done = Carried(c, r.ok) /\ link'[c] = "report"
    BY <1>t, <2>1, <2>2 DEF CallTypes, Calls
  <2>6. CallOK(c)'
    BY <1>t, <1>ok, <2>2, <2>3, <2>5 DEF CallTypes, Calls, CallOK
  <2>7. \A d \in Callers \ {c} : call'[d] = call[d] /\ link'[d] = link[d]
    BY <1>t, <2>1, <2>2 DEF CallTypes, Calls
  <2> QED
    BY <2>2, <2>4, <2>6, <2>7, OneCalls
<1>4. CASE PostHttp(c)
  <2>1. PICK r \in Reports :
          \/ /\ call' = [call EXCEPT ![c].pc = "raised", ![c].done = Carried(c, r.ok)]
             /\ UNCHANGED link
          \/ /\ call' = [call EXCEPT ![c].pc = Sent(c), ![c].report = r,
                                      ![c].done = Carried(c, r.ok)]
             /\ link' = [link EXCEPT ![c] = "report"]
    BY <1>4 DEF PostHttp
  <2>2. UNCHANGED <<api, mail>> /\ api = "http" /\ call[c].pc = "posting"
    BY <1>4 DEF PostHttp
  <2>3. /\ Carried(c, r.ok) \in {0, 1} /\ link[c] = "nothing"
        /\ Sent(c) = "returned" \/ Sent(c) = "awaiting"
    BY <1>t, <1>ok, <2>2 DEF CallTypes, Calls, CallOK, Carried, Sent
  <2>4. CallTypes'
    <3>1. PICK n \in Nat : n = Carried(c, r.ok)
      BY <2>3
    <3>2. PICK pc \in Places : pc = Sent(c)
      BY <2>3
    <3>3. PICK k : k \in {[call[c] EXCEPT !.pc = "raised", !.done = n],
                         [call[c] EXCEPT !.pc = pc, !.report = r, !.done = n]}
                   /\ call' = [call EXCEPT ![c] = k]
      BY <1>t, <2>1, <3>1, <3>2 DEF CallTypes
    <3>4. k \in Calls
      <4>1. call[c] \in Calls /\ "raised" \in Places
        BY <1>t DEF CallTypes
      <4>2. CASE k = [call[c] EXCEPT !.pc = "raised", !.done = n]
        BY <4>1, <4>2 DEF Calls
      <4>3. CASE k = [call[c] EXCEPT !.pc = pc, !.report = r, !.done = n]
        BY <4>1, <4>3 DEF Calls
      <4> QED
        BY <3>3, <4>2, <4>3
    <3>5. link' \in [Callers -> {"nothing", "request", "report"}] /\ mail' \in [Callers -> Mails]
      BY <1>t, <2>1, <2>2 DEF CallTypes
    <3> QED
      BY <1>t, <2>2, <3>3, <3>4, <3>5, StaysCall
  <2>5. /\ call'[c].pc \in {"raised", Sent(c)} /\ call'[c].manner = call[c].manner
        /\ call'[c].done = Carried(c, r.ok) /\ link'[c] \in {"nothing", "report"}
    BY <1>t, <2>1, <2>2, <2>3 DEF CallTypes, Calls
  <2>6. CallOK(c)'
    BY <1>t, <1>ok, <2>2, <2>3, <2>5 DEF CallTypes, Calls, CallOK
  <2>7. \A d \in Callers \ {c} : call'[d] = call[d] /\ link'[d] = link[d]
    BY <1>t, <2>1, <2>2 DEF CallTypes, Calls
  <2> QED
    BY <2>2, <2>4, <2>6, <2>7, OneCalls
<1>5. CASE PostMilky(c)
  <2>1. PICK r \in Reports, acted \in BOOLEAN :
          \/ /\ r.ok => acted
             /\ call' = [call EXCEPT ![c].pc = "reported", ![c].report = r,
                                     ![c].done = Carried(c, acted)]
          \/ call' = [call EXCEPT ![c].done = Carried(c, acted), ![c].report = Failure,
                               ![c].pc = IF LastAttempt(c) THEN "reported" ELSE "posting",
                               ![c].attempt = IF LastAttempt(c) THEN @ ELSE @ + 1]
    BY <1>5 DEF PostMilky
  <2>2. UNCHANGED <<api, link, mail>> /\ api = "milky" /\ call[c].pc = "posting"
    BY <1>5 DEF PostMilky
  <2>3. /\ Carried(c, acted) \in Nat /\ Carried(c, acted) <= call[c].attempt
        /\ acted => Carried(c, acted) > 0
        /\ call[c].attempt \in 1..MaxAttempts
    BY <1>t, <1>ok, <2>2 DEF CallTypes, Calls, CallOK, Carried
  <2>4. CASE /\ r.ok => acted
             /\ call' = [call EXCEPT ![c].pc = "reported", ![c].report = r,
                                     ![c].done = Carried(c, acted)]
    <3>1. CallTypes'
      <4>1. PICK n \in Nat : n = Carried(c, acted)
        BY <2>3
      <4>2. PICK k : k = [call[c] EXCEPT !.pc = "reported", !.report = r, !.done = n]
        OBVIOUS
      <4>3. k \in Calls
        BY <1>t, <4>2 DEF CallTypes, Calls
      <4>4. call' = [call EXCEPT ![c] = k]
        BY <1>t, <2>4, <4>1, <4>2 DEF CallTypes
      <4> QED
        BY <1>t, <2>2, <4>3, <4>4, StaysCall DEF CallTypes
    <3>2. /\ call'[c].pc = "reported" /\ call'[c].manner = call[c].manner
          /\ call'[c].done = Carried(c, acted) /\ call'[c].report = r
      BY <1>t, <2>4 DEF CallTypes, Calls
    <3>3. CallOK(c)'
      BY <1>t, <1>ok, <2>2, <2>3, <2>4, <3>2 DEF CallTypes, Calls, CallOK
    <3>4. \A d \in Callers \ {c} : call'[d] = call[d]
      BY <1>t, <2>4 DEF CallTypes, Calls
    <3> QED
      BY <2>2, <3>1, <3>3, <3>4, OneCalls
  <2>5. CASE call' = [call EXCEPT ![c].done = Carried(c, acted), ![c].report = Failure,
                               ![c].pc = IF LastAttempt(c) THEN "reported" ELSE "posting",
                               ![c].attempt = IF LastAttempt(c) THEN @ ELSE @ + 1]
    <3>1. PICK n \in 1..MaxAttempts :
            n = IF LastAttempt(c) THEN call[c].attempt ELSE call[c].attempt + 1
      BY <2>3 DEF LastAttempt
    <3>2. call' = [call EXCEPT ![c].done = Carried(c, acted), ![c].report = Failure,
                               ![c].pc = IF LastAttempt(c) THEN "reported" ELSE "posting",
                               ![c].attempt = n]
      BY <1>t, <2>5, <3>1 DEF CallTypes, Calls
    <3>3. CallTypes'
      <4>1. PICK m \in Nat : m = Carried(c, acted)
        BY <2>3
      <4>2. PICK k : k = [call[c] EXCEPT !.done = m, !.report = Failure, !.attempt = n,
                            !.pc = IF LastAttempt(c) THEN "reported" ELSE "posting"]
        OBVIOUS
      <4>3. k \in Calls
        <5>1. PICK pc \in Places : pc = IF LastAttempt(c) THEN "reported" ELSE "posting"
          OBVIOUS
        <5>2. PICK failure \in Reports : failure = Failure
          BY <1>r
        <5>3. k = [call[c] EXCEPT !.done = m, !.report = failure, !.attempt = n, !.pc = pc]
          BY <4>2, <5>1, <5>2
        <5>4. call[c] \in Calls
          BY <1>t DEF CallTypes
        <5> QED
          BY <5>3, <5>4 DEF Calls
      <4>4. call' = [call EXCEPT ![c] = k]
        BY <1>t, <3>2, <4>1, <4>2 DEF CallTypes
      <4> QED
        BY <1>t, <2>2, <4>3, <4>4, StaysCall DEF CallTypes
    <3>4. /\ call'[c].pc = IF LastAttempt(c) THEN "reported" ELSE "posting"
          /\ call'[c].manner = call[c].manner
          /\ call'[c].done = Carried(c, acted) /\ call'[c].report = Failure
          /\ call'[c].attempt = n
      BY <1>t, <3>2 DEF CallTypes, Calls
    <3>5. CallOK(c)'
      BY <1>t, <1>ok, <1>r, <2>2, <2>3, <3>1, <3>4 DEF CallTypes, Calls, CallOK, LastAttempt
    <3>6. \A d \in Callers \ {c} : call'[d] = call[d]
      BY <1>t, <3>2 DEF CallTypes, Calls
    <3> QED
      BY <2>2, <3>3, <3>5, <3>6, OneCalls
  <2> QED
    BY <2>1, <2>4, <2>5
<1>6. CASE PostFeishu(c)
  <2>1. PICK acted \in BOOLEAN, answered \in BOOLEAN :
          call' = [call EXCEPT
            ![c].done = IF acted THEN @ + 1 ELSE @,
            ![c].report = IF acted /\ answered THEN Report(TRUE, "whole") ELSE Failure,
            ![c].pc = CASE call[c].manner = "swallowed" -> "returned"
                        [] call[c].manner = "caught" -> "reported"
                        [] call[c].manner \notin {"swallowed", "caught"} /\ acted /\ answered ->
                             "reported"
                        [] OTHER -> "raised"]
    BY <1>6 DEF PostFeishu
  <2>2. UNCHANGED <<api, link, mail>> /\ api = "feishu" /\ call[c].pc = "posting"
    BY <1>6 DEF PostFeishu
  <2>3. call[c].done = 0
    BY <1>t, <1>ok, <2>2 DEF CallTypes, Calls, CallOK
  <2>4. PICK n \in {0, 1} : n = (IF acted THEN call[c].done + 1 ELSE call[c].done) /\ (acted => n = 1)
    BY <2>3
  <2>5. PICK report \in Reports :
          /\ report = (IF acted /\ answered THEN Report(TRUE, "whole") ELSE Failure)
          /\ report.ok => acted
    BY <1>r
  <2>6. PICK pc \in {"returned", "reported", "raised"} :
          /\ pc = CASE call[c].manner = "swallowed" -> "returned"
                     [] call[c].manner = "caught" -> "reported"
                     [] call[c].manner \notin {"swallowed", "caught"} /\ acted /\ answered ->
                          "reported"
                     [] OTHER -> "raised"
          /\ pc = "returned" => call[c].manner = "swallowed"
    BY <1>6
  <2>7. call' = [call EXCEPT ![c].done = n, ![c].report = report, ![c].pc = pc]
    BY <1>t, <2>1, <2>4, <2>5, <2>6 DEF CallTypes, Calls
  <2>8. CallTypes'
    BY <1>t, <2>2, <2>7 DEF CallTypes, Calls
  <2>9. /\ call'[c].pc = pc /\ call'[c].manner = call[c].manner
        /\ call'[c].done = n /\ call'[c].report = report
    BY <1>t, <2>7 DEF CallTypes, Calls
  <2>10. CallOK(c)'
    <3>1. n <= 1 /\ n \in Nat /\ (report.ok => n > 0)
      <4>1. report.ok => n = 1
        BY <2>4, <2>5, Zenon
      <4>2. n <= 1 /\ n \in Nat /\ (n = 1 => n > 0)
        OBVIOUS
      <4> QED
        BY <4>1, <4>2, Zenon
    <3>2. link[c] = "nothing" /\ ~OneBot /\ call[c].manner \in Manners
      BY <1>t, <1>ok, <2>2 DEF CallTypes, Calls, CallOK
    <3>3. call'[c].manner \in {"ordered", "forwarded"} => call'[c].pc \in {"reported", "raised"}
      BY <2>6, <2>9
    <3>4. call'[c].pc \in {"returned", "reported", "raised"}
      BY <2>9
    <3> QED
      BY <2>2, <2>4, <2>9, <3>1, <3>2, <3>3, <3>4 DEF CallOK
  <2>11. \A d \in Callers \ {c} : call'[d] = call[d]
    BY <1>t, <2>7 DEF CallTypes, Calls
  <2> QED
    BY <2>2, <2>8, <2>10, <2>11, OneCalls
<1>7. ASSUME mail' = MailWith(c, call[c].report), UNCHANGED <<api, link>>, call[c].pc = "reported",
             NEW pc \in {"returned", "raised", "fetching"}, Goes(c, pc) \/ Ends(c, pc),
             call[c].manner \in {"ordered", "forwarded"} /\ pc # "raised" => call[c].report.ok
      PROVE  CallsInv'
  <2>1. call[c].report \in Reports
    BY <1>t DEF CallTypes, Calls
  <2>2. /\ mail' \in [Callers -> Mails]
        /\ mail'[c] = {[report |-> call[c].report, old |-> FALSE]}
        /\ \A d \in Callers \ {c} : mail'[d] = Kept(d)
    BY <1>t, <1>7, <2>1, Mailing
  <2>3. CallTypes'
    <3>1. call[c] \in Calls
      BY <1>t DEF CallTypes
    <3>2. [call[c] EXCEPT !.pc = pc] \in Calls
      BY <3>1 DEF Calls
    <3>3. [call[c] EXCEPT !.pc = pc, !.report = Failure, !.fills = FALSE, !.attempt = 1] \in Calls
      <4>1. 1 \in 1..MaxAttempts /\ FALSE \in BOOLEAN /\ pc \in Places
        OBVIOUS
      <4> HIDE DEF Places
      <4> QED
        BY <1>r, <3>1, <4>1 DEF Calls
    <3>4. \/ call' = [call EXCEPT ![c] = [call[c] EXCEPT !.pc = pc]]
          \/ call' = [call EXCEPT ![c] = [call[c] EXCEPT !.pc = pc, !.report = Failure,
                                                        !.fills = FALSE, !.attempt = 1]]
      BY <1>t, <1>7 DEF CallTypes, Goes, Ends
    <3> QED
      BY <1>t, <1>7, <2>2, <3>2, <3>3, <3>4, StaysCall DEF CallTypes
  <2>4. /\ call'[c].pc = pc /\ call'[c].manner = call[c].manner
        /\ call'[c].done = call[c].done
    BY <1>t, <1>7 DEF CallTypes, Calls, Goes, Ends
  <2>5. \E m \in mail'[c] : ~m.old
    BY <2>2
  <2>6. CallOK(c)'
    BY <1>t, <1>ok, <1>7, <2>4, <2>5 DEF CallTypes, Calls, CallOK
  <2>7. \A d \in Callers \ {c} : call'[d] = call[d]
    BY <1>t, <1>7 DEF CallTypes, Calls, Goes, Ends
  <2> QED
    BY <1>7, <2>2, <2>3, <2>6, <2>7, OneCalls
<1>8. CASE PutReport(c)
  <2> DEFINE manner == call[c].manner
             r == call[c].report
  <2>1. mail' = MailWith(c, r) /\ UNCHANGED <<api, link>> /\ call[c].pc = "reported"
    BY <1>8 DEF PutReport
  <2>2. CASE manner = "ordered"
    <3>1. Ends(c, IF Successful(r) THEN "returned" ELSE "raised")
      BY <1>8, <2>2 DEF PutReport
    <3> QED
      BY <1>7, <2>1, <3>1 DEF Successful
  <2>3. CASE manner = "forwarded"
    <3>1. IF Successful(r) /\ r.data = "whole" THEN Goes(c, "fetching") ELSE Ends(c, "raised")
      BY <1>8, <2>3 DEF PutReport
    <3> QED
      BY <1>7, <2>1, <3>1 DEF Successful
  <2>4. CASE manner \in {"told", "caught"}
    <3>1. Ends(c, "returned")
      BY <1>8, <2>4 DEF PutReport
    <3> QED
      BY <1>7, <2>1, <2>4, <3>1
  <2>5. CASE manner \notin {"ordered", "forwarded", "told", "caught"}
    <3>1. Goes(c, "fetching")
      BY <1>8, <2>5 DEF PutReport
    <3> QED
      BY <1>7, <2>1, <2>5, <3>1
  <2> QED
    BY <2>2, <2>3, <2>4, <2>5
<1>9. CASE DeliverReport(c)
  <2>1. call[c].report \in Reports
    BY <1>t DEF CallTypes, Calls
  <2>2. /\ mail' \in [Callers -> Mails]
        /\ mail'[c] = {[report |-> call[c].report, old |-> FALSE]}
        /\ \A d \in Callers \ {c} : mail'[d] = Kept(d)
    BY <1>t, <1>9, <2>1, Mailing DEF DeliverReport
  <2>3. UNCHANGED <<api, call>> /\ link' = [link EXCEPT ![c] = "nothing"] /\ link[c] = "report"
    BY <1>9 DEF DeliverReport
  <2>4. CallTypes'
    BY <1>t, <2>2, <2>3 DEF CallTypes, Calls
  <2>5. \E m \in mail'[c] : ~m.old
    BY <2>2
  <2>6. CallOK(c)'
    BY <1>t, <1>ok, <2>3, <2>5 DEF CallTypes, Calls, CallOK
  <2> QED
    BY <1>t, <2>2, <2>3, <2>4, <2>6, OneCalls DEF CallTypes, Calls
<1>10. CASE LoseReport(c)
  <2>1. CallTypes'
    BY <1>t, <1>10 DEF CallTypes, Calls, LoseReport
  <2>2. CallOK(c)'
    BY <1>t, <1>ok, <1>10 DEF CallTypes, Calls, CallOK, LoseReport
  <2>3. /\ api' = api
        /\ \A d \in Callers \ {c} : /\ call'[d] = call[d] /\ link'[d] = link[d]
                                    /\ mail'[d] \in {mail[d], Kept(d)}
    BY <1>t, <1>10 DEF CallTypes, Calls, LoseReport
  <2> QED
    BY <2>1, <2>2, <2>3, OneCalls
<1>11. CASE FetchReport(c)
  <2>1. PICK pc \in {"returned", "raised"} : Ends(c, pc)
    BY <1>11 DEF FetchReport
  <2>2. /\ mail' = [mail EXCEPT ![c] = {}] /\ UNCHANGED <<api, link>>
        /\ call[c].pc \in {"fetching", "awaiting"}
    BY <1>11 DEF FetchReport
  <2>3. CallTypes'
    <3>1. PICK k : k = [call[c] EXCEPT !.pc = pc, !.report = Failure, !.fills = FALSE,
                                       !.attempt = 1]
      OBVIOUS
    <3>2. k \in Calls
      <4>1. 1 \in 1..MaxAttempts /\ FALSE \in BOOLEAN /\ pc \in Places
        OBVIOUS
      <4>2. call[c] \in Calls
        BY <1>t DEF CallTypes
      <4> HIDE DEF Places
      <4> QED
        BY <1>r, <3>1, <4>1, <4>2 DEF Calls
    <3>3. call' = [call EXCEPT ![c] = k]
      BY <1>t, <2>1, <3>1 DEF CallTypes, Ends
    <3>4. {} \in Mails
      BY DEF Mails
    <3>5. mail' \in [Callers -> Mails]
      BY <1>t, <2>2, <3>4 DEF CallTypes
    <3> QED
      BY <1>t, <2>2, <3>2, <3>3, <3>5, StaysCall DEF CallTypes
  <2>4. /\ call'[c].pc = pc /\ call'[c].manner = call[c].manner
        /\ call'[c].done = call[c].done
    BY <1>t, <2>1 DEF CallTypes, Calls, Ends
  <2>5. CallOK(c)'
    BY <1>t, <1>ok, <2>2, <2>4 DEF CallTypes, Calls, CallOK
  <2>6. \A d \in Callers \ {c} : call'[d] = call[d] /\ mail'[d] = mail[d]
    BY <1>t, <2>1, <2>2 DEF CallTypes, Calls, Ends
  <2> QED
    BY <2>2, <2>3, <2>5, <2>6, OneCalls
<1>12. CASE AwaitTimeout(c)
  <2>1. CallTypes'
    BY <1>t, <1>12 DEF CallTypes, Calls, AwaitTimeout, Goes
  <2>2. CallOK(c)'
    BY <1>t, <1>ok, <1>12 DEF CallTypes, Calls, CallOK, AwaitTimeout, Goes
  <2>3. /\ api' = api
        /\ \A d \in Callers \ {c} : /\ call'[d] = call[d] /\ link'[d] = link[d]
                                    /\ mail'[d] \in {mail[d], Kept(d)}
    BY <1>t, <1>12 DEF CallTypes, Calls, AwaitTimeout, Goes
  <2> QED
    BY <2>1, <2>2, <2>3, OneCalls
<1>13. CASE GrowOld(c)
  <2>1. /\ call[c].pc \notin {"fetching", "awaiting"} /\ UNCHANGED <<api, call, link>>
        /\ mail' = [mail EXCEPT ![c] = {[m EXCEPT !.old = TRUE] : m \in mail[c]}]
    BY <1>t, <1>13 DEF GrowOld, CallTypes
  <2>2. {[m EXCEPT !.old = TRUE] : m \in mail[c]} \in Mails
    <3>1. mail[c] \subseteq [report : Reports, old : BOOLEAN]
      BY <1>t DEF CallTypes, Mails
    <3>2. \A m \in [report : Reports, old : BOOLEAN] :
            [m EXCEPT !.old = TRUE] \in [report : Reports, old : BOOLEAN]
      OBVIOUS
    <3> HIDE DEF OneBot, Places
    <3> QED
      BY <3>1, <3>2 DEF Mails
  <2>3. CallTypes'
    BY <1>t, <2>1, <2>2 DEF CallTypes, Calls
  <2>4. CallOK(c)'
    BY <1>t, <1>ok, <2>1 DEF CallTypes, Calls, CallOK
  <2>5. \A d \in Callers \ {c} : mail'[d] = mail[d]
    BY <1>t, <2>1 DEF CallTypes, Calls
  <2> QED
    BY <2>1, <2>3, <2>4, <2>5, OneCalls
<1> QED
  BY <1>1, <1>2, <1>3, <1>4, <1>5, <1>6, <1>8, <1>9, <1>10, <1>11, <1>12, <1>13 DEF CallStep

\* A refused call has reached nobody, one that returns has done what it was
\* told, nothing is asked too often, and who fetches finds.
THEOREM CallsKeepWord == ApiSpec => []CallsKeepTheirWord
<1>1. CallsInv /\ [ApiNext]_apiVars => CallsInv'
  <2>1. CASE ApiNext
    BY <2>1, CallsStep DEF ApiNext
  <2>2. CASE UNCHANGED apiVars
    BY <2>2 DEF apiVars, CallsInv, CallTypes, CallOK, OneBot
  <2> QED
    BY <2>1, <2>2
<1>2. CallsInv => CallsKeepTheirWord
  BY DEF CallsInv, CallTypes, CallOK, CallsKeepTheirWord
<1> QED
  BY CallsInit, <1>1, <1>2, PTL DEF ApiSpec

----------------------------------------------------------------------------
(* Download: for a file of any size and any number of threads.              *)

\* The starts are the multiples of the step below the number: as many as fit.
LEMMA StartsCounted ==
  ASSUME NEW total \in Nat \ {0}, NEW step \in Nat \ {0}
  PROVE  /\ Cardinality(Starts(total, step)) = (total - 1) \div step + 1
<1> DEFINE q == (total - 1) \div step
           f == [i \in 1 .. q + 1 |-> step * (i - 1)]
<1>1. q \in Nat /\ step * q <= total - 1 /\ total - 1 < step * q + step
  BY Division
<1>2. ASSUME NEW i \in 1 .. q + 1 PROVE f[i] \in Starts(total, step)
  <2>1. step * (i - 1) <= step * q /\ step * (i - 1) \in Nat
    BY <1>1
  <2>2. (step * (i - 1)) % step = 0
    OBVIOUS
  <2>3. f[i] = step * (i - 1)
    OBVIOUS
  <2>4. step * (i - 1) <= total - 1
    BY <1>1, <2>1
  <2>5. step * (i - 1) \in 0 .. total - 1
    BY <2>1, <2>4
  <2> HIDE DEF f
  <2> QED
    BY <2>2, <2>3, <2>5 DEF Starts
<1>3. ASSUME NEW i \in 1 .. q + 1, NEW j \in 1 .. q + 1, f[i] = f[j] PROVE i = j
  BY <1>1, <1>3
<1>4. ASSUME NEW n \in Starts(total, step) PROVE \E i \in 1 .. q + 1 : f[i] = n
  <2>1. n \in Nat /\ n <= total - 1 /\ n % step = 0
    BY DEF Starts
  <2>2. n \div step \in Nat /\ n = step * (n \div step)
    BY <2>1, Division
  <2>3. n \div step <= q
    BY <1>1, <2>1, <2>2
  <2>4. PICK k \in Nat : k = n \div step
    BY <2>2
  <2>5. k + 1 \in 1 .. q + 1
    BY <1>1, <2>3, <2>4
  <2>6. f[k + 1] = step * k
    BY <2>5
  <2> QED
    BY <2>2, <2>4, <2>5, <2>6
<1>5. f \in Bijection(1 .. q + 1, Starts(total, step))
  <2>1. f \in [1 .. q + 1 -> Starts(total, step)]
    BY <1>2
  <2> HIDE DEF f
  <2> QED
    BY <1>3, <1>4, <2>1 DEF Bijection, Injection, Surjection, IsInjective
<1> QED
  BY <1>1, <1>5, FS_CountingElements DEF ExistsBijection

\* What the ranges are that divide a number of bytes among tasks.
Dividing(R, n, total) ==
  /\ R \in [1 .. n -> [first : Nat, last : Int]]
  /\ \A i \in 1 .. n : R[i].first <= R[i].last + 1 /\ R[i].last < total
  /\ R[1].first = 0 /\ R[n].last = total - 1
  /\ \A i \in 2 .. n : R[i].first = R[i - 1].last + 1

\* A range begins where the one before it ends, the last one at the
\* last byte, and there are as many as tasks but one, or more.
LEMMA RangesDivide ==
  ASSUME NEW total \in Nat, NEW tasks \in Nat, tasks > 1, total \div tasks > 0
  PROVE  \E n \in Nat \ {0} :
           n >= tasks - 1 /\ Dividing(Parts(total, total \div tasks), n, total)
<1> DEFINE step == total \div tasks
           q == (total - 1) \div step
           R == Parts(total, step)
<1>1. step \in Nat \ {0} /\ tasks * step <= total
  BY Division
<1>2. total \in Nat \ {0} /\ total - 1 \in Nat
  <2> HIDE DEF step
  <2> QED
    BY <1>1
<1>3. q \in Nat /\ step * q <= total - 1 /\ total - 1 < step * q + step
  <2> HIDE DEF step
  <2> QED
    BY <1>1, <1>2, Division
<1>4. q >= tasks - 1
  <2> HIDE DEF step, q
  <2>1. SUFFICES ASSUME q + 1 <= tasks - 1 PROVE FALSE
    BY <1>3
  <2>2. step * (q + 1) <= step * (tasks - 1)
    BY <1>1, <1>3, <2>1
  <2>3. step * (q + 1) = step * q + step /\ step * (tasks - 1) = tasks * step - step
    BY <1>1, <1>3
  <2> QED
    BY <1>1, <1>2, <1>3, <2>2, <2>3
<1>5. R = [i \in 1 .. q |-> [first |-> (i - 1) * step,
                            last |-> IF i = q THEN total - 1 ELSE i * step - 1]]
  <2>1. Cardinality(Starts(total, step)) - 1 = q
    <3> HIDE DEF step
    <3> QED
      BY <1>1, <1>2, <1>3, StartsCounted
  <2> HIDE DEF step, q
  <2> QED
    BY <2>1 DEF Parts
<1> HIDE DEF step, q, R
<1>6. q \in Nat \ {0}
  BY <1>3, <1>4
<1>7. \A i \in 1 .. q : R[i].first = (i - 1) * step
                       /\ R[i].last = IF i = q THEN total - 1 ELSE i * step - 1
  BY <1>5
<1>8. \A i \in 1 .. q : (i - 1) * step \in Nat /\ i * step \in Nat /\ (i - 1) * step = i * step - step
  BY <1>1
<1>9. \A i \in 1 .. q : i # q => i * step <= q * step /\ i * step < total
  BY <1>1, <1>3, <1>8
<1>10. \A i \in 1 .. q : R[i].first <= R[i].last + 1 /\ R[i].last < total
  <2> SUFFICES ASSUME NEW i \in 1 .. q PROVE R[i].first <= R[i].last + 1 /\ R[i].last < total
    OBVIOUS
  <2>1. CASE i = q
    <3>1. R[i].first = i * step - step /\ R[i].last = total - 1 /\ i * step \in Nat
      BY <1>7, <1>8, <2>1
    <3>2. i * step = step * q
      BY <1>1, <1>3, <2>1
    <3> QED
      BY <1>1, <1>2, <1>3, <3>1, <3>2
  <2>2. CASE i # q
    <3>1. R[i].first = i * step - step /\ R[i].last = i * step - 1 /\ i * step < total /\ i * step \in Nat
      BY <1>7, <1>8, <1>9, <2>2
    <3> QED
      BY <1>1, <1>2, <3>1
  <2> QED
    BY <2>1, <2>2
<1>11. R[1].first = 0 /\ R[q].last = total - 1
  BY <1>1, <1>6, <1>7
<1>12. \A i \in 2 .. q : R[i].first = R[i - 1].last + 1
  <2> SUFFICES ASSUME NEW i \in 2 .. q PROVE R[i].first = R[i - 1].last + 1
    OBVIOUS
  <2>1. i \in 1 .. q /\ i - 1 \in 1 .. q /\ i - 1 # q
    BY <1>6
  <2>2. R[i].first = (i - 1) * step /\ R[i - 1].last = (i - 1) * step - 1 /\ (i - 1) * step \in Nat
    BY <1>7, <1>8, <2>1
  <2> QED
    BY <2>2
<1>13. R \in [1 .. q -> [first : Nat, last : Int]]
  <2>1. \A i \in 1 .. q : (i - 1) * step \in Nat /\ (IF i = q THEN total - 1 ELSE i * step - 1) \in Int
    BY <1>2, <1>8
  <2> QED
    BY <1>5, <2>1
<1>14. Dividing(R, q, total)
  BY <1>10, <1>11, <1>12, <1>13 DEF Dividing
<1> QED
  BY <1>4, <1>6, <1>14 DEF R, step

----------------------------------------------------------------------------
(* Bytes.                                                                   *)

LEMMA BytesAre ==
  ASSUME NEW a \in Int, NEW b \in Int, a <= b + 1, NEW S, a .. b \subseteq S
  PROVE  /\ Bytes(a, b) \in Seq(S) /\ Len(Bytes(a, b)) = b - a + 1
         /\ \A i \in 1 .. b - a + 1 : Bytes(a, b)[i] = a + i - 1
<1>1. b - a + 1 \in Nat /\ \A i \in 1 .. b - a + 1 : a + i - 1 \in S
  OBVIOUS
<1>2. Bytes(a, b) \in [1 .. b - a + 1 -> S]
  BY <1>1 DEF Bytes
<1>3. Bytes(a, b) \in Seq(S) /\ Len(Bytes(a, b)) = b - a + 1
  <2> DEFINE n == b - a + 1  f == Bytes(a, b)
  <2>1. n \in Nat /\ f \in [1 .. n -> S]
    BY <1>1, <1>2
  <2> HIDE DEF n, f
  <2>2. f \in Seq(S) /\ Len(f) = n
    BY <2>1
  <2> QED
    BY <2>2 DEF n, f
<1> QED
  BY <1>3 DEF Bytes

\* Bytes up to one and those from the next on are the bytes from the first on.
LEMMA BytesJoin ==
  ASSUME NEW a \in Int, NEW b \in Int, -1 <= a, a <= b
  PROVE  Bytes(0, a) \o Bytes(a + 1, b) = Bytes(0, b)
<1> DEFINE s == Bytes(0, a)  t == Bytes(a + 1, b)  u == Bytes(0, b)
<1>1. s \in Seq(Int) /\ Len(s) = a + 1 /\ \A i \in 1 .. a + 1 : s[i] = i - 1
  <2>1. /\ s \in Seq(Int) /\ Len(s) = a - 0 + 1
        /\ \A i \in 1 .. a - 0 + 1 : s[i] = 0 + i - 1
    <3>1. 0 \in Int /\ 0 <= a + 1 /\ 0 .. a \subseteq Int
      OBVIOUS
    <3> QED
      BY <3>1, BytesAre
  <2> HIDE DEF s
  <2> QED
    BY <2>1
<1>2. t \in Seq(Int) /\ Len(t) = b - a /\ \A i \in 1 .. b - a : t[i] = a + i
  <2>1. a + 1 \in Int /\ a + 1 <= b + 1 /\ (a + 1) .. b \subseteq Int /\ b - (a + 1) + 1 = b - a
    OBVIOUS
  <2>2. /\ t \in Seq(Int) /\ Len(t) = b - (a + 1) + 1
        /\ \A i \in 1 .. b - (a + 1) + 1 : t[i] = (a + 1) + i - 1
    BY <2>1, BytesAre
  <2> HIDE DEF t
  <2> QED
    BY <2>1, <2>2
<1>3. u \in Seq(Int) /\ Len(u) = b + 1 /\ \A i \in 1 .. b + 1 : u[i] = i - 1
  BY BytesAre
<1> HIDE DEF s, t, u
<1>4. /\ s \o t \in Seq(Int) /\ Len(s \o t) = b + 1
      /\ \A i \in 1 .. b + 1 : (s \o t)[i] = IF i <= a + 1 THEN s[i] ELSE t[i - (a + 1)]
  <2>1. /\ s \o t \in Seq(Int) /\ Len(s \o t) = Len(s) + Len(t)
        /\ \A i \in 1 .. Len(s) + Len(t) :
             (s \o t)[i] = IF i <= Len(s) THEN s[i] ELSE t[i - Len(s)]
    BY <1>1, <1>2, ConcatProperties
  <2>2. Len(s) + Len(t) = b + 1
    BY <1>1, <1>2
  <2> QED
    BY <1>1, <2>1, <2>2
<1>5. \A i \in 1 .. b + 1 : (s \o t)[i] = u[i]
  <2> SUFFICES ASSUME NEW i \in 1 .. b + 1 PROVE (s \o t)[i] = u[i]
    OBVIOUS
  <2>1. CASE i <= a + 1
    <3>1. i \in 1 .. a + 1
      BY <2>1
    <3> QED
      BY <1>1, <1>3, <1>4, <2>1, <3>1
  <2>2. CASE ~(i <= a + 1)
    <3>1. i - (a + 1) \in 1 .. b - a /\ a + (i - (a + 1)) = i - 1
      BY <2>2
    <3> QED
      BY <1>2, <1>3, <1>4, <2>2, <3>1
  <2> QED
    BY <2>1, <2>2
<1>6. s \o t = u
  BY <1>3, <1>4, <1>5, SeqEqual
<1> QED
  BY <1>6 DEF s, t, u

\* The parts of a file that is divided, put together, are the file.
LEMMA JoinedIsSource ==
  ASSUME NEW R, NEW n \in Nat \ {0}, length \in Nat, Dividing(R, n, length),
         NEW parts, parts = [i \in 1 .. n |-> Bytes(R[i].first, R[i].last)]
  PROVE  FlattenSeq(parts) = Source
<1>1. \A i \in 1 .. n : /\ R[i].first \in Nat /\ R[i].last \in Int
                       /\ R[i].first <= R[i].last + 1 /\ R[i].last < length
  BY DEF Dividing
<1>2. parts \in [1 .. n -> Seq(Int)]
  <2>1. \A i \in 1 .. n : Bytes(R[i].first, R[i].last) \in Seq(Int)
    BY <1>1, BytesAre
  <2> QED
    BY <2>1
<1>3. PICK f \in [1 .. n -> Seq(Int)] : Joins(f, parts, n) /\ FlattenSeq(parts) = f[n]
  BY <1>2, Flattened
<1>4. \A i \in 1 .. n : f[i] = Bytes(0, R[i].last)
  <2> DEFINE Bad == {i \in 1 .. n : f[i] # Bytes(0, R[i].last)}
  <2>1. SUFFICES ASSUME Bad # {} PROVE FALSE
    OBVIOUS
  <2>2. PICK i \in Bad : \A k \in Bad : i <= k
    <3>1. Bad \in SUBSET Nat
      OBVIOUS
    <3> HIDE DEF Bad
    <3> QED
      BY <2>1, <3>1, LeastNat
  <2>3. i \in 1 .. n /\ f[i] # Bytes(0, R[i].last)
    BY <2>2
  <2>4. i # 1
    <3>1. 1 \in 1 .. n /\ f[1] = Bytes(0, R[1].last)
      BY <1>3 DEF Dividing, Joins
    <3> QED
      BY <2>3, <3>1
  <2>5. i - 1 \in 1 .. n /\ i \in 2 .. n /\ ~(i <= i - 1)
    BY <2>3, <2>4
  <2>6. i - 1 \notin Bad
    <3> HIDE DEF Bad
    <3> QED
      BY <2>2, <2>5
  <2>7. f[i - 1] = Bytes(0, R[i - 1].last)
    BY <2>5, <2>6
  <2>8. f[i] = Bytes(0, R[i - 1].last) \o Bytes(R[i - 1].last + 1, R[i].last)
    BY <1>3, <2>3, <2>5, <2>7 DEF Dividing, Joins
  <2>9. -1 <= R[i - 1].last /\ R[i - 1].last <= R[i].last
    <3> DEFINE x == R[i - 1].first  y == R[i - 1].last  w == R[i].last
    <3>1. R[i].first = y + 1
      BY <2>5 DEF Dividing
    <3>2. /\ x \in Nat /\ y \in Int /\ w \in Int
          /\ x <= y + 1 /\ R[i].first <= w + 1
      BY <1>1, <2>3, <2>5
    <3> HIDE DEF x, y, w, Bad
    <3>3. x <= y + 1 /\ y + 1 <= w + 1
      BY <3>1, <3>2
    <3>4. -1 <= y /\ y <= w
      BY <3>2, <3>3
    <3> QED
      BY <3>4 DEF y, w
  <2>10. R[i - 1].last \in Int /\ R[i].last \in Int
    BY <1>1, <2>3, <2>5
  <2> HIDE DEF Bad
  <2> QED
    BY <2>3, <2>8, <2>9, <2>10, BytesJoin
<1>5. n \in 1 .. n /\ R[n].last = length - 1
  BY DEF Dividing
<1>6. f[n] = Bytes(0, length - 1)
  BY <1>4, <1>5
<1> QED
  BY <1>3, <1>6 DEF Source

----------------------------------------------------------------------------
(* The invariant.                                                           *)

\* The ranges are those of the size that was told, divided among the threads.
Divided ==
  /\ threads > 1 /\ size \div threads > 0
  /\ ranges = Parts(size, size \div threads)

\* What a task has brought is its range, or anything else.
Brought == \A i \in DOMAIN fetched : fetched[i] \in {Pending, Broken, Foreign, InRange(i)}

Contents == (0 .. MaxSize) \union {-4}

DownInv ==
  /\ length \in 0 .. MaxSize /\ threads \in Nat /\ size \in 0 .. MaxSize
  /\ dpc \in {"asked", "fetching", "done", "raised"}
  /\ \/ ranges = <<>> /\ fetched = <<>> /\ dpc # "fetching"
     \/ Divided /\ fetched \in [DOMAIN ranges -> Seq(Int)] /\ Brought
  /\ file = Earlier \/ file \in Seq(Contents)
  /\ dpc = "done" /\ threads > 1 /\ size = length /\ (\A i \in DOMAIN fetched : fetched[i] # Foreign)
       => file = Source

LEMMA DownInitInv == DownInit => DownInv
BY DownloadAssumption DEF DownInit, DownInv

\* The ranges have a number, and each lies within the file.
LEMMA DividedRanges ==
  ASSUME Divided, length \in 0 .. MaxSize, size \in 0 .. MaxSize, threads \in Nat, MaxSize \in Nat
  PROVE  \E n \in Nat \ {0} :
           /\ n >= threads - 1 /\ Dividing(ranges, n, size)
           /\ DOMAIN ranges = 1 .. n /\ ranges \in Seq([first : Nat, last : Int]) /\ Len(ranges) = n
           /\ \A i \in 1 .. n : InRange(i) \in Seq(Contents) /\ InRange(i) \notin {Pending, Broken}
<1>1. size \in Nat
  OBVIOUS
<1>2. PICK n \in Nat \ {0} : n >= threads - 1 /\ Dividing(ranges, n, size)
  BY <1>1, RangesDivide DEF Divided
<1>3. ranges \in [1 .. n -> [first : Nat, last : Int]]
  BY <1>2 DEF Dividing
<1>4. DOMAIN ranges = 1 .. n /\ ranges \in Seq([first : Nat, last : Int]) /\ Len(ranges) = n
  <2> DEFINE X == [first : Nat, last : Int]
  <2>1. ranges \in [1 .. n -> X] /\ n \in Nat
    BY <1>3
  <2> HIDE DEF X
  <2>2. ranges \in Seq(X) /\ DOMAIN ranges = 1 .. n
    BY <2>1
  <2>3. Len(ranges) = n
    BY <2>1, <2>2
  <2> QED
    BY <2>2, <2>3 DEF X
<1>5. \A i \in 1 .. n : InRange(i) \in Seq(Contents)
  <2> SUFFICES ASSUME NEW i \in 1 .. n PROVE InRange(i) \in Seq(Contents)
    OBVIOUS
  <2>1. /\ ranges[i].first \in Nat /\ ranges[i].last \in Int
        /\ ranges[i].first <= ranges[i].last + 1 /\ ranges[i].last < size
    BY <1>2 DEF Dividing
  <2>2. ranges[i].last < length => Bytes(ranges[i].first, ranges[i].last) \in Seq(Contents)
    <3> SUFFICES ASSUME ranges[i].last < length
                 PROVE  Bytes(ranges[i].first, ranges[i].last) \in Seq(Contents)
      OBVIOUS
    <3>1. (ranges[i].first) .. (ranges[i].last) \subseteq Contents
      BY <2>1 DEF Contents
    <3>2. PICK a \in Int, b \in Int : a = ranges[i].first /\ b = ranges[i].last
      BY <2>1
    <3>3. a <= b + 1 /\ a .. b \subseteq Contents
      BY <2>1, <3>1, <3>2
    <3>4. Bytes(a, b) \in Seq(Contents)
      BY <3>3, BytesAre
    <3> QED
      BY <3>2, <3>4
  <2>3. Foreign \in Seq(Contents)
    BY DEF Foreign, Contents
  <2> QED
    BY <2>2, <2>3 DEF InRange
<1>6. \A s \in Seq(Contents) : s \notin {Pending, Broken}
  <2> SUFFICES ASSUME NEW s \in Seq(Contents), s \in {Pending, Broken} PROVE FALSE
    OBVIOUS
  <2>1. Len(s) = 1 /\ s[1] \in {-2, -3}
    <3>1. CASE s = Pending
      <4>1. Len(<<-2>>) = 1 /\ <<-2>>[1] = -2
        OBVIOUS
      <4> QED
        BY <3>1, <4>1 DEF Pending
    <3>2. CASE s = Broken
      <4>1. Len(<<-3>>) = 1 /\ <<-3>>[1] = -3
        OBVIOUS
      <4> QED
        BY <3>2, <4>1 DEF Broken
    <3> QED
      BY <3>1, <3>2
  <2>2. s[1] \in Contents
    <3>1. 1 \in 1 .. Len(s)
      BY <2>1
    <3>2. \A i \in 1 .. Len(s) : s[i] \in Contents
      BY ElementOfSeq
    <3> QED
      BY <3>1, <3>2
  <2> QED
    BY <2>1, <2>2 DEF Contents
<1> QED
  BY <1>2, <1>4, <1>5, <1>6

LEMMA DownNextInv == DownInv /\ [DownNext]_downVars => DownInv'
<1> SUFFICES ASSUME DownInv, [DownNext]_downVars PROVE DownInv'
  OBVIOUS
<1> USE DownloadAssumption
<1>0. UNCHANGED <<length, threads>>
  BY DEF DownNext, downVars, Refuse, Leaves, Stream, Split, GatherRaises, Join, Fetch
<1>s. Source' = Source /\ \A i : ranges' = ranges => InRange(i)' = InRange(i)
  BY <1>0 DEF Source, InRange
<1>d. UNCHANGED <<size, ranges>> => Divided' = Divided
  BY <1>0 DEF Divided
<1>k. UNCHANGED <<size, ranges, fetched>> =>
        (Divided /\ fetched \in [DOMAIN ranges -> Seq(Int)] /\ Brought
           => (Divided /\ fetched \in [DOMAIN ranges -> Seq(Int)] /\ Brought)')
  BY <1>0, <1>d, <1>s DEF Brought
<1>1. CASE Refuse
  BY <1>0, <1>s, <1>k, <1>1 DEF Refuse, Leaves, DownInv
<1>2. CASE Stream
  <2>1. PICK n \in 0 .. length : file' = Bytes(0, n - 1) /\ dpc' \in {"raised", "done"}
    BY <1>2 DEF Stream, Leaves
  <2>2. dpc = "asked" /\ threads = 1 /\ UNCHANGED <<size, ranges, fetched>>
    BY <1>2 DEF Stream
  <2>3. file' \in Seq(Contents)
    <3>1. length \in 0 .. MaxSize
      BY DEF DownInv
    <3>2. 0 \in Int /\ n - 1 \in Int /\ 0 <= (n - 1) + 1 /\ 0 .. n - 1 \subseteq Contents
      BY <3>1 DEF Contents
    <3> QED
      BY <2>1, <3>2, BytesAre
  <2> QED
    BY <1>0, <1>s, <1>k, <2>1, <2>2, <2>3 DEF DownInv
<1>3. CASE Split
  <2>1. threads > 1 /\ file' = <<>> /\ dpc = "asked"
    BY <1>3 DEF Split
  <2>2. <<>> \in Seq(Contents)
    BY EmptySeq
  <2>3. CASE dpc' = "raised" /\ UNCHANGED <<size, ranges, fetched>>
    BY <1>0, <1>s, <1>k, <2>1, <2>2, <2>3 DEF DownInv
  <2>4. ASSUME NEW told \in 0 .. MaxSize, told \div threads > 0, dpc' = "fetching", size' = told,
               ranges' = Parts(told, told \div threads),
               fetched' = [i \in DOMAIN ranges' |-> Pending]
        PROVE  DownInv'
    <3>1. Divided'
      BY <1>0, <2>1, <2>4 DEF Divided
    <3>2. fetched' \in [DOMAIN ranges' -> Seq(Int)] /\ Brought'
      <4>1. Pending \in Seq(Int)
        BY DEF Pending
      <4> QED
        BY <2>4, <4>1 DEF Brought
    <3> QED
      BY <1>0, <2>1, <2>2, <2>4, <3>1, <3>2 DEF DownInv
  <2> QED
    BY <1>3, <2>3, <2>4 DEF Split, Leaves
<1>4. ASSUME NEW i \in 1 .. MaxSize, Fetch(i) PROVE DownInv'
  <2>1. /\ i \in DOMAIN fetched
        /\ \E part \in {Broken, Foreign, InRange(i)} : fetched' = [fetched EXCEPT ![i] = part]
        /\ UNCHANGED <<size, dpc, ranges, file>> /\ fetched[i] = Pending
        /\ dpc \in {"fetching", "raised"}
    BY <1>4 DEF Fetch
  <2>2. Divided /\ fetched \in [DOMAIN ranges -> Seq(Int)] /\ Brought
    <3>1. fetched # <<>>
      BY <2>1
    <3> QED
      BY <3>1 DEF DownInv
  <2>3. PICK n \in Nat \ {0} : /\ DOMAIN ranges = 1 .. n
                             /\ \A j \in 1 .. n : InRange(j) \in Seq(Contents)
    BY <2>2, DividedRanges DEF DownInv
  <2>4. /\ i \in 1 .. n /\ InRange(i) \in Seq(Int)
        /\ Broken \in Seq(Int) /\ Foreign \in Seq(Int)
    <3>1. i \in 1 .. n
      BY <2>1, <2>2, <2>3
    <3>2. Contents \subseteq Int
      BY DEF Contents
    <3>3. InRange(i) \in Seq(Int)
      BY <2>3, <3>1, <3>2, SeqMonotonic
    <3> QED
      BY <3>1, <3>3 DEF Broken, Foreign
  <2>5. fetched' \in [DOMAIN ranges' -> Seq(Int)]
    BY <2>1, <2>2, <2>4
  <2>6. Brought'
    BY <1>s, <2>1, <2>2 DEF Brought
  <2>7. Divided'
    BY <1>d, <2>1, <2>2
  <2> QED
    BY <1>0, <1>s, <2>1, <2>5, <2>6, <2>7 DEF DownInv
<1>5. CASE GatherRaises
  BY <1>0, <1>s, <1>k, <1>5 DEF GatherRaises, Leaves, DownInv
<1>6. CASE Join
  <2>1. /\ dpc = "fetching" /\ dpc' = "done" /\ UNCHANGED <<size, ranges, fetched>>
        /\ file' = FlattenSeq(fetched)
        /\ \A i \in DOMAIN fetched : fetched[i] \notin {Pending, Broken}
    BY <1>6 DEF Join, Leaves
  <2>2. Divided /\ fetched \in [DOMAIN ranges -> Seq(Int)] /\ Brought
    BY <2>1 DEF DownInv
  <2>3. PICK n \in Nat \ {0} : /\ DOMAIN ranges = 1 .. n /\ Dividing(ranges, n, size)
                             /\ \A j \in 1 .. n : InRange(j) \in Seq(Contents)
    BY <2>2, DividedRanges DEF DownInv
  <2>4. /\ \A i \in 1 .. n : fetched[i] \in {InRange(i), Foreign}
        /\ DOMAIN fetched = 1 .. n /\ fetched \in [1 .. n -> Seq(Contents)]
    <3>1. \A i \in 1 .. n : fetched[i] \in {InRange(i), Foreign}
      BY <2>1, <2>2, <2>3 DEF Brought
    <3>2. Foreign \in Seq(Contents)
      BY DEF Foreign, Contents
    <3> QED
      BY <2>2, <2>3, <3>1, <3>2
  <2>5. file' \in Seq(Contents)
    <3>1. PICK f \in [1 .. n -> Seq(Contents)] : FlattenSeq(fetched) = f[n]
      BY <2>4, Flattened
    <3> QED
      BY <2>1, <3>1
  <2>6. size = length /\ (\A i \in DOMAIN fetched : fetched[i] # Foreign) => file' = Source
    <3>1. SUFFICES ASSUME size = length, \A i \in DOMAIN fetched : fetched[i] # Foreign
                   PROVE  file' = Source
      OBVIOUS
    <3>2. \A i \in 1 .. n : fetched[i] = Bytes(ranges[i].first, ranges[i].last)
      BY <2>4, <3>1 DEF InRange
    <3>3. fetched = [i \in 1 .. n |-> Bytes(ranges[i].first, ranges[i].last)]
      BY <2>4, <3>2
    <3>4. length \in Nat /\ Dividing(ranges, n, length)
      BY <2>3, <3>1 DEF DownInv
    <3> QED
      BY <2>1, <3>3, <3>4, JoinedIsSource
  <2> QED
    BY <1>0, <1>s, <1>k, <2>1, <2>2, <2>5, <2>6 DEF DownInv
<1>7. CASE UNCHANGED downVars
  BY <1>0, <1>s, <1>k, <1>7 DEF downVars, DownInv
<1> QED
  BY <1>1, <1>2, <1>3, <1>4, <1>5, <1>6, <1>7 DEF DownNext

\* A download in parts that ends well holds every byte once and in order, for any
\* size and any number of threads and whichever part comes last
\* (Downloader.download()), if the size that was told is right and no answer holds
\* anything but its range; the file is divided among as many threads but one, or more.
THEOREM FilesAreWhole == DownSpec => []WholeFile
<1>1. DownInv => WholeFile
  <2> SUFFICES ASSUME DownInv, dpc = "fetching" PROVE Cardinality(DOMAIN ranges) >= threads - 1
    BY DEF DownInv, WholeFile
  <2>1. PICK n \in Nat \ {0} : n >= threads - 1 /\ DOMAIN ranges = 1 .. n
    BY DividedRanges, DownloadAssumption DEF DownInv
  <2>2. Cardinality(1 .. n) = n
    <3>1. Cardinality(1 .. n) = IF 1 > n THEN 0 ELSE n - 1 + 1
      BY FS_Interval
    <3> QED
      BY <3>1
  <2> QED
    BY <2>1, <2>2
<1> QED
  BY <1>1, DownInitInv, DownNextInv, PTL DEF DownSpec

LEMMA DownTypes == DownInv => DownTypeOK
<1> SUFFICES ASSUME DownInv PROVE DownTypeOK
  OBVIOUS
<1>1. Len(ranges) = Len(fetched)
  <2>1. CASE ranges = <<>> /\ fetched = <<>>
    BY <2>1
  <2>2. CASE Divided /\ fetched \in [DOMAIN ranges -> Seq(Int)]
    <3>1. PICK n \in Nat \ {0} : DOMAIN ranges = 1 .. n /\ Len(ranges) = n
      BY <2>2, DividedRanges, DownloadAssumption DEF DownInv
    <3>2. fetched \in [1 .. n -> Seq(Int)]
      BY <2>2, <3>1
    <3>3. fetched \in Seq(Seq(Int)) /\ Len(fetched) = n
      BY <3>2
    <3> QED
      BY <3>1, <3>3
  <2> QED
    BY <2>1, <2>2 DEF DownInv
<1>2. file = Earlier \/ \A i \in DOMAIN file : file[i] \in 0 .. MaxSize \/ file[i] = Foreign[1]
  <2>1. file \in Seq(Contents) => \A i \in DOMAIN file : file[i] \in Contents
    OBVIOUS
  <2> QED
    BY <2>1 DEF DownInv, Contents, Foreign
<1> QED
  BY <1>1, <1>2 DEF DownInv, DownTypeOK

----------------------------------------------------------------------------
(* The types of the components, and of all of them together.                *)

\* Whose modules are in place, and whose have been copied.
OwnersOK ==
  /\ settings.protocol \in Spellings
  /\ loading \in Adapters \union {"none"} /\ early \in BOOLEAN
  /\ \A m \in Replaceable : replaced[m] \in Owners
  /\ \A m \in Facades : copied[m] \in Owners \union {"none"}

StartTyped == StartupInv /\ OwnersOK

LEMMA StartTypedInit == StartInit => StartTyped
<1> SUFFICES ASSUME StartInit PROVE OwnersOK
  BY StartupInit DEF StartTyped
<1>1. settings.protocol = "onebot" /\ loading = "none" /\ early = FALSE
  BY DEF StartInit
<1>2. \A m \in Replaceable : replaced[m] = "stub"
  BY DEF StartInit, Replaceable
<1>3. \A m \in Facades : copied[m] = "none"
  BY DEF StartInit, Facades
<1> QED
  BY <1>1, <1>2, <1>3, StartupAssumption DEF OwnersOK, Owners

LEMMA CopiesOwned ==
  ASSUME StartTyped, NEW from \in SUBSET Facades, Copies(from, FacadeNames)
  PROVE  \A m \in Facades : copied'[m] \in Owners \union {"none"}
<1>1. \A m \in Facades : FacadeNames[m] \in Replaceable
  BY DEF Facades, FacadeNames, Replaceable
<1>2. LoadingOK
  BY DEF StartTyped, StartupInv
<1>3. \A m \in Facades : copied'[m] = copied[m] \/ copied'[m] = replaced[FacadeNames[m]]
  BY <1>2, CopiesAreOf
<1> QED
  BY <1>1, <1>3 DEF StartTyped, OwnersOK

LEMMA StartTypedStep == StartTyped /\ [StartNext]_startVars => StartTyped'
<1> SUFFICES ASSUME StartTyped, [StartNext]_startVars PROVE OwnersOK'
  BY StartupStep DEF StartTyped
<1>1. CASE ReadSettings
  <2>1. settings'.protocol \in Spellings
    BY <1>1 DEF ReadSettings, Configure
  <2> QED
    BY <1>1, <2>1 DEF ReadSettings, StartTyped, OwnersOK
<1>2. CASE ImportEarly
  <2>1. PICK from \in SUBSET Facades : Copies(from, FacadeNames)
    <3>1. DOMAIN copied = Facades
      BY DEF StartTyped, StartupInv, LoadingOK
    <3> QED
      BY <1>2, <3>1 DEF ImportEarly, Facades
  <2> QED
    BY <1>2, <2>1, CopiesOwned DEF ImportEarly, StartTyped, OwnersOK
<1>3. CASE LoadConfigured
  <2>1. loading' = LoaderFor(settings.protocol)
    BY <1>3 DEF LoadConfigured
  <2>2. loading' \in Adapters \union {"none"}
    BY <2>1, LoaderIsCanon
  <2> QED
    BY <1>3, <2>2 DEF LoadConfigured, StartTyped, OwnersOK
<1>4. CASE ImportAndReplace
  <2>1. /\ spc \in Replaceable /\ replaced' = [replaced EXCEPT ![spc] = loading]
        /\ loading' \in {loading, "none"} /\ UNCHANGED <<settings, early>>
    BY <1>4 DEF ImportAndReplace, Loading, LoadOrder, Range, Replaceable
  <2>2. loading \in Adapters
    BY <2>1 DEF StartTyped, StartupInv, LoadingOK
  <2>3. \A m \in Replaceable : replaced'[m] \in Owners
    BY <2>1, <2>2 DEF StartTyped, OwnersOK, StartupInv, LoadingOK, Owners
  <2>4. PICK from \in SUBSET Facades : Copies(from, FacadeNames)
    BY <1>4 DEF ImportAndReplace, Facades
  <2> QED
    BY <2>1, <2>3, <2>4, CopiesOwned DEF StartTyped, OwnersOK
<1>5. CASE ImportFails
  <2>1. PICK from \in SUBSET Facades : Copies(from, FacadeNames)
    BY <1>5 DEF ImportFails, Facades
  <2> QED
    BY <1>5, <2>1, CopiesOwned DEF ImportFails, StartTyped, OwnersOK
<1>6. CASE StartRun
  <2>1. DOMAIN copied = Facades
    BY DEF StartTyped, StartupInv, LoadingOK
  <2>2. Copies(Facades, FacadeNames)
    BY <1>6, <2>1 DEF StartRun
  <2> QED
    BY <1>6, <2>2, CopiesOwned DEF StartRun, StartTyped, OwnersOK
<1>7. CASE UNCHANGED startVars
  BY <1>7 DEF startVars, StartTyped, OwnersOK
<1> QED
  BY <1>1, <1>2, <1>3, <1>4, <1>5, <1>6, <1>7 DEF StartNext

LEMMA StartTypes == StartTyped => StartTypeOK
<1> SUFFICES ASSUME StartTyped PROVE StartTypeOK
  OBVIOUS
<1>1. \A section, p : p \in DOMAIN Parse(section) =>
        Parse(section)[p].class \in {"BotWSC", "BotHTTPC", "BotFeishuC"}
  <2>1. \A p, mode : Build(p, mode) \in {"BotWSC", "BotHTTPC", "BotFeishuC"}
    BY DEF Build
  <2> QED
    BY <2>1 DEF Parse
<1>2. \A p \in DOMAIN parsed : parsed[p].class \in {"BotWSC", "BotHTTPC", "BotFeishuC"}
  <2>1. \/ parsed = Parse(settings.connections) \/ parsed = Parse(settings.upper)
        \/ parsed = <<>>
    BY DEF StartTyped, StartupInv, ParsedOK
  <2> QED
    BY <1>1, <2>1
<1>3. spc \in {"unset", "set", "failed", "returned", "running"} \union Range(LoadOrder)
  <2>1. Range(LoadOrder) = {"res", "common", "listener"}
    BY DEF Range, LoadOrder
  <2> QED
    BY <2>1 DEF StartTyped, StartupInv, LoadingOK
<1> QED
  BY <1>2, <1>3 DEF StartTyped, OwnersOK, StartupInv, LoadingOK, StartTypeOK

\* A caller's box holds one report at most.
OneReport == \A c \in Callers : mail[c] = {} \/ \E m : mail[c] = {m}

LEMMA OneReportStays ==
  ASSUME CallsInv, OneReport, [ApiNext]_apiVars
  PROVE  OneReport'
<1> USE DEF OneReport
<1>1. CASE mail' = mail
  BY <1>1
<1>2. \A c \in Callers : Kept(c) = {} \/ \E m : Kept(c) = {m}
  BY DEF Kept
<1>3. ASSUME NEW c \in Callers, NEW r, mail' = MailWith(c, r) PROVE OneReport'
  <2>1. \A d \in Callers : mail'[d] = IF d = c THEN {[report |-> r, old |-> FALSE]} ELSE Kept(d)
    BY <1>3 DEF MailWith
  <2> QED
    BY <1>2, <2>1
<1>4. ASSUME NEW c \in Callers, mail' = [mail EXCEPT ![c] = {}] PROVE OneReport'
  BY <1>4 DEF CallsInv, CallTypes
<1>5. ASSUME NEW c \in Callers, GrowOld(c) PROVE OneReport'
  <2>1. mail' = [mail EXCEPT ![c] = {[m EXCEPT !.old = TRUE] : m \in @}]
    BY <1>5 DEF GrowOld
  <2>2. \A d \in Callers \ {c} : mail'[d] = mail[d]
    BY <2>1 DEF CallsInv, CallTypes
  <2>3. mail'[c] = {[m EXCEPT !.old = TRUE] : m \in mail[c]}
    BY <2>1 DEF CallsInv, CallTypes
  <2>4. mail'[c] = {} \/ \E m : mail'[c] = {m}
    <3>1. CASE mail[c] = {}
      BY <2>3, <3>1
    <3>2. ASSUME NEW m, mail[c] = {m} PROVE mail'[c] = {[m EXCEPT !.old = TRUE]}
      BY <2>3, <3>2
    <3> QED
      BY <3>1, <3>2
  <2> QED
    BY <2>2, <2>4
<1>6. ASSUME NEW c \in Callers, CallStep(c) PROVE OneReport'
  BY <1>1, <1>3, <1>4, <1>6
  DEF CallStep, StartCall, PostFrame, PostHttp, PostMilky, PostFeishu, PutReport, FetchReport, AwaitTimeout
<1>7. ASSUME NEW c \in Callers, Serve(c) \/ DeliverReport(c) \/ LoseReport(c) PROVE OneReport'
  BY <1>1, <1>3, <1>7 DEF Serve, DeliverReport, LoseReport
<1> QED
  BY <1>1, <1>5, <1>6, <1>7 DEF ApiNext, apiVars

ApiTyped == CallsInv /\ OneReport

LEMMA ApiTypedInit == ApiInit => ApiTyped
BY CallsInit DEF ApiInit, ApiTyped, OneReport

LEMMA ApiTypedStep == ApiTyped /\ [ApiNext]_apiVars => ApiTyped'
<1>1. CallsInv /\ [ApiNext]_apiVars => CallsInv'
  <2> SUFFICES ASSUME CallsInv, [ApiNext]_apiVars PROVE CallsInv'
    OBVIOUS
  <2>1. CASE UNCHANGED apiVars
    BY <2>1 DEF apiVars, CallsInv, CallTypes, CallOK, OneBot
  <2> QED
    BY <2>1, CallsStep DEF ApiNext
<1> QED
  BY <1>1, OneReportStays DEF ApiTyped

LEMMA ApiTypes == ApiTyped => ApiTypeOK
<1> SUFFICES ASSUME ApiTyped, NEW c \in Callers
             PROVE  /\ call[c].pc \in Places
                    /\ call[c].attempt \in 1..MaxAttempts /\ call[c].report \in Reports
                    /\ link[c] \in {"nothing", "request", "report"}
                    /\ Cardinality(mail[c]) < 2 /\ \A m \in mail[c] : m.report \in Reports
  BY DEF ApiTyped, CallsInv, CallTypes, ApiTypeOK, Places
<1>1. Cardinality(mail[c]) < 2
  <2>1. CASE mail[c] = {}
    BY <2>1, FS_EmptySet
  <2>2. ASSUME NEW m, mail[c] = {m} PROVE Cardinality(mail[c]) = 1
    BY <2>2, FS_Singleton
  <2> QED
    BY <2>1, <2>2 DEF ApiTyped, OneReport
<1>2. call[c] \in Calls /\ mail[c] \in Mails /\ link[c] \in {"nothing", "request", "report"}
  BY DEF ApiTyped, CallsInv, CallTypes
<1> QED
  BY <1>1, <1>2 DEF Calls, Mails

\* Types of the component that runs, for every value of the constants.
TogetherInv ==
  /\ moving \in Components
  /\ moving = "ownership" => OInv
  /\ moving = "startup" => StartTyped
  /\ moving = "apiCalls" => ApiTyped
  /\ moving = "download" => DownInv

\* Types: of what generations own, whose modules are in place, how calls ended and
\* what their boxes hold, and what a download has brought.
THEOREM CallsTyped == HSpec => []CallTypesOK
<1>1. HInit => TogetherInv
  BY OwnershipInit, StartTypedInit, ApiTypedInit, DownInitInv DEF HInit, OwnRest, TogetherInv
<1>2. TogetherInv /\ [HNext]_allVars => TogetherInv'
  <2> SUFFICES ASSUME TogetherInv, [HNext]_allVars PROVE TogetherInv'
    OBVIOUS
  <2>1. UNCHANGED moving
    BY DEF HNext, allVars
  <2>2. /\ moving = "ownership" => [ONext]_ovars
        /\ moving = "startup" => [StartNext]_startVars
        /\ moving = "apiCalls" => [ApiNext]_apiVars
        /\ moving = "download" => [DownNext]_downVars
    BY DEF HNext, allVars
  <2> QED
    BY <2>1, <2>2, OwnershipStep, StartTypedStep, ApiTypedStep, DownNextInv DEF TogetherInv
<1>3. TogetherInv => CallTypesOK
  BY StartTypes, ApiTypes, DownTypes DEF TogetherInv, OInv, CallTypesOK, Components
<1> QED
  BY <1>1, <1>2, <1>3, PTL DEF HSpec
=============================================================================

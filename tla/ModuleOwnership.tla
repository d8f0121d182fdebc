--------------------------- MODULE ModuleOwnership ---------------------------
(***************************************************************************)
(* The modules that the import of a plugin directory leaves behind, and    *)
(* their removal (plugins/manager.py, _import_candidate and below).        *)
(*                                                                         *)
(* During a reload two managers hold the same directory: each of them is a *)
(* generation.  An absolute import of the plugin's own package by its code *)
(* is answered from the generation's snapshot of the sources, under a name *)
(* of its own; a relative import is left to Python, which knows the parent *)
(* package and reads the disk, and a module of that kind answers a later   *)
(* `from package import module`.  What the plugin's code imports, and      *)
(* where it raises, is open; the files change, but not which there are.    *)
(***************************************************************************)
EXTENDS Naturals, Sequences, SequencesExt

CONSTANTS
  Generations,
  Modules,      \* the modules of the plugin's package
  Package,      \* the package itself; its body is __init__.py
  Layouts,      \* which of the modules may be directories without __init__.py
  Entry,        \* setup.py
  None,
  MaxEdition    \* bound: edits of the files

ASSUME OwnershipAssumption ==
  Package \in Modules /\ Layouts \subseteq SUBSET Modules /\ Entry \notin Modules /\ None \notin Modules /\ MaxEdition \in Nat

VARIABLES
  bare,         \* the directories without __init__.py: neither file nor body
  disk,         \* the edition of the files
  sources,      \* [Generations -> edition]: _generation_sources
  phase,        \* [Generations -> how far the import and the manager are]
  stack,        \* [Generations -> Seq(Object)]: the bodies being executed
  sysModules,   \* [Names -> Object]: sys.modules
  genModules,   \* [Generations -> [Modules -> Object]]: _generation_modules
  attribute,    \* [Generations -> [Modules -> Object]]: of the generation's package
  owned,        \* [Generations -> set of <<name, object>>]: _owned_modules
  logNames,     \* names with a display name in the log
  matchers      \* generations with a matcher in the registry of Alconna

tables == <<sysModules, genModules, attribute, logNames>>
ovars == <<bare, disk, sources, phase, stack, tables, owned, matchers>>

Editions == 0 .. MaxEdition
Bodies == Modules \union {Entry}
Names == Generations \X Bodies

\* A module: whose importer made it decides whose its own imports are.
Object == [of : Generations, mod : Bodies, by : {"plugin", "python"}, edition : Editions]
ASSUME NoneIsNoObject == None \notin Object
Made(g, m, by, edition) == [of |-> g, mod |-> m, by |-> by, edition |-> edition]

\* A namespace with a fresh UUID per manager and plugin.
NameOf(g, m) == <<g, m>>
NamesOf(g) == {NameOf(g, m) : m \in Bodies}
Nothing == [m \in Modules |-> None]

OInit ==
  /\ bare \in Layouts
  /\ disk = 0
  /\ sources = [g \in Generations |-> None]
  /\ phase = [g \in Generations |-> "none"]
  /\ stack = [g \in Generations |-> <<>>]
  /\ sysModules = [n \in Names |-> None]
  /\ genModules = [g \in Generations |-> Nothing] /\ attribute = [g \in Generations |-> Nothing]
  /\ owned = [g \in Generations |-> {}]
  /\ logNames = {} /\ matchers = {}

Becomes(g, label) == phase' = [phase EXCEPT ![g] = label]
Top(g) == stack[g][Len(stack[g])]
Serving == {"loaded", "active"}

Edit ==
  /\ disk < MaxEdition
  /\ disk' = disk + 1
  /\ UNCHANGED <<sources, phase, stack, tables, owned, matchers>>

----------------------------------------------------------------------------
(* _import_candidate().  The entry is read from the disk, later than the    *)
(* snapshot, and has a random name outside the namespace; of which edition  *)
(* it is nobody asks, and here it is always 0.                              *)

Snapshot(g) ==
  /\ phase[g] = "none"
  /\ sources' = [sources EXCEPT ![g] = disk]
  /\ Becomes(g, "snapshot")
  /\ UNCHANGED <<disk, stack, tables, owned, matchers>>

\* spec_from_file_location() finds no loader.
NoSpec(g) ==
  /\ phase[g] = "snapshot"
  /\ Becomes(g, "failed")
  /\ UNCHANGED <<disk, sources, stack, tables, owned, matchers>>

ExecEntry(g) ==
  /\ phase[g] = "snapshot"
  /\ Becomes(g, "importing")
  /\ LET entry == Made(g, Entry, "plugin", 0)
     IN /\ stack' = [stack EXCEPT ![g] = <<entry>>]
        /\ sysModules' = [sysModules EXCEPT ![NameOf(g, Entry)] = entry]
  /\ logNames' = logNames \union {NameOf(g, Entry)}
  /\ UNCHANGED <<disk, sources, genModules, attribute, owned, matchers>>

(***************************************************************************)
(* Imports: by the innermost body, or, once the plugin is loaded, by any   *)
(* function of its modules.  The package's body comes before that of a     *)
(* module in it.  What is there already is returned, and nothing happens.  *)
(***************************************************************************)
Importers(g) ==
  IF stack[g] # <<>> THEN {Top(g)}
  ELSE IF phase[g] \in Serving THEN {sysModules[NameOf(g, m)] : m \in Bodies \ bare} \ {None}
  ELSE {}

\* The body of a new module is the innermost.
Begin(g, new) ==
  stack' = IF new.mod \in bare THEN stack ELSE [stack EXCEPT ![g] = Append(@, new)]

\* Whether the parent package in sys.modules is the one the generation knows.
\* A module that is set on it answers a from-import (hasattr()).
PackageInPlace(g) ==
  genModules[g][Package] # None /\ sysModules[NameOf(g, Package)] = genModules[g][Package]
SetOnPackage(g, m, o) ==
  attribute' = IF m # Package /\ PackageInPlace(g)
               THEN [attribute EXCEPT ![g][m] = o] ELSE attribute

FromDisk(g) == disk
FromSnapshot(g) == sources[g]

\* _load_generation_module(): _ensure_generation_package, _load_generation_file,
\* for a dotted import, and for a from-import of what the package has not.
ImportAbsolute(g, m) ==
  /\ \E o \in Importers(g) : o.by = "plugin"
  /\ genModules[g][m] = None
  /\ m # Package => genModules[g][Package] # None
  /\ LET new == Made(g, m, "plugin", FromSnapshot(g))
     IN /\ genModules' = [genModules EXCEPT ![g][m] = new]
        /\ sysModules' = [sysModules EXCEPT ![NameOf(g, m)] = new]
        /\ SetOnPackage(g, m, new)
        /\ Begin(g, new)
  /\ logNames' = logNames \union ({NameOf(g, m)} \ {NameOf(g, b) : b \in bare})
  /\ UNCHANGED <<disk, sources, phase, owned, matchers>>

\* Python's importer.  The entry is in no package and cannot do that.  The
\* module is set on its package when its body has returned.
ImportRelative(g, m) ==
  /\ \E o \in Importers(g) : o.mod # Entry
  /\ sysModules[NameOf(g, m)] = None
  /\ m # Package => sysModules[NameOf(g, Package)] # None
  /\ LET new == Made(g, m, "python", disk)
     IN /\ sysModules' = [sysModules EXCEPT ![NameOf(g, m)] = new]
        /\ IF m \in bare THEN SetOnPackage(g, m, new) ELSE UNCHANGED attribute
        /\ Begin(g, new)
  /\ UNCHANGED <<disk, sources, phase, genModules, owned, logNames, matchers>>

\* _register_matcher(), under the owner that plugin_runtime_scope() has set.
RegisterMatcher(g) ==
  /\ stack[g] # <<>> \/ phase[g] \in Serving
  /\ matchers' = matchers \union {g}
  /\ UNCHANGED <<disk, sources, phase, stack, tables, owned>>

----------------------------------------------------------------------------
(* _record_owned_modules() and _discard_plugin_import().                    *)

\* What has a file below the plugin's root and a name of the generation.
Found(g) ==
  {<<NameOf(g, m), sysModules[NameOf(g, m)]>> :
     m \in {b \in Bodies \ bare : sysModules[NameOf(g, b)] # None}}
Record(g) == owned' = [owned EXCEPT ![g] = @ \union Found(g)]

\* _remove_module_identity(), for the pairs <<name, object>>.
Without(pairs) ==
  sysModules' = [n \in Names |-> IF <<n, sysModules[n]>> \in pairs THEN None ELSE sysModules[n]]

InGeneration(g) == {<<NameOf(g, m), genModules[g][m]>> : m \in Modules}

DiscardRecorded(g, recorded) == Without(recorded)
DiscardModules(g, recorded) == Without(recorded \union InGeneration(g))

Discard(g, recorded) ==
  /\ DiscardModules(g, recorded)
  /\ genModules' = [genModules EXCEPT ![g] = Nothing]
  /\ attribute' = [attribute EXCEPT ![g] = Nothing]
  /\ logNames' = logNames \ NamesOf(g)
  /\ sources' = [sources EXCEPT ![g] = None]
  /\ owned' = [owned EXCEPT ![g] = {}]
  /\ matchers' = matchers \ {g}

----------------------------------------------------------------------------
(* The end of a body.                                                       *)

\* Python sets the module on its package, if it is still in sys.modules.
Complete(g, o) ==
  LET there == sysModules[NameOf(g, o.mod)]
  IN IF o.by = "python" /\ there # None THEN SetOnPackage(g, o.mod, there) ELSE UNCHANGED attribute

Return(g) ==
  /\ stack[g] # <<>>
  /\ stack' = [stack EXCEPT ![g] = Front(@)]
  /\ IF Top(g).mod = Entry
     THEN Becomes(g, "imported") /\ Record(g) /\ UNCHANGED attribute
     ELSE UNCHANGED <<phase, owned>> /\ Complete(g, Top(g))
  /\ UNCHANGED <<disk, sources, sysModules, genModules, logNames, matchers>>

\* The attribute goes with the module it is.
Forgets(g, m, gone) == m \in gone /\ PackageInPlace(g) /\ attribute[g][m] = genModules[g][m]

\* _remove_generation_module(), or what Python does in its place: by name.
RemoveBodies(g, bodies) ==
  LET gone == {NameOf(g, o.mod) : o \in bodies}
      plugin == {o.mod : o \in {b \in bodies : b.by = "plugin"}}
  IN /\ sysModules' = [n \in Names |->
                         IF n \in gone /\ (sysModules[n] \in bodies
                              \/ \E o \in bodies : o.by = "python" /\ NameOf(g, o.mod) = n)
                         THEN None ELSE sysModules[n]]
     /\ genModules' = [genModules EXCEPT ![g] =
                         [m \in Modules |-> IF m \in plugin THEN None ELSE @[m]]]
     /\ attribute' = [attribute EXCEPT ![g] =
                        IF Package \in plugin THEN Nothing
                        ELSE [m \in Modules |-> IF Forgets(g, m, plugin) THEN None ELSE @[m]]]
     /\ logNames' = logNames \ {NameOf(g, m) : m \in plugin}

\* The importing body may catch it.
RaiseInside(g) ==
  /\ stack[g] # <<>> /\ Top(g).mod # Entry
  /\ stack' = [stack EXCEPT ![g] = Front(@)]
  /\ RemoveBodies(g, {Top(g)})
  /\ UNCHANGED <<disk, sources, phase, owned, matchers>>

\* The plugin fails to load; the modules its import has made are released.
RaiseInEntry(g) ==
  /\ stack[g] # <<>> /\ Top(g).mod = Entry
  /\ stack' = [stack EXCEPT ![g] = <<>>]
  /\ Becomes(g, "failed")
  /\ Discard(g, Found(g))
  /\ UNCHANGED disk

\* SystemExit or KeyboardInterrupt: the bodies are removed on the way out, but
\* `except Exception` neither records nor discards what is left.
Exit(g) ==
  /\ stack[g] # <<>>
  /\ stack' = [stack EXCEPT ![g] = <<>>]
  /\ RemoveBodies(g, {stack[g][i] : i \in 1 .. Len(stack[g])} \ {o \in Object : o.mod = Entry})
  /\ IF phase[g] = "importing" THEN Becomes(g, "interrupted") ELSE UNCHANGED phase
  /\ UNCHANGED <<disk, sources, owned, matchers>>

----------------------------------------------------------------------------
(* The manager: the checks of _load_candidate(), setup_client(), shutdown().*)

Accept(g) ==
  /\ phase[g] = "imported"
  /\ Becomes(g, "loaded")
  /\ UNCHANGED <<disk, sources, stack, tables, owned, matchers>>

Reject(g) ==
  /\ phase[g] = "imported"
  /\ Becomes(g, "failed")
  /\ Discard(g, owned[g])
  /\ UNCHANGED <<disk, stack>>

\* After a setup hook, which has imported like any other code of the plugin.
Setup(g) ==
  /\ phase[g] = "loaded" /\ stack[g] = <<>>
  /\ Becomes(g, "active")
  /\ Record(g)
  /\ UNCHANGED <<disk, sources, stack, tables, matchers>>

SetupFails(g) ==
  /\ phase[g] = "loaded" /\ stack[g] = <<>>
  /\ Becomes(g, "broken")
  /\ Record(g)
  /\ matchers' = matchers \ {g}
  /\ UNCHANGED <<disk, sources, stack, tables>>

\* When the manager's callbacks have been drained.
Shutdown(g) ==
  /\ phase[g] \in Serving \union {"broken"} /\ stack[g] = <<>>
  /\ Becomes(g, "closed")
  /\ Discard(g, owned[g])
  /\ UNCHANGED <<disk, stack>>

\* _cleanup_owned_modules() goes through _owned_modules, where an interrupted
\* import never got.
ShutdownInterrupted(g) ==
  /\ phase[g] = "interrupted"
  /\ Becomes(g, "abandoned")
  /\ matchers' = matchers \ {g}
  /\ UNCHANGED <<disk, sources, stack, tables, owned>>

----------------------------------------------------------------------------
ONext ==
  /\ UNCHANGED bare
  /\ \/ Edit
     \/ \E g \in Generations :
          \/ Snapshot(g) \/ NoSpec(g) \/ ExecEntry(g)
          \/ \E m \in Modules : ImportAbsolute(g, m) \/ ImportRelative(g, m)
          \/ RegisterMatcher(g)
          \/ Return(g) \/ RaiseInside(g) \/ RaiseInEntry(g) \/ Exit(g)
          \/ Accept(g) \/ Reject(g) \/ Setup(g) \/ SetupFails(g)
          \/ Shutdown(g) \/ ShutdownInterrupted(g)

OSpec == OInit /\ [][ONext]_ovars

----------------------------------------------------------------------------
\* Types; the modules of the generation are the plugin's own importer's.
OTypeOK ==
  /\ bare \subseteq Modules
  /\ disk \in Editions
  /\ sources \in [Generations -> Editions \union {None}]
  /\ phase \in [Generations -> Serving \union {"none", "snapshot", "importing", "imported",
                                "broken", "failed", "interrupted", "closed", "abandoned"}]
  /\ stack \in [Generations -> Seq(Object)]
  /\ sysModules \in [Names -> Object \union {None}]
  /\ genModules \in [Generations -> [Modules -> Object \union {None}]]
  /\ \A g \in Generations, m \in Modules :
       genModules[g][m] # None => genModules[g][m].by = "plugin" /\ genModules[g][m].mod = m
  /\ attribute \in [Generations -> [Modules -> Object \union {None}]]
  /\ owned \in [Generations -> SUBSET (Names \X Object)]
  /\ logNames \subseteq Names
  /\ matchers \subseteq Generations

\* "Matchers, subscriptions and modules are owned by each manager and
\* generation": under a generation's names there are only modules of its own,
\* and whatever the files have become since, what its importer loads, late or
\* early, is of the sources of the day.  So is what a from-import is answered
\* with, unless Python has loaded that module, from the disk, for a relative
\* import: then the plugin runs with two editions.
Isolation ==
  \A g \in Generations :
    /\ \A n \in NamesOf(g) : sysModules[n] # None => sysModules[n].of = g
    /\ \A m \in Modules :
         genModules[g][m] # None => genModules[g][m].of = g /\ genModules[g][m].edition = sources[g]
    /\ \A m \in Modules :
         attribute[g][m] # None =>
           /\ attribute[g][m].of = g
           /\ attribute[g][m].by = "plugin" => attribute[g][m].edition = sources[g]

\* A failed import leaves nothing behind, wherever it failed and whatever it
\* had imported and caught before, but the directories without __init__.py
\* that Python has made modules of: they have no file to be recorded by.  A
\* closed manager also leaves modules that Python has loaded for relative
\* imports after the last record.
NothingLeft ==
  \A g \in Generations :
    phase[g] \in {"failed", "closed"} =>
      /\ g \notin matchers
      /\ NamesOf(g) \intersect logNames = {}
      /\ \A m \in Modules : genModules[g][m] = None
      /\ \A m \in Bodies :
           sysModules[NameOf(g, m)] # None =>
             /\ sysModules[NameOf(g, m)].by = "python"
             /\ m \in bare \/ phase[g] = "closed"
=============================================================================

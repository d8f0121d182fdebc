---------------------------- MODULE PluginLoading ----------------------------
(***************************************************************************)
(* How a PluginManager finds the order in which plugins are imported       *)
(* (plugins/manager.py: load_plugins, load_plugin, _load_candidate).       *)
(*                                                                         *)
(* _load_candidate() calls itself for every dependency; `stack` holds its  *)
(* active calls.  A call runs under the manager's transition lock, so that *)
(* nothing interferes with it, but several calls follow each other with    *)
(* what the earlier ones left in the manager's tables.                     *)
(*                                                                         *)
(* An ID stands for its plugin.  What is on disk is open: which plugin     *)
(* requires which, which IDs a folder holds once or twice, and what the    *)
(* import of a module does, the same at each attempt.                      *)
(***************************************************************************)
EXTENDS Naturals, Sequences, SequencesExt

CONSTANTS
  Plugins,   \* the IDs
  Builtin,   \* IDs of builtin_plugins, found without a folder; no folder holds one
  MaxCalls   \* bound: calls of load_plugins() and load_plugin()

ASSUME PLAssumption == Builtin \subseteq Plugins /\ MaxCalls \in Nat

VARIABLES
  requires,     \* [Plugins -> SUBSET Plugins]: `requires` as read from the file
  module,       \* [Plugins -> what its import does], "unread" until the first one
  candidates,   \* _candidates
  invalid,      \* _invalid_plugin_reasons
  plugins,      \* plugins: the loaded ones
  order,        \* dependency_order
  loading,      \* _loading
  stack,        \* the plugins of the active calls
  left,         \* [Plugins -> the dependencies its call still has to ask for]
  todo,         \* the candidates load_plugins() has not come to
  failing,      \* whether the call that just ended returned None to a caller
  failed,       \* set of <<id, reason>>
  calls,
  tried,        \* history: what the last call was asked for
  before,       \* history: `plugins` when the last call began
  interrupted   \* history: a module has raised SystemExit

onDisk == <<requires, module>>
tables == <<candidates, invalid, plugins, order, loading>>
history == <<calls, tried, before, interrupted>>
pvars == <<onDisk, tables, stack, left, todo, failing, failed, history>>

PInit ==
  /\ requires \in [Plugins -> SUBSET Plugins]
  /\ module = [p \in Plugins |-> "unread"]
  /\ candidates = {} /\ invalid = {}
  /\ plugins = {} /\ order = <<>> /\ loading = {}
  /\ left = [p \in Plugins |-> {}]
  /\ stack = <<>> /\ todo = {} /\ failing = FALSE /\ failed = {}
  /\ calls = 0 /\ tried = {} /\ before = {} /\ interrupted = FALSE

Idle == stack = <<>> /\ todo = {}
Top == stack[Len(stack)]

----------------------------------------------------------------------------
(* The calls.                                                               *)

Begin(ids) ==
  /\ Idle /\ calls < MaxCalls
  /\ calls' = calls + 1
  /\ tried' = ids /\ before' = plugins
  /\ UNCHANGED <<onDisk, plugins, order, loading, stack, left, failing, interrupted>>

\* _discover_folder(): `found` are the IDs in the folders, `twice` those of
\* them that are there a second time or come from another file than before.
LoadPlugins(found, twice) ==
  /\ twice \subseteq found /\ found \intersect Builtin = {}
  /\ candidates' = candidates \union found
  /\ invalid' = invalid \union twice
  /\ failed' = failed \union {<<p, "duplicate">> : p \in twice}
  /\ todo' = candidates'
  /\ Begin(candidates')

LoadPlugin(p) ==
  /\ Begin({p})
  /\ todo' = {p}
  /\ UNCHANGED <<candidates, invalid, failed>>

----------------------------------------------------------------------------
(* _load_candidate()                                                        *)

Found(p) == p \in plugins \union candidates \union Builtin
Resolved(p) == candidates' = IF p \in plugins THEN candidates ELSE candidates \union {p}

AcceptDuplicate(p) ==
  IF ~Found(p) THEN {"missing"} ELSE IF p \in loading \ plugins THEN {"circular"} ELSE {}

IgnoreLoading(p) ==
  IF ~Found(p) THEN {"missing"} ELSE IF p \in invalid THEN {"duplicate"} ELSE {}

\* Why p, looked up for load_plugin() or as a dependency, is not even tried.
Refusals(p) ==
  IF ~Found(p) THEN {"missing"}
  ELSE IF p \in invalid THEN {"duplicate"}
  ELSE IF p \in loading \ plugins THEN {"circular"} ELSE {}

Call(p) ==
  /\ stack' = Append(stack, p)
  /\ left' = [left EXCEPT ![p] = requires[p]]
  /\ loading' = loading \union {p}

TryNext(p) ==
  /\ stack = <<>> /\ p \in todo
  /\ todo' = todo \ {p}
  /\ IF Found(p) THEN Resolved(p) ELSE UNCHANGED candidates
  /\ IF Refusals(p) = {} /\ p \notin plugins
     THEN Call(p) /\ UNCHANGED failed
     ELSE failed' = failed \union {<<p, r>> : r \in Refusals(p)} /\ UNCHANGED <<stack, left, loading>>
  /\ UNCHANGED <<onDisk, invalid, plugins, order, failing, history>>

Unmark(p) == loading' = loading \ {p}

IgnoreNone == failing' = FALSE
ReturnNone == failing' = (Len(stack) > 1)

\* The topmost call returns None.
Abandon ==
  /\ Unmark(Top)
  /\ stack' = Front(stack)
  /\ left' = [left EXCEPT ![Top] = {}]
  /\ ReturnNone
  /\ UNCHANGED <<invalid, plugins, order, todo, history>>

Needs(d) == stack # <<>> /\ ~failing /\ d \in left[Top]

HasDependency(d) ==
  /\ Needs(d) /\ d \in plugins \ invalid
  /\ left' = [left EXCEPT ![Top] = @ \ {d}]
  /\ UNCHANGED <<onDisk, tables, stack, todo, failing, failed, history>>

\* The dependency is missing, or its own call returns None at once.
LacksDependency(d) ==
  /\ Needs(d) /\ Refusals(d) # {}
  /\ IF Found(d) THEN Resolved(d) ELSE UNCHANGED candidates
  /\ failed' = failed \union {<<Top, "dependency">>}
                      \union {<<d, r>> : r \in Refusals(d) \ {"missing"}}
  /\ Abandon
  /\ UNCHANGED onDisk

Descend(d) ==
  /\ Needs(d) /\ d \notin plugins /\ Refusals(d) = {}
  /\ Resolved(d)
  /\ Call(d)
  /\ UNCHANGED <<onDisk, invalid, plugins, order, todo, failing, failed, history>>

FailQuietly == UNCHANGED failed
ReportDependency == failed' = failed \union {<<Top, "dependency">>}

FailDependent ==
  /\ stack # <<>> /\ failing
  /\ ReportDependency
  /\ Abandon
  /\ UNCHANGED <<onDisk, candidates>>

(***************************************************************************)
(* _import_candidate() and the checks of the module's metadata.  "raises": *)
(* any Exception; "mismatch": __plugin_meta__ is not PluginMetadata or has *)
(* another name; "exits": SystemExit or KeyboardInterrupt, which nothing   *)
(* on the way out of load_plugins() catches.                               *)
(***************************************************************************)
Ready == stack # <<>> /\ ~failing /\ left[Top] = {}

Import(how) ==
  /\ Ready
  /\ module[Top] \in {"unread", how}
  /\ module' = [module EXCEPT ![Top] = how]
  /\ UNCHANGED <<requires, candidates, invalid>>

ImportSucceeds ==
  /\ Import("ok")
  /\ plugins' = plugins \union {Top}
  /\ order' = Append(order, Top)
  /\ loading' = loading \ {Top}
  /\ stack' = Front(stack)   \* the caller finds it among `plugins`
  /\ UNCHANGED <<left, todo, failing, failed, history>>

ImportFails ==
  /\ \E how \in {"raises", "mismatch"} : Import(how)
  /\ failed' = failed \union {<<Top, "import">>}
  /\ Abandon

ImportExits ==
  /\ Import("exits")
  /\ stack' = <<>> /\ todo' = {}
  /\ left' = [p \in Plugins |-> {}]
  /\ interrupted' = TRUE
  /\ UNCHANGED <<plugins, order, loading, failing, failed, calls, tried, before>>

----------------------------------------------------------------------------
Work ==
  \/ \E p \in Plugins : TryNext(p) \/ HasDependency(p) \/ LacksDependency(p) \/ Descend(p)
  \/ FailDependent \/ ImportSucceeds \/ ImportFails \/ ImportExits

PNext ==
  \/ \E found \in SUBSET Plugins : \E twice \in SUBSET found : LoadPlugins(found, twice)
  \/ \E p \in Plugins : LoadPlugin(p)
  \/ Work

PSpec == PInit /\ [][PNext]_pvars

\* A call that has begun goes on: no other thread is involved.
PFairness == WF_pvars(Work)

----------------------------------------------------------------------------
Reasons == {"missing", "duplicate", "circular", "dependency", "import"}

Typed ==
  /\ requires \in [Plugins -> SUBSET Plugins]
  /\ module \in [Plugins -> {"unread", "ok", "raises", "mismatch", "exits"}]
  /\ candidates \subseteq Plugins /\ invalid \subseteq Plugins /\ plugins \subseteq Plugins
  /\ order \in Seq(Plugins) /\ loading \subseteq Plugins /\ stack \in Seq(Plugins)
  /\ left \in [Plugins -> SUBSET Plugins]
  /\ todo \subseteq Plugins /\ failing \in BOOLEAN /\ (failing => stack # <<>>)
  /\ failed \subseteq Plugins \X Reasons
  /\ calls \in 0 .. MaxCalls /\ tried \subseteq Plugins
  /\ before \subseteq plugins /\ interrupted \in BOOLEAN

LoadedOnce ==
  /\ \A p \in plugins : \E i \in 1 .. Len(order) : order[i] = p
  /\ \A i \in 1 .. Len(order) : order[i] \in plugins
  /\ \A i, j \in 1 .. Len(order) : order[i] = order[j] => i = j

LoadingIsStack ==
  /\ \A i \in 1 .. Len(stack) : stack[i] \in loading \ plugins
  /\ \A i, j \in 1 .. Len(stack) : stack[i] = stack[j] => i = j
  /\ ~interrupted => \A p \in loading : \E i \in 1 .. Len(stack) : stack[i] = p

\* Types; each loaded plugin is in dependency_order once; `_loading` is the
\* chain of active calls, for different plugins that are not loaded, and holds
\* nothing else unless a module has raised SystemExit.
PTypeOK == Typed /\ LoadedOnce /\ LoadingIsStack

\* Dependencies load before dependents.
DependenciesFirst ==
  \A i \in 1 .. Len(order) : \A d \in requires[order[i]] : \E j \in 1 .. i - 1 : order[j] = d

\* The last call can load p: p is in every set that holds each plugin which is
\* found, unique and importable and requires only what was loaded before or is
\* in the set itself.  The least such set has no member of a cycle.
Sound(p) == Found(p) /\ p \notin invalid /\ module[p] \in {"unread", "ok"}
Loadable(p) ==
  \A S \in SUBSET Plugins :
    (\A q \in Plugins \ before :
       Sound(q) /\ requires[q] \subseteq S \union (before \ invalid) => q \in S) => p \in S

\* A call loads what can be loaded and nothing else, in whatever order the
\* folders and the `requires` sets are read: "missing, failed, circular,
\* invalid, or duplicate IDs prevent loading", and nothing else does.
LoadExact ==
  Idle /\ ~interrupted =>
    /\ \A p \in tried : Loadable(p) => p \in plugins
    /\ \A p \in plugins \ before : Loadable(p)

\* No plugin is missing without a word: the ones that were asked for and are
\* not loaded are named in LoadResult.failed.
Diagnosed ==
  Idle /\ ~interrupted =>
    \A p \in tried \ plugins : \E r \in Reasons : <<p, r>> \in failed

\* A call ends, also for cyclic requirements.
LoadReturns == ~Idle ~> Idle
=============================================================================

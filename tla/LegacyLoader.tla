----------------------------- MODULE LegacyLoader -----------------------------
(***************************************************************************)
(* load_plugins() of plugins/loader.py: one pass over a folder of plugins, *)
(* each of which is executed under a module name of its own.  Passes of    *)
(* two threads may interleave; a plugin may itself start a pass.           *)
(***************************************************************************)
EXTENDS Naturals, Sequences, SequencesExt

CONSTANTS Entries,    \* files and directories of the folder
          Passes      \* calls of load_plugins(): [Entries -> ...] each

VARIABLES
  kindOf,     \* what an entry is: by entry
  feishu,     \* the protocol is "feishu"
  unread,       \* by pass, the entries that iterdir() has not given yet
  at,         \* by pass, the entry whose module is executed, or none: a set
  loaded, disabled, failures,    \* by pass, the lists of LoadResult, as sequences of entries
  modules,    \* sys.modules: <<pass, entry>> stands for the module's unique name
  passAt      \* by pass: "off", "missing", "looping", "done", "raised"

legacyVars == <<kindOf, feishu, unread, at, loaded, disabled, failures, modules, passAt>>

\* __pycache__; a name with d_; one that Feishu cannot run; a directory without
\* setup.py; another file; an entry file that can be executed.
EntryKinds == {"cache", "prefixed", "incompatible", "empty", "other", "plugin"}

LegacyInit ==
  /\ kindOf \in [Entries -> EntryKinds] /\ feishu \in BOOLEAN
  /\ unread = [c \in Passes |-> {}] /\ at = [c \in Passes |-> {}]
  /\ loaded = [c \in Passes |-> <<>>] /\ disabled = loaded /\ failures = loaded
  /\ modules = {} /\ passAt = [c \in Passes |-> "off"]

PassGoes(c, from, to) == passAt[c] = from /\ passAt' = [passAt EXCEPT ![c] = to]
Folder == UNCHANGED <<kindOf, feishu>>
Listed(list, c, e) == [list EXCEPT ![c] = Append(@, e)]

\* The folder is there, was made, or is none: then the pass is over.
BeginPass(c) ==
  /\ PassGoes(c, "off", "looping")
  /\ unread' = [unread EXCEPT ![c] = Entries]
  /\ Folder /\ UNCHANGED <<at, loaded, disabled, failures, modules>>

NoFolder(c) ==
  /\ PassGoes(c, "off", "missing")
  /\ Folder /\ UNCHANGED <<unread, at, loaded, disabled, failures, modules>>

Considers(c, e) == passAt[c] = "looping" /\ at[c] = {} /\ e \in unread[c]
TakeEntry(c, e) == unread' = [unread EXCEPT ![c] = @ \ {e}] /\ Folder /\ UNCHANGED passAt

Runnable(e) == kindOf[e] = "plugin" \/ (kindOf[e] = "incompatible" /\ ~feishu)

PassOver(c, e) ==
  /\ Considers(c, e) /\ TakeEntry(c, e)
  /\ kindOf[e] \in {"cache", "other"}
  /\ UNCHANGED <<at, loaded, disabled, failures, modules>>

Disable(c, e) ==
  /\ Considers(c, e) /\ TakeEntry(c, e)
  /\ kindOf[e] = "prefixed" \/ (kindOf[e] = "incompatible" /\ feishu)
  /\ disabled' = Listed(disabled, c, e)
  /\ UNCHANGED <<at, loaded, failures, modules>>

\* No setup.py, or no import specification can be made.
NoEntryFile(c, e) ==
  /\ Considers(c, e) /\ TakeEntry(c, e)
  /\ kindOf[e] = "empty" \/ Runnable(e)
  /\ failures' = Listed(failures, c, e)
  /\ UNCHANGED <<at, loaded, disabled, modules>>

\* _load_single(), until exec_module().
Execute(c, e) ==
  /\ Considers(c, e) /\ TakeEntry(c, e) /\ Runnable(e)
  /\ at' = [at EXCEPT ![c] = {e}]
  /\ modules' = modules \cup {<<c, e>>}
  /\ UNCHANGED <<loaded, disabled, failures>>

Leave(c) == at' = [at EXCEPT ![c] = {}] /\ Folder /\ UNCHANGED <<unread, disabled>>

\* _register_module() takes it.
Registered(c, e) ==
  /\ e \in at[c] /\ Leave(c)
  /\ loaded' = Listed(loaded, c, e)
  /\ UNCHANGED <<failures, modules, passAt>>

\* (A plausible slip: a module that is no plugin stays in sys.modules.)
KeepModule(c, e) == modules
DropModule(c, e) == modules \ {<<c, e>>}

\* It lacks the names of a plugin, or its execution raised an exception.
NoPlugin(c, e) ==
  /\ e \in at[c] /\ Leave(c)
  /\ failures' = Listed(failures, c, e)
  /\ modules' = DropModule(c, e)
  /\ UNCHANGED <<loaded, passAt>>

\* SystemExit or KeyboardInterrupt: the pass ends there, its result is lost and
\* the module stays.
Interrupted(c, e) ==
  /\ e \in at[c] /\ Leave(c)
  /\ passAt' = [passAt EXCEPT ![c] = "raised"]
  /\ UNCHANGED <<loaded, failures, modules>>

PassEnds(c) ==
  /\ PassGoes(c, "looping", "done") /\ unread[c] = {} /\ at[c] = {}
  /\ Folder /\ UNCHANGED <<unread, at, loaded, disabled, failures, modules>>

LegacyNext ==
  \E c \in Passes :
    \/ BeginPass(c) \/ NoFolder(c) \/ PassEnds(c)
    \/ \E e \in Entries :
         \/ PassOver(c, e) \/ Disable(c, e) \/ NoEntryFile(c, e) \/ Execute(c, e)
         \/ Registered(c, e) \/ NoPlugin(c, e) \/ Interrupted(c, e)

LegacySpec == LegacyInit /\ [][LegacyNext]_legacyVars

-----------------------------------------------------------------------------
LegacyTypeOK ==
  /\ kindOf \in [Entries -> EntryKinds] /\ feishu \in BOOLEAN
  /\ \A c \in Passes : /\ unread[c] \subseteq Entries /\ at[c] \subseteq Entries
                       /\ passAt[c] \in {"off", "missing", "looping", "done", "raised"}
  /\ modules \subseteq Passes \X Entries

\* When a pass is over, each entry is told of in one list, once, unless it is
\* no plugin at all; and of the modules it has executed those of its loaded
\* plugins stay in sys.modules and no other.
EachEntryOnce ==
  \A c \in Passes : passAt[c] = "done" =>
    /\ \A e \in Entries :
         LET told == loaded[c] \o disabled[c] \o failures[c]
         IN  IF kindOf[e] \in {"cache", "other"} THEN ~Contains(told, e)
             ELSE \E i \in DOMAIN told : \A j \in DOMAIN told : told[j] = e <=> j = i
    /\ \A e \in Entries : <<c, e>> \in modules <=> Contains(loaded[c], e)
=============================================================================

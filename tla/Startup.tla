------------------------------- MODULE Startup -------------------------------
(***************************************************************************)
(* The choice and the loading of an adapter (configurator.py,              *)
(* adapters/builtins.py, adapters/__init__.py): which loader the           *)
(* configuration picks, the three modules it replaces in sys.modules, one  *)
(* after the other, the modules of jianer that copy from them when they    *)
(* are imported for the first time, and the connection run() reads.        *)
(*                                                                         *)
(* Any import may raise.  The program may load again after that, also with *)
(* another configuration, and may import the copying modules too early.    *)
(***************************************************************************)
EXTENDS Naturals, Sequences, SequencesExt, FiniteSets

CONSTANTS Spellings,    \* names of protocols, in lower case, as people write them
          Sections,     \* what `connections` and `Connections` may hold: entries in order
          NoSection,
          MaxTried      \* bound: adapters whose loader runs in one process

Adapters == {"OneBot", "Milky", "Feishu"}
Modes == {"", "FWS", "HTTPC"}

ASSUME StartupAssumption ==
  /\ MaxTried \in Nat /\ "onebot" \in Spellings
  /\ Sections \subseteq Seq([key : Spellings, mode : Modes])
  /\ \A s \in Sections : IsInjective(s)

VARIABLES settings,     \* the configuration: [protocol, connections, upper]
          parsed,       \* BotConfig.connections after custom_post()
          spc,          \* where the start is
          loading,      \* the adapter whose loader runs, or "none"
          tried,        \* history: the adapters whose loader has run
          early,        \* history: whether the copying modules were imported too early
          replaced,     \* sys.modules: whose are res, common and listener
          copied        \* whose parts segments, common and listener of jianer have copied

startVars == <<settings, parsed, spc, loading, tried, early, replaced, copied>>

-----------------------------------------------------------------------------
(* The configuration.                                                      *)

\* _canon_protocol(); another name stands for itself.
Canon(name) == CASE name \in {"onebot", "onebot11", "onebotv11", "onebot-v11"} -> "OneBot"
                 [] name = "milky" -> "Milky"  [] name = "kritor" -> "Kritor"
                 [] name \in {"feishu", "lark"} -> "Feishu"
                 [] OTHER -> name

\* _build_connection()
Build(protocol, mode) ==
  CASE protocol = "Feishu" /\ mode = "" -> "BotFeishuC"
    [] mode = "HTTPC" -> "BotHTTPC"
    [] OTHER -> "BotWSC"

\* (A plausible slip: the first of several entries for a protocol stays.)
FirstFor(section, protocol) ==
  section[CHOOSE i \in DOMAIN section :
            /\ Canon(section[i].key) = protocol
            /\ \A j \in 1 .. i - 1 : Canon(section[j].key) # protocol]

LastFor(section, protocol) ==
  section[CHOOSE i \in DOMAIN section :
            /\ Canon(section[i].key) = protocol
            /\ \A j \in i + 1 .. Len(section) : Canon(section[j].key) # protocol]

ProtocolsOf(section) == {Canon(section[i].key) : i \in DOMAIN section}

\* custom_post(): later entries for a protocol replace the earlier ones.
Parse(section) == [p \in ProtocolsOf(section) |->
                     [key |-> LastFor(section, p).key, class |-> Build(p, LastFor(section, p).mode)]]
NoConnection == [key |-> "none", class |-> "none"]

\* get_connection(): `connections`, else the first entry of `Connections`.
GetConnection(protocol) ==
  IF protocol \in DOMAIN parsed THEN parsed[protocol]
  ELSE IF settings.upper # NoSection /\ protocol \in ProtocolsOf(settings.upper)
       THEN LET entry == FirstFor(settings.upper, protocol)
            IN  [key |-> entry.key, class |-> Build(protocol, entry.mode)]
       ELSE NoConnection

Configure(protocol, connections, upper) ==
  /\ settings' = [protocol |-> protocol, connections |-> connections, upper |-> upper]
  /\ parsed' = CASE connections # NoSection -> Parse(connections)
                 [] connections = NoSection /\ upper # NoSection -> Parse(upper)
                 [] OTHER -> <<>>

-----------------------------------------------------------------------------
(* Loading.                                                                *)

StartInit ==
  /\ settings = [protocol |-> "onebot", connections |-> NoSection, upper |-> NoSection]
  /\ parsed = <<>> /\ spc = "unset" /\ loading = "none" /\ tried = {} /\ early = FALSE
  /\ replaced = [m \in {"res", "common", "listener"} |-> "stub"]
  /\ copied = [m \in {"segments", "common", "listener"} |-> "none"]

ReadSettings ==
  /\ spc \in {"unset", "failed", "returned"}
  /\ \E p \in Spellings, c \in Sections \union {NoSection}, u \in Sections \union {NoSection} :
       Configure(p, c, u)
  /\ spc' = "set" /\ UNCHANGED <<loading, tried, early, replaced, copied>>

\* A first import copies what is in sys.modules then; a later one is answered
\* from sys.modules and copies nothing.
Copies(from, names) ==
  copied' = [m \in DOMAIN copied |->
               IF m \in DOMAIN names \intersect from /\ copied[m] = "none"
               THEN replaced[names[m]] ELSE copied[m]]
FacadeNames == [segments |-> "res", common |-> "common", listener |-> "listener"]

\* import jianer.segments, jianer.common or jianer.listener without an adapter:
\* jianer.listener imports events, that common, and that segments.
ImportEarly ==
  /\ spc = "set" /\ tried = {} /\ ~early /\ early' = TRUE
  /\ \E from \in {{"segments"}, {"segments", "common"}, DOMAIN copied} : Copies(from, FacadeNames)
  /\ UNCHANGED <<settings, parsed, spc, loading, tried, replaced>>

\* (A plausible slip: the listener first, like the order of Adapter's arguments.)
ListenerFirst == <<"listener", "common", "res">>

LoadOrder == <<"res", "common", "listener">>

\* load_configured() compares the name itself, in lower case; kritor has no loader.
LoaderFor(name) ==
  IF name \in {"onebot", "milky", "feishu"} THEN Canon(name) ELSE "none"

LoadConfigured ==
  /\ spc = "set"
  /\ LET a == LoaderFor(settings.protocol)
     IN  /\ Cardinality(tried \ {a}) < MaxTried
         /\ loading' = a /\ tried' = tried \union ({a} \ {"none"})
         /\ spc' = IF a = "none" THEN "failed" ELSE LoadOrder[1]
  /\ UNCHANGED <<settings, parsed, early, replaced, copied>>

\* An import of an adapter's module succeeds, and the module takes its place.
\* The adapter's listener imports jianer.segments and jianer.common.
Loading == spc \in Range(LoadOrder)
NextOf(m) == LET i == CHOOSE i \in DOMAIN LoadOrder : LoadOrder[i] = m
             IN  IF i = Len(LoadOrder) THEN "returned" ELSE LoadOrder[i + 1]

ImportAndReplace ==
  /\ Loading
  /\ replaced' = [replaced EXCEPT ![spc] = loading]
  /\ Copies(IF spc = "listener" THEN {"segments", "common"} ELSE {}, FacadeNames)
  /\ spc' = NextOf(spc) /\ loading' = IF spc' = "returned" THEN "none" ELSE loading
  /\ UNCHANGED <<settings, parsed, tried, early>>

\* It raises; the modules it imports may be complete by then, and remain.
ImportFails ==
  /\ Loading /\ spc' = "failed" /\ loading' = "none"
  /\ \E from \in IF spc = "listener" THEN {{}, {"segments"}, {"segments", "common"}} ELSE {{}} :
       Copies(from, FacadeNames)
  /\ UNCHANGED <<settings, parsed, tried, early, replaced>>

\* from jianer import listener, and its run().
StartRun ==
  /\ spc = "returned" /\ spc' = "running" /\ Copies(DOMAIN copied, FacadeNames)
  /\ UNCHANGED <<settings, parsed, loading, tried, early, replaced>>

StartNext == ReadSettings \/ ImportEarly \/ LoadConfigured \/ ImportAndReplace \/ ImportFails \/ StartRun
StartSpec == StartInit /\ [][StartNext]_startVars

-----------------------------------------------------------------------------
Owners == Adapters \union {"stub"}
StartTypeOK ==
  /\ settings.protocol \in Spellings
  /\ \A p \in DOMAIN parsed : parsed[p].class \in {"BotWSC", "BotHTTPC", "BotFeishuC"}
  /\ spc \in {"unset", "set", "failed", "returned", "running"} \union Range(LoadOrder)
  /\ loading \in Adapters \union {"none"} /\ tried \subseteq Adapters /\ early \in BOOLEAN
  /\ \A m \in DOMAIN replaced : replaced[m] \in Owners
  /\ \A m \in DOMAIN copied : copied[m] \in Owners \union {"none"}

\* When a load returns, the three modules are of the configured adapter,
\* whatever failed before.  When no other adapter was tried and nothing
\* imported too early, so is all that jianer copied from them, whatever the
\* failures; and run() connects as the entry says that the user wrote last for
\* this protocol, under any of its names.
AdapterIsWhole ==
  /\ spc \in {"returned", "running"} =>
       \A m \in DOMAIN replaced : replaced[m] = Canon(settings.protocol)
  /\ spc = "running" /\ ~early /\ Cardinality(tried) = 1 =>
       /\ \A m \in DOMAIN copied : copied[m] = Canon(settings.protocol)
       /\ LET user == IF settings.connections # NoSection THEN settings.connections
                      ELSE settings.upper
              mine == {i \in 1 .. (IF user = NoSection THEN 0 ELSE Len(user)) :
                         Canon(user[i].key) = Canon(settings.protocol)}
          IN  mine # {} => \E i \in mine : /\ \A j \in mine : j <= i
                                           /\ GetConnection(copied["listener"]).key = user[i].key
=============================================================================

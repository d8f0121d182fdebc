--------------------------- MODULE MatcherRegistry ---------------------------
(***************************************************************************)
(* The command matchers of the built-in Alconna plugin: where handle()     *)
(* registers them, by the plugin that runs; what on_message() offers an    *)
(* event to; and the context variables that tell a handler its event.  A   *)
(* handler may await, may pass an event on to on_message() itself, and may *)
(* raise.  Tasks have a context of their own.                              *)
(*                                                                         *)
(* The plugin manager removes a plugin's matchers when its import fails,   *)
(* and all of its own when its setup fails or it shuts down.  Only the     *)
(* shutdown waits for the events first: the manager takes events before it *)
(* has loaded and set up its plugins, so matchers also go while handlers   *)
(* run, and on_message() goes on with its copy of them.                    *)
(***************************************************************************)
EXTENDS Naturals, Sequences, SequencesExt

CONSTANTS Managers, PluginIds, Matchers, EventTasks,
          Nobody,        \* the owner of code no plugin runs; no event
          MaxHandlers,   \* bound: handlers of a matcher
          MaxNesting     \* bound: dispatches inside each other

ASSUME MatcherAssumption ==
  Nobody \notin Managers /\ MaxHandlers \in Nat /\ MaxNesting \in Nat \ {0}

VARIABLES
  ofManager,   \* _MATCHERS: by manager, its plugins' matchers in order
  ofNobody,    \* _LEGACY_MATCHERS
  count,       \* by matcher, the length of handlers
  scope,       \* by task, the manager whose event it handles, or Nobody
  dispatches,  \* by task, its dispatches: the innermost is last
  current,     \* by task, _CURRENT_EVENT: the number of a dispatch, or 0
  late         \* history: by task, the matchers removed while it handles its event

matchVars == <<ofManager, ofNobody, count, scope, dispatches, current, late>>

MatchInit ==
  /\ ofManager = [m \in Managers |-> <<>>] /\ ofNobody = <<>>
  /\ count = [x \in Matchers |-> 0]
  /\ scope \in [EventTasks -> Managers \cup {Nobody}]
  /\ dispatches = [t \in EventTasks |-> <<>>]
  /\ current = [t \in EventTasks |-> 0]
  /\ late = [t \in EventTasks |-> {}]

Dispatching == UNCHANGED <<scope, dispatches, current>>
Registry == UNCHANGED <<ofManager, ofNobody>>

-----------------------------------------------------------------------------
(* handle() and _register_matcher(). *)

\* A plugin's matchers stay together: a new one comes after those it has, or at
\* the end; and they go together.
Entry(p, x) == [plugin |-> p, matcher |-> x]
FirstOf(s, p) == SelectInSeq(s, LAMBDA y : y.plugin = p)
LastOf(s, p) == SelectLastInSeq(s, LAMBDA y : y.plugin = p)
Added(s, p, x) ==
  IF LastOf(s, p) = 0 THEN Append(s, Entry(p, x)) ELSE InsertAt(s, LastOf(s, p) + 1, Entry(p, x))
Without(s, p) ==
  IF FirstOf(s, p) = 0 THEN s
  ELSE SubSeq(s, 1, FirstOf(s, p) - 1) \o SubSeq(s, LastOf(s, p) + 1, Len(s))

Handle(m, p, x) ==
  /\ count[x] < MaxHandlers
  /\ count' = [count EXCEPT ![x] = @ + 1]
  /\ IF m = Nobody
     THEN /\ ofNobody' = IF Contains(ofNobody, x) THEN ofNobody ELSE Append(ofNobody, x)
          /\ UNCHANGED ofManager
     ELSE /\ ofManager' = [ofManager EXCEPT ![m] =
                             IF Contains(@, Entry(p, x)) THEN @ ELSE Added(@, p, x)]
          /\ UNCHANGED ofNobody
  /\ UNCHANGED late /\ Dispatching

\* What a removal takes from under the tasks that handle events of the manager.
Names(s) == {s[i].matcher : i \in DOMAIN s}
Missed(m) ==
  late' = [t \in EventTasks |->
             IF scope[t] = m /\ dispatches[t] # <<>>
             THEN late[t] \cup (Names(ofManager[m]) \ Names(ofManager'[m])) ELSE late[t]]

RemovePlugin(m, p) ==
  /\ ofManager[m] # <<>>
  /\ ofManager' = [ofManager EXCEPT ![m] = Without(@, p)]
  /\ Missed(m) /\ UNCHANGED <<ofNobody, count>> /\ Dispatching

RemoveManager(m) ==
  /\ ofManager[m] # <<>>
  /\ ofManager' = [ofManager EXCEPT ![m] = <<>>]
  /\ Missed(m) /\ UNCHANGED <<ofNobody, count>> /\ Dispatching

-----------------------------------------------------------------------------
(* on_message() and dispatch(). *)

Named(s) == [i \in DOMAIN s |-> s[i].matcher]

\* _matchers_for_current_manager(), a copy made under the lock.
MatchersFor(m) == (IF m = Nobody THEN <<>> ELSE Named(ofManager[m])) \o ofNobody

Innermost(t) == dispatches[t][Len(dispatches[t])]
SetInnermost(t, frame) == dispatches' = [dispatches EXCEPT ![t][Len(dispatches[t])] = frame]
Pop(t) == /\ dispatches' = [dispatches EXCEPT ![t] = Front(@)]
          /\ late' = [late EXCEPT ![t] = IF Len(dispatches[t]) = 1 THEN {} ELSE @]

\* A handler of the innermost dispatch runs, unless `at` is 0.
Runs(t) == dispatches[t] # <<>> /\ Innermost(t).at > 0
Between(t) == dispatches[t] # <<>> /\ Innermost(t).at = 0

OnMessage(t) ==
  /\ dispatches[t] = <<>> \/ (Runs(t) /\ Len(dispatches[t]) < MaxNesting)
  /\ dispatches' = [dispatches EXCEPT ![t] =
                 Append(@, [todo |-> MatchersFor(scope[t]), at |-> 0, handled |-> FALSE, before |-> 0])]
  /\ UNCHANGED <<count, scope, current, late>> /\ Registry

NotMatched(t) ==
  /\ Between(t) /\ Innermost(t).todo # <<>>
  /\ SetInnermost(t, [Innermost(t) EXCEPT !.todo = Tail(@)])
  /\ UNCHANGED <<count, scope, current, late>> /\ Registry

\* The event of a dispatch is known by the dispatch's depth.
Matched(t) ==
  /\ Between(t) /\ Innermost(t).todo # <<>>
  /\ SetInnermost(t, [Innermost(t) EXCEPT !.at = 1, !.handled = FALSE, !.before = current[t]])
  /\ current' = [current EXCEPT ![t] = Len(dispatches[t])]
  /\ UNCHANGED <<count, scope, late>> /\ Registry

NoneLeft(t) ==
  /\ Between(t) /\ Innermost(t).todo = <<>>
  /\ Pop(t) /\ UNCHANGED <<count, scope, current>> /\ Registry

\* The list of handlers is read again at each step: it may have grown.
HandlerReturns(t, handled) ==
  /\ Runs(t)
  /\ LET frame == Innermost(t)
         all == frame.handled \/ handled
     IN  IF frame.at < count[Head(frame.todo)]
         THEN /\ SetInnermost(t, [frame EXCEPT !.at = @ + 1, !.handled = all])
              /\ UNCHANGED <<current, late>>
         ELSE /\ IF all THEN Pop(t)
                 ELSE SetInnermost(t, [frame EXCEPT !.at = 0, !.todo = Tail(@)]) /\ UNCHANGED late
              /\ current' = [current EXCEPT ![t] = frame.before]
  /\ UNCHANGED <<count, scope>> /\ Registry

\* (A plausible slip: the context is not restored when a handler raises.)
NotRestored(t) == current[t]

\* The `finally` of dispatch().
Restored(t) == Innermost(t).before

\* The exception ends this on_message(); a handler that called it goes on, or
\* raises in turn.
HandlerRaises(t) ==
  /\ Runs(t)
  /\ current' = [current EXCEPT ![t] = Restored(t)]
  /\ Pop(t) /\ UNCHANGED <<count, scope>> /\ Registry

MatchNext ==
  \/ \E p \in PluginIds, x \in Matchers, m \in Managers \cup {Nobody} : Handle(m, p, x)
  \/ \E m \in Managers : RemoveManager(m) \/ \E p \in PluginIds : RemovePlugin(m, p)
  \/ \E t \in EventTasks :
       \/ OnMessage(t) \/ NotMatched(t) \/ Matched(t) \/ NoneLeft(t) \/ HandlerRaises(t)
       \/ \E handled \in BOOLEAN : HandlerReturns(t, handled)

MatchSpec == MatchInit /\ [][MatchNext]_matchVars

-----------------------------------------------------------------------------
MatchTypeOK ==
  /\ \A m \in Managers : \A i \in DOMAIN ofManager[m] :
       ofManager[m][i] \in [plugin : PluginIds, matcher : Matchers]
  /\ \A i \in DOMAIN ofNobody : ofNobody[i] \in Matchers
  /\ count \in [Matchers -> 0..MaxHandlers]
  /\ \A t \in EventTasks : Len(dispatches[t]) <= MaxNesting /\ current[t] \in 0..MaxNesting

\* A handler that runs finds its own event in the context, so that what it
\* sends without a target goes to the conversation it answers: also when it
\* has passed another event on and that dispatch has raised.
CurrentIsOwn ==
  \A t \in EventTasks : /\ Runs(t) => current[t] = Len(dispatches[t])
                        /\ dispatches[t] = <<>> => current[t] = 0

\* A handler runs only if its matcher is registered, by a plugin of the manager
\* whose event it is or by code that is no plugin's, or has been removed since
\* its task began to handle the event: never one that was gone before, and none
\* of another manager's.
RunsRegistered ==
  \A t \in EventTasks : Runs(t) =>
    LET x == Head(Innermost(t).todo)
    IN  \/ Contains(ofNobody, x)
        \/ scope[t] # Nobody /\ x \in Names(ofManager[scope[t]])
        \/ x \in late[t]

\* Both: a handler's context and its registration are those of its event.
HandlersAreOwn == CurrentIsOwn /\ RunsRegistered
=============================================================================

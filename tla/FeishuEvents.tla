----------------------------- MODULE FeishuEvents -----------------------------
(***************************************************************************)
(* How events of Feishu reach a handler (Feishu.py, from FeishuEventServer *)
(* on): concurrent threads of Flask answer the callbacks and sort out the  *)
(* repetitions, or a thread of the long connection receives the events;    *)
(* run() takes them from a queue until stop() puts None in it.             *)
(***************************************************************************)
EXTENDS Naturals, Sequences, FiniteSets

CONSTANTS
  FEvents,
  Unidentified,   \* events without event_id
  Callbacks,      \* the requests that Feishu makes, of an event each
  Retention,      \* eight hours
  Never,          \* no time, no event, None
  MaxTime         \* bound of the clock

ASSUME FeishuEventsAssumption ==
  Unidentified \subseteq FEvents /\ {Retention, MaxTime} \subseteq Nat /\ Never \notin FEvents \union Nat

VARIABLES
  mode,           \* event_mode
  clock,
  eventCache,     \* [Events -> time of the entry]: event_cache
  cpc, event, now, staleIds,
                  \* [Callbacks -> ...]: where a request is, and its local variables
  late,           \* requests whose event had been answered before they came
  oldest,         \* [Events -> the smallest time ever entered for it]
  answered,       \* events with a request that was answered
  evRan,          \* listener_ran
  rpc,            \* where run() is
  activeQueue,    \* active_event_queue, Never while it is None
  serverQueue,    \* the queue of event_server
  stopper         \* where stop() is

fcallback == <<eventCache, cpc, event, now, staleIds, late, oldest, answered>>
frun == <<evRan, rpc>>
fvars == <<mode, clock, fcallback, frun, activeQueue, serverQueue, stopper>>

FInit ==
  /\ mode \in {"webhook", "long_connection"}
  /\ clock = 0
  /\ eventCache = [e \in FEvents |-> Never] /\ oldest = [e \in FEvents |-> Never]
  /\ cpc = [c \in Callbacks |-> "none"] /\ event = [c \in Callbacks |-> Never]
  /\ now = [c \in Callbacks |-> Never] /\ staleIds = [c \in Callbacks |-> {}]
  /\ late = {} /\ answered = {}
  /\ evRan = FALSE /\ rpc = "start"
  /\ activeQueue = Never /\ serverQueue = Never
  /\ stopper = "none"

Tick ==
  /\ clock < MaxTime
  /\ clock' = clock + 1
  /\ UNCHANGED <<mode, fcallback, frun, activeQueue, serverQueue, stopper>>

----------------------------------------------------------------------------
(* callback(), on a thread of Flask.                                        *)

CStep(c, from, to) == cpc[c] = from /\ cpc' = [cpc EXCEPT ![c] = to]
\* Its local variables end with the request.
Answer(c) ==
  /\ event' = [event EXCEPT ![c] = Never]
  /\ now' = [now EXCEPT ![c] = Never]
  /\ late' = late \ {c}
CacheKept == UNCHANGED <<eventCache, oldest>>
RunKept == UNCHANGED <<mode, clock, frun, activeQueue, stopper>>

\* A verification, a wrong token: answered at once.
TurnAway(c) ==
  /\ serverQueue # Never
  /\ CStep(c, "none", "done")
  /\ UNCHANGED <<event, now, staleIds, late, answered, serverQueue>> /\ CacheKept /\ RunKept

\* An event without an id goes to the queue unseen; with one, the stale ids are
\* collected first.
Arrive(c, e) ==
  /\ serverQueue # Never
  /\ CStep(c, "none", IF e \in Unidentified THEN "putting" ELSE "collecting")
  /\ event' = [event EXCEPT ![c] = e]
  /\ now' = [now EXCEPT ![c] = clock]
  /\ late' = IF e \in answered \ Unidentified THEN late \union {c} ELSE late
  /\ UNCHANGED <<staleIds, answered, serverQueue>> /\ CacheKept /\ RunKept

\* (A plausible slip: the retention ends an hour early.)
IsStaleEarly(c, e) == eventCache[e] # Never /\ now[c] >= eventCache[e] + Retention

IsStale(c, e) == eventCache[e] # Never /\ now[c] > eventCache[e] + Retention

Collect(c) ==
  /\ CStep(c, "collecting", "purging")
  /\ staleIds' = [staleIds EXCEPT ![c] = {e \in FEvents : IsStale(c, e)}]
  /\ UNCHANGED <<event, now, late, answered, serverQueue>> /\ CacheKept /\ RunKept

\* "dictionary changed size during iteration": Flask answers with an error.
CollectFails(c) ==
  /\ \E d \in Callbacks \ {c} : cpc[d] \notin {"none", "collecting"}
  /\ CStep(c, "collecting", "done")
  /\ Answer(c)
  /\ UNCHANGED <<staleIds, answered, serverQueue>> /\ CacheKept /\ RunKept

Purge(c, e) ==
  /\ CStep(c, "purging", "purging")
  /\ e \in staleIds[c]
  /\ eventCache' = [eventCache EXCEPT ![e] = Never]
  /\ staleIds' = [staleIds EXCEPT ![c] = @ \ {e}]
  /\ UNCHANGED <<event, now, late, oldest, answered, serverQueue>> /\ RunKept

Known(c) == eventCache[event[c]] # Never

Ignore(c) ==
  /\ CStep(c, "purging", "done")
  /\ staleIds[c] = {} /\ Known(c)
  /\ answered' = answered \union {event[c]}
  /\ Answer(c)
  /\ UNCHANGED <<staleIds, serverQueue>> /\ CacheKept /\ RunKept

Pass(c) ==
  /\ CStep(c, "purging", "entering")
  /\ staleIds[c] = {} /\ ~Known(c)
  /\ UNCHANGED <<event, now, staleIds, late, answered, serverQueue>> /\ CacheKept /\ RunKept

Enter(c) ==
  /\ CStep(c, "entering", "putting")
  /\ eventCache' = [eventCache EXCEPT ![event[c]] = now[c]]
  /\ oldest' = [oldest EXCEPT ![event[c]] = IF @ = Never \/ now[c] < @ THEN now[c] ELSE @]
  /\ UNCHANGED <<event, now, staleIds, late, answered, serverQueue>> /\ RunKept

Put(c) ==
  /\ CStep(c, "putting", "done")
  /\ serverQueue' = Append(serverQueue, event[c])
  /\ answered' = answered \union {event[c]}
  /\ Answer(c)
  /\ UNCHANGED staleIds /\ CacheKept /\ RunKept

\* _push_event(): the library has told repetitions apart, or has not.
Push(c, e) ==
  /\ mode = "long_connection" /\ activeQueue # Never
  /\ CStep(c, "none", "done")
  /\ activeQueue' = Append(activeQueue, e)
  /\ UNCHANGED <<mode, clock, event, now, staleIds, late, answered, frun, serverQueue, stopper>> /\ CacheKept

----------------------------------------------------------------------------
(* run().                                                                   *)

RStep(from, to) == rpc = from /\ rpc' = to

RunStarts ==
  /\ RStep("start", "queue")
  /\ evRan' = TRUE
  /\ UNCHANGED <<mode, clock, fcallback, activeQueue, serverQueue, stopper>>

SetActiveQueue ==
  /\ RStep("queue", "server")
  /\ activeQueue' = <<>>
  /\ UNCHANGED <<mode, clock, fcallback, evRan, serverQueue, stopper>>

\* Also the start notification, which has a variable of its own.
SetServer ==
  /\ RStep("server", "loop")
  /\ serverQueue' = IF mode = "webhook" THEN <<>> ELSE serverQueue
  /\ UNCHANGED <<mode, clock, fcallback, evRan, activeQueue, stopper>>

Loop ==
  /\ RStep("loop", IF evRan THEN "get" ELSE "ended")
  /\ UNCHANGED <<mode, clock, fcallback, evRan, activeQueue, serverQueue, stopper>>

Source == IF mode = "webhook" THEN serverQueue ELSE activeQueue
TakeFromSource ==
  IF mode = "webhook" THEN serverQueue' = Tail(serverQueue) /\ UNCHANGED activeQueue
  ELSE activeQueue' = Tail(activeQueue) /\ UNCHANGED serverQueue

GetLast ==
  /\ RStep("get", "ended")
  /\ Source # <<>> /\ (Head(Source) = Never \/ ~evRan)
  /\ TakeFromSource
  /\ UNCHANGED <<mode, clock, fcallback, evRan, stopper>>

\* A thread is started for the event, unless build_hyper_event() finds nothing
\* to dispatch.  It reads run()'s variable late, as in OneBotListener.
Get ==
  /\ RStep("get", "loop")
  /\ Source # <<>> /\ Head(Source) # Never /\ evRan
  /\ TakeFromSource
  /\ UNCHANGED <<mode, clock, fcallback, evRan, stopper>>

----------------------------------------------------------------------------
(* stop().  The server of Flask goes on answering.                          *)

StopFlag ==
  /\ stopper = "none" /\ rpc # "start"
  /\ stopper' = "flag"
  /\ evRan' = FALSE
  /\ UNCHANGED <<mode, clock, fcallback, rpc, activeQueue, serverQueue>>

\* (A plausible slip: stop() only clears the flag.)
NotWakened(queue) == queue

Wakened(queue) == IF queue = Never THEN Never ELSE Append(queue, Never)

StopActive ==
  /\ stopper = "flag" /\ stopper' = "active"
  /\ activeQueue' = Wakened(activeQueue)
  /\ UNCHANGED <<mode, clock, fcallback, frun, serverQueue>>

StopServer ==
  /\ stopper = "active" /\ stopper' = "stopped"
  /\ serverQueue' = Wakened(serverQueue)
  /\ UNCHANGED <<mode, clock, fcallback, frun, activeQueue>>

----------------------------------------------------------------------------
Callback(c) ==
  \/ TurnAway(c) \/ Collect(c) \/ CollectFails(c) \/ Ignore(c) \/ Pass(c) \/ Enter(c) \/ Put(c)
  \/ \E e \in FEvents : Purge(c, e)
FRun == SetActiveQueue \/ SetServer \/ Loop \/ GetLast \/ Get
FStop == StopFlag \/ StopActive \/ StopServer

FNext ==
  \/ Tick \/ RunStarts \/ FRun \/ FStop
  \/ \E c \in Callbacks :
       \/ Callback(c)
       \/ \E e \in FEvents : Push(c, e) \/ Arrive(c, e)

FFairness == WF_fvars(FRun) /\ WF_fvars(StopActive) /\ WF_fvars(StopServer)
FSpec == FInit /\ [][FNext]_fvars /\ FFairness

----------------------------------------------------------------------------
FTypeOK ==
  /\ mode \in {"webhook", "long_connection"} /\ clock \in 0 .. MaxTime
  /\ {eventCache, oldest} \subseteq [FEvents -> Nat \union {Never}]
  /\ cpc \in [Callbacks -> {"none", "collecting", "purging", "entering", "putting", "done"}]
  /\ event \in [Callbacks -> FEvents \union {Never}]
  /\ now \in [Callbacks -> Nat \union {Never}]
  /\ staleIds \in [Callbacks -> SUBSET FEvents]
  /\ late \subseteq Callbacks /\ answered \subseteq FEvents
  /\ evRan \in BOOLEAN /\ rpc \in {"start", "queue", "server", "loop", "get", "ended"}
  /\ \A queue \in {activeQueue, serverQueue} : queue # Never => queue \in Seq(FEvents \union {Never})
  /\ stopper \in {"none", "flag", "active", "stopped"}

\* A callback that repeats an event already answered does not reach the queue
\* again until the retention has passed since the event was first entered,
\* although threads purge, test and enter the ids in separate steps.
RepeatIsIgnored ==
  \A c \in late : cpc[c] \in {"entering", "putting"} => clock > oldest[event[c]] + Retention

\* stop() is under way; run() has ended.
FStopping == stopper = "flag"
FEnded == rpc = "ended"
=============================================================================

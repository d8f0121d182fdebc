# A TLA+ model of JianerCore

JianerCore is a chat-bot framework in Python: protocol adapters (OneBot, Milky, Feishu)
receive messages on threads, a `Client` distributes them to subscriptions and to the
plugins of its `PluginManager`, plugins answer through the adapter's calls, and plugins are
loaded, set up, reloaded and shut down while messages keep arriving. This directory holds
TLA+ modules of the system, the configurations that model-check them with TLC, and proofs
for every instance that TLAPS checks. All paths below are relative to the repository.

## 1. The system

| Component | Source | State it keeps | Operations | Interacts with |
|---|---|---|---|---|
| **PluginManager, lifecycle** | `jianer/plugins/manager.py` 83-120, 168-610 | `state`, `dependency_order`, `_setup_plugins`, `_shutdown_plugins`, `client`, `_inflight`/`_drained`, `_shutdown_started`/`_finished`/`_report`, `_transition_lock`, `_state_lock` | `load_plugin(s)`, `setup_client`, `activate`, `observe`/`dispatch`/`dispatch_fallback`, `shutdown` | plugin modules (hooks), the Client's owner gate, Alconna matchers, module ownership |
| **Client** | `jianer/__init__.py` | subscriptions, `_owner_enabled`, `_owner_inflight`, `plugin_manager`, close single-flight state | `subscribe`, `unsubscribe`, `distributor`, `load_plugins`, `swap_plugin_manager`, `aclose`/`close`, `run`, `restart` | managers, listener, dispatch runner |
| **PluginManager, loading** | `manager.py` 122-166, 612-784 | candidates, `_loading`, specs, `dependency_order` | discovery, dependency resolution, import | module ownership |
| **Module ownership** | `manager.py` 786-1433, `log_names.py` | snapshots of the sources, generations' modules, owned modules, log names | import of a package by a generation, records, discards | `sys.modules`, importlib, Alconna |
| **AsyncioRunner** | `jianer/asyncio_runner.py` | one thread and one event loop, `_ready`, `_stopped`, `_closing`, `_closed`; the process-wide runner | `start`, `submit`, `run`, `request_shutdown`, `shutdown`, `get_dispatch_runner` | adapters' event threads, `Client.close` |
| **KeyQueue and echo routing** | `jianer/utils/logic.py` 283-344, `LecAdapters/*/Manager.py` | contents and time stamps by key, a condition variable, asyncio waiters | `put`, `get`, `get_async` | the adapters' calls and their listener threads |
| **Adapter listeners** | `LecAdapters/OneBot.py` 406-521, `Milky.py` 826-925, `Feishu.py` 521-688 | `listener_ran`, `connection`, `retried`, the frame last received; Feishu's event cache and queues | `reg`, `run`, `stop`, the event server's callback | network, KeyQueue, dispatch runner |
| **Send paths** | `LecAdapters/Milky.py`, `Feishu.py` | partial results of one send; Milky's answers by echo | `send`, chunking, fallbacks, retries | HTTP |
| **API calls** | `LecAdapters/*.py`, `utils/apiresponse.py`, `network.py` | Feishu's tenant token | the calls of `Actions` | HTTP, websocket |
| **Events** | the adapters' handlers and translators, `events.py` | - | frame to event; the target of an answer | references, send paths |
| **References** | `adapters/resolution.py`, the adapters, `MilkyLib` ids | message ids packed in an integer | `resolve_reference`, `del_message` | API calls |
| **Media** | `adapters/media.py` | policy, limits, pinned addresses | `resolve_media` | HTTP, files |
| **Alconna matchers** | `jianer/plugins/builtin/alconna` | registry of matchers by manager and plugin; context variables | register, dispatch, remove | managers |
| **Legacy loader** | `jianer/plugins/loader.py`, `plugin_loader.py` | result lists, modules | load a folder | Client, `sys.modules` |
| **Adapter selection** | `adapters/__init__.py`, `builtins.py`, `configurator.py` | the modules in place, the facades' copies of them | `load_configured` | all adapters |
| **Downloads** | `utils/logic.py` 195-281 | file, parts | `download` | HTTP, threads |
| **Utilities, data types, services, Kritor, logging, tools** | section 8 | | | |

What is hard in this code, and hard to test, is listed line by line under `hazards` in
`PROJECT.json`. In short: `shutdown()` against everything else (dispatch, setup, reload, a
second `shutdown()`, cancellation, the timeout); `aclose()` against `load_plugins()` and
reload; counters that decide when a drain ends; imports that fail half-way while another
generation of the same package is alive; the late answer to a call that has timed out;
requests repeated after a lost answer; frames handed from the receive loop to handler
threads; a token shared by threads; the loop thread that stops while work is being
submitted to it; values that are checked, then used after they have changed.

## 2. Modules

| Module | Models | Notes |
|---|---|---|
| `PluginManager` | the lifecycle of managers and the owner gate of the Client | base module, 35 actions |
| `ClientLifecycle` | one Client and its managers; EXTENDS `PluginManager` | dispatch, load, reload, close |
| `DrainProtocol` | what a manager promises its plugins | abstract; `PluginManager` implements it |
| `PluginManagerInv` | the inductive invariant of `PluginManager`, in layers | section 5 |
| `PluginLoading` | the order in which plugins are imported | |
| `ModuleOwnership` | what an import puts in `sys.modules` and who removes it | |
| `AsyncioRunner` | the shared event loop | |
| `KeyQueue` | the mailbox of answers | |
| `OneBotListener` | the OneBot adapter's receive loop and calls | INSTANCEs `KeyQueue` |
| `MilkyListener`, `MilkySend` | `run()`/`stop()`, and `send()`, of Milky | |
| `FeishuEvents`, `FeishuToken`, `FeishuSend` | event server and `run()`/`stop()`, tenant token, `send()` of Feishu | |
| `MessageIds` | the packed message ids of Milky | operators |
| `References` | `resolve_reference()` and recalls of the three adapters | EXTENDS `MessageIds` |
| `EventTranslation` | from a frame to an event to where an answer goes | EXTENDS `MessageIds` |
| `MediaResolution` | `resolve_media()` | |
| `ApiCalls` | what a call orders, and what it reports | |
| `Startup` | the choice and loading of an adapter | |
| `Download` | a download in parts | |
| `MatcherRegistry`, `LegacyLoader` | command matchers; the old loader | |
| `..._proofs`, `LeastNumbers` | theorems | section 5 |
| `MC...` | instances for TLC | below |

No component module declares a `RECURSIVE` operator. `MCAdapters`, `MCMessages`,
`MCPlugins` and `MCModulesAndCalls` put several components, which share no state, in one
run: the constant variable `moving` says which of them takes steps, the others rest in a
state in which no action of theirs that is fair is enabled. The states of such a run are
those of its components one after the other, not their product.

### PluginManager

A *task* is a thread or an asyncio task. `pc[t] = "idle"` means user code runs in
it, possibly a message handler that holds a dispatch lease (`lease[t]`) or is the
callback of an owned subscription (`callback[t]`). Everything the code does under
`_state_lock` or `_subscription_lock` is one step, because nothing in these
sections blocks or calls user code. `_transition_lock` is held across several of
them, so it is a variable (`tlock`), and the steps in between are visible to other
tasks. Loading is one step per plugin: it runs under `_transition_lock` from
beginning to end, what it adds is only read under that lock or by dispatch hooks,
and it never takes a plugin away.

The correspondence is by name: `SetupClient`, `SetupHook`, `SetupFail`,
`SetupActivate`/`SetupStage`, `Enable` are the parts of `setup_client()`;
`ShutdownStart`, `Disable` (the two halves of `_begin_draining()`), `Drained`,
`OwnerDrained`, `SkipHook`/`EnterHook`/`HookDone`/`HookFails`, `FinishShutdown`,
`DrainTimeout`, `CancelWorker` are those of `shutdown()`; `ShutdownJoin`,
`WaiterReturns`, `CancelWaiter` are its second callers, `ShutdownReported` those
that come late. Cancellation (`Cancel(t)`) may strike at every await of the code
and nowhere else.

Abstractions: a plugin is a model value; what hooks compute is left out, what they
can do to the manager (return, raise, hang until the deadline, subscribe, load
another plugin) is kept. Of a subscription only its owner and its plugin are kept.
An operation that merely raises because of the state (setup of a closed manager)
changes nothing and has no action; the refusals of `load_plugins()` and of
`swap_plugin_manager()`, which end a call in progress, have one.

### ClientLifecycle

Adds `Client.plugin_manager` (`current`), the close single-flight state and the
calls `load_plugins()` (`LoadPlugins`/`BuildManager`, `StoreManager`,
`LoadFolders`, `SetupCurrent`), `swap_plugin_manager()` (`Swap`, one `SwapLock` per
manager in the order of their ids, `SwapDone`/`SwapRefused`) and `aclose()`
(`AcloseStart` ... `PublishClose`; it calls the manager's own `shutdown()`, whose
steps are those of `PluginManager`). Every task may at the same time use the
managers directly, as the documentation's reload recipe does.

### PluginLoading

`manager.py` 612-784, how a manager finds the order in which it imports plugins. The
recursion of `_load_candidate()` is `stack`, its active calls from the outermost to
the innermost; `left[p]` are the dependencies the call for `p` still has to ask for;
`candidates`, `invalid`, `plugins`, `order` and `loading` are the tables of the manager
(`_candidates`, `_invalid_plugin_reasons`, `plugins`, `dependency_order`, `_loading`).
`failing` says that the call that ended last returned `None` to another one. `TryNext`
is one turn of the loop of `load_plugins()`, or the single one of `load_plugin()`;
`HasDependency`, `LacksDependency`, `Descend` and `FailDependent` are what becomes of a
dependency; `ImportSucceeds`, `ImportFails` and `ImportExits` of the import. Which plugin requires which,
what a folder holds and what an import does is open; `requires` is a set, so every
order of the search is checked.

Restrictions: no folder holds the ID of a built-in plugin; a module's import does the
same at each attempt, and its file does not change between them; a misspelt ID is
a missing one; a module does not call its manager while it is imported. A module that
raises SystemExit or KeyboardInterrupt leaves its callers in `_loading`: the manager
takes them for circular afterwards. As such an exception ends the process unless
somebody catches it, the properties exclude what comes after (`interrupted`), but for
`DependenciesFirst`, which holds all the same.

### KeyQueue

`utils/logic.py` 283-344, the mailbox in which a call waits for the answer to its
echo. A *getter* is one call of `get()` (a thread) or `get_async()` (an asyncio
task). What the code does under the condition's lock is one step; between the
registration of a future (`Wait`), its completion by `put()` (`Put`, whose
`call_soon_threadsafe` only schedules it: `Wake`), the end of the await (`Resume`) and
the next look (`CheckAgain`) other threads may come in. A value may expire at any time
(`Age`), a deadline strike at any await (`StopWaiting`, `SyncTimeout`, `LastLook`). The
time stamps themselves are abstracted to `stale`.

### AsyncioRunner

`asyncio_runner.py`. A thread of `Threads` runs one call at a time: `run_awaitable()`
is `NewRunner`/`UseRunner` (`get_dispatch_runner()`, which raises and changes nothing
while a runner is closing), `Start`, `Ready`
(the wait for the loop), `Submit` and `Result`; `shutdown_dispatch_runner()` is
`Shutdown`, `Request`, `MarkClosed` or `CallStop`, then `Stopped` or `TimesOut`. Each
step is what the code does under `_state_lock` or in one call of asyncio. The runner's
own thread is `phase`: `LoopStarts` ... `ThreadEnds` are the stages of
`_thread_main()`. Of asyncio the model keeps what the code relies on: the ready
callbacks run in the order in which they were scheduled, `loop.stop()` lets the
callbacks of the current iteration run, `run_until_complete()` raises if the loop is
stopped before its future is done, `loop.close()` drops what is left, and SystemExit
passes through a running loop. One coroutine per call; tasks that a coroutine leaves
behind are not modelled, nor are the refusals of `submit()`, `run()` and `shutdown()`
on the runner's own thread, which change nothing.

### OneBotListener

`LecAdapters/OneBot.py` 406-521 with `OneBotLib/Manager.py`, on top of an instance of
`KeyQueue` whose keys, values and getters are the calls. `lpc` is where `run()` is:
`Run`, `OuterLoop`, `Connect`, `Refused`, `ConnectRaises`, `InnerLoop`, `Receive`,
`ReceiveFails`. `cell` is the local variable `data` of `run()`, which all handler
threads share through their lambda: `StartThread` assigns it, `ReadCell` is a handler
thread reading it, `HandleAnswer` and `HandleEvent` are the rest of `__handler()`
(what a handler does with an event is the business of the other modules). A call is
`Send`, then `get_async()`: `AwaitAnswer`, `GetsAnswer`, `GivesUp`. The server may
answer or not, the connection may break at any time and takes the frames under way
with it. `transport` is the kind of connection. Over HTTP (`HTTPConnection` of `network.py`)
the frames come from a queue, into which the caller puts the answer of its request itself;
nothing closes that queue: `close()` raises outside of a request, `stop()` swallows it, and
a `run()` that waits in `recv()` goes on waiting (`LBlocked`). Of what connecting can raise
only the first exception named in `except A or B` is counted and retried; the others leave
`run()` (`ConnectRaises`). Meta events, which the handler ignores, and frames that are not JSON, which
the loop skips, are left out; so is Ctrl+C, which ends the process.

### ModuleOwnership

`manager.py` 786-1433 for one plugin directory that several managers hold, as during a
reload: each of them is a *generation*. `stack[g]` are the bodies of modules being executed,
innermost last. `ExecEntry` is `setup.py`; `ImportAbsolute` is an import that the
generation's own importer answers from the snapshot of the sources, `ImportRelative` one
that Python answers from the disk, because it goes past the replaced `__import__`. Python
also sets the module on its package (`Complete`), and `attribute` is what answers a later
`from package import module` before the plugin's importer is asked. `bare` are the
directories without `__init__.py`, which run no body and have no file by which to be
recorded; both may
come from any body, and later from any function of the plugin. A body may raise
(`RaiseInside`, whose importer may catch it; `RaiseInEntry`) or leave by SystemExit
(`Exit`). `Record` and `Discard` are `_record_owned_modules()` and
`_discard_plugin_import()`, `Without` the removal by identity, `RemoveBodies` the removal of
the modules whose bodies an exception passes through. The files are edited at any time
(`Edit`, at most `MaxEdition` times).

### MilkySend, MilkyListener

`send()` of `Milky.py`: a message is first sent as it is or in chunks of at most `Limit`
characters, after a rejection without its reply (`Fallback`), after a failure in smaller
chunks (`Recover`). `plan` is the form being sent, `rest` its payloads still to go, `Post`
one HTTP request with its repetitions, `adopted` the answer that `send()` goes by, `Fetch`
its wait under the echo of that answer. Of a text only positions
count: it is given by the ends of its lines, and a chunk by its first and last character.
`SplitText` is `_split_text()`, a recursive function over the lines; the limits are scaled
down.

`MilkyListener` is `run()`, `stop()` and the connection. A frame is an event, noise (passed
over), empty (the end of the stream) or poison: a bot_offline event or a number that is none
raises an exception that `run()` does not catch. The handler threads of Milky and Feishu share `run()`'s
variable through a lambda as OneBot's do; that is checked for OneBot only.

### FeishuEvents, FeishuToken, FeishuSend

`FeishuEvents`: threads of Flask answer the callbacks, or the long connection delivers the
events; `Collect`, `Purge`, `Ignore` or `Pass`, `Enter` and `Put` are what a callback does to
the cache of event ids, step by step, with the `now` of its request; `run()` takes them from a queue until `stop()` puts None in
it. `FeishuToken`: `get_tenant_access_token()` by several threads; a token is the instant at
which it stops being valid. The server says with each answer how much of its life is left,
or leaves that or the token out (`Issued`); `Write` and `Stamp` are the two assignments.
`stamped` and `mixed` are history: for which token the expiry was computed, and which
threads have found another one beside it. `FeishuSend`:
images and records go first, each as a message of its own, the text and a notice for each
part that failed go last.

### MessageIds, References, EventTranslation

`MessageIds` is `msg_enid()`/`msg_deid()` with the widths as constants (`PeerSlot`,
`SeqSlot`, `SeqMask`, `SceneMask`), scaled down so that every boundary is met: in the code
they are 2^64, 2^64, 2^32 and 2^16. `References` is `resolve_reference()` with the checks of
`resolution.py` before the request and after it, for the three adapters, and recalls; the
platform may leave out parts of its answer. The number of a message is any that
`msg_enid()` has room for, also above what `msg_deid()` reads of it (`ReadAs`). `EventTranslation` follows one fact
on a platform: `Receive` (frame to dictionary, `lacks` is what the frame leaves out),
`Construct` (the event's class and constructor), then `ReplyTo`, `Decide` and `Resolve`,
which know the event alone.

### MediaResolution

One `resolve_media()`: a remote source with one turn of the redirect loop at a time
(`Validate` pins the address, `Contact` goes to it), inline base64, a local file, an
adapter's own source. The content may grow and a name may resolve differently at any step;
a chunk is one unit of bytes. `MediaTick` and `Timeout` are the clock and `wait_for()`.

### ApiCalls

The calls of the three APIs other than `send()`, by what becomes of their report: nobody
looks, a failure raises, the report is returned, the adapter writes it itself, and so on;
the tables `OneBotMessages` ... `FeishuCustom` say which is which, for each operation.
The link may lose a request, deliver it and lose its report, or delay either; Milky's
requests are repeated.

### Startup, Download

`Startup`: `load_configured()` for any spelling and any section of the configuration, the
three modules a loader replaces one after the other with an import that may raise before
each, and the facades (`jianer.segments`, `jianer.common`, `jianer.listener`) that copy from
the modules in place when they are first imported. `Download`: the ranges, a task for each,
in any order and with any failure, and the joining. A byte is its position. As the code
looks at the status of the first response only, the HEAD may tell any `size`, and a part may
bring bytes that are not those of its range (`Foreign`).

### MatcherRegistry, LegacyLoader

`MatcherRegistry` keeps the registry of Alconna matchers, by manager and plugin, and per
task the stack of dispatches with the context variable `_CURRENT_EVENT`; a handler may await, pass
another event on, raise, and register more. `RemovePlugin` (a failed import) and `RemoveManager` (a
failed setup, a shutdown) may come at any time: events are admitted before the plugins are
loaded and set up, and `on_message()` goes on with its copy. `late` is history: the matchers
removed while a task handles an event. `LegacyLoader` is one pass over a folder, with passes of several threads.

## 3. Runs

`tlc -config <run>.cfg <module>`; modules and properties are listed in `PROJECT.json`.

| Run | Instance | Size, and why the bounds are enough |
|---|---|---|
| `PluginManager_safety` | 1 manager, 3 plugins (one with a setup hook that may load another plugin, two with shutdown hooks, one without any hook), 2 handler tasks and one thread with `timeout=None`, at most 2 counted callbacks | 194 752 states. Two handlers and one more caller are what the races between a worker, a waiter and a handler need; two shutdown hooks are what an order needs, and the third plugin is the one a hook loads or a shutdown skips. No plugin with a setup hook can be loaded by a hook here: with one, `HooksAfterDrain` is false (`PluginManager_early_hooks`) |
| `Client_two_managers` | 2 managers without plugins, 2 tasks, one of them a handler | 863 000 states. Two managers are one reload; plugins add nothing that the first run does not have |
| `Client_liveness` | 1 manager, 2 plugins, one of which is loaded by the other's setup hook and has no hooks; 2 fair tasks | 225 275 states. Every call of the Client and of the manager returns, whatever the other task does |
| `AsyncioRunner` | 2 fair threads, 2 runners; the coroutine of one may ask for shutdown, that of the other may raise SystemExit | 128 599 states. One thread submits while the other shuts down; two runners are one replacement |
| `Adapters` | OneBot: 1 call and 1 event, 1 retry, 2 handler threads alive at a time. Milky: 4 texts (empty, one short line, two lines, a line beyond the limit), 0 to 2 replies; 3 faults; 2 frames on the wire. Feishu: 3 callbacks of 2 events, one without an id; 2 threads that share the token, of which 3 or 5 ticks are left; 3 parts of a message. OneBot over a websocket or HTTP | 438 543 states, fair. An answer, a late answer and an event are the frames that could be confused; the texts reach every form of a message; a third callback comes while two are under way |
| `Messages` | the queue: 2 asyncio getters and 2 threads, one of each with a timeout, 2 keys, 2 values; 3 messages of 2 kinds, one with a number above its mask; every fact, with every part of its report left out; every source of media with 2 origins | 309 999 states, fair. Two getters of each kind on one key compete for a value; a peer and a number shared by two messages are what an id could confuse |
| `Plugins` | 2 plugins of folders and a built-in one, with each of the 512 graphs of requirements among them, 2 calls; 2 passes of the old loader over 2 entries of any kind; 2 managers with 2 matchers, 1 task with nested dispatches | 1 265 389 states, the loader fair. Three plugins give a chain, a diamond, cycles of one, two and three; a second call finds a table left in disorder by the first |
| `ModulesAndCalls` | 2 generations of a package with one module, which may be a directory without `__init__.py`, one edit; 5 spellings and 2 sections of the configuration, 2 adapters tried; 2 callers; up to 6 bytes for up to 4 threads | 1 226 549 states, the generations symmetric. Bodies nest as deep as the package, its module and the entry allow; the rest is exhaustive |
| `PluginManager_early_hooks`, `Client_unclosed_manager`, `Runner_early_shutdown`, `OneBot_lost_frame` | the smallest instance that shows it | counterexamples, section 6 |

Each property of a passing run has a mutant in `PROJECT.json`: a plausible bug in one
definition that models code, under which TLC finds the property violated.

## 4. Bounds and fairness

**Bounds.** `MaxCallbacks` bounds the callbacks an owner has counted at once: a leaked
callback (section 6) would let the counter grow for ever. The finite sets of managers,
tasks, plugins and so on bound the rest. `CleanupFails` says whether the clean-up of
matchers and modules, or `lis.stop()`, may raise; the large Client run fixes it to `FALSE`,
the others allow both. In the run `Adapters`: `MaxFaults = 3` is one more failure than
`send()` has forms to fall back to; `MaxFrames = 2` lets a frame wait behind another;
`Retention = 0` and `MaxTime = 1` make an entry of the event cache stale after one tick of
the clock, while another request still has the old time; `Lives = {3, 5}`
(`Shortest = 3`, `Life = 5`), `Skew = 3`, `MaxDelay = 1` and `MaxInstant = 4` are the least
that let three late threads in a row meet an expiring token, and a token that ends early
come to stand beside the expiry of one that ends late; `MaxParts = 3` is a reply, a
medium and a text in each order. In `Messages`: peers {1, 2} and numbers {0, 3} with slots of
4 and masks of 2 and 4 meet the number 0, a number that the mask changes into that of
another message and an id below the slot; one redirect, two origins of which the policy allows one, and a limit of two units
meet each refusal. In `Plugins`: two handlers on one matcher and two dispatches in a task, one nested in the other.
In `ModulesAndCalls`: one edit, so that snapshot and disk can differ; `Layouts`
makes the module a file or a directory without `__init__.py`;
`MaxAttempts = 2` one repetition; `MaxTried = 2` a second adapter after a failed one; 6
bytes for up to 4 threads meet each remainder. `Runners` bounds how often the runner is
replaced and `MaxThreads` how many handler threads are alive at once; when a bound is
reached the call, or the receive loop, waits, which is why these runs do not check deadlock
(`CHECK_DEADLOCK FALSE`); the systems stop in them anyway, when all calls have returned.

**Fairness.** `ClientFairSpec` assumes weak fairness of `ClientProceed(t)`: a task inside a
call takes its next step when it can. That is the scheduling of threads and of the asyncio
loop, the return of hooks or the expiry of their share of the deadline
(`asyncio.wait_for`), and the expiry of `Event.wait(timeout)`. Handlers and callbacks are
*not* fair: user code may run for ever, and `ShutdownReturns` holds all the same, because of
the deadline; so a call with `timeout=None` (`Patient`) is excluded from it. No lock can be
held for ever by a handler, as no user code but setup hooks runs under one.

`PFairness` lets a call of the loader that has begun go on: it runs under the transition
lock, with nobody else. `QFairness` lets getters and scheduled wake-ups proceed; puts are
never forced. `RFairSpec` lets threads and the loop's thread run and coroutines end (a
coroutine that swallows its cancellation for ever blocks the code's shutdown too); calls are
never forced. `LFairness`, `MLFairness` and `FFairness` let the threads of `run()` and
`stop()`, handler threads and the deadline of a call proceed once they have begun: calling
`run()` or `stop()` is never forced, and neither the server nor the network owes anything.
A `run()` that waits at the queue of an HTTP connection proceeds only when something comes.
`SFairness` lets a request of Milky end, at the latest with its timeout. `MediaFairness`
lets bytes in memory and files be processed, time pass and the timer of `wait_for()` fire;
nothing is assumed of a server. `ModulesAndCalls` states no liveness and no fairness.

## 5. Proofs

`PluginManager_proofs` proves, for every set of managers, plugins and tasks and for
every choice of hooks and timeouts (assumption `PMAssumption`: what the constants
are, with finitely many tasks, since a counter counts them):

- the **inductive invariant** `ControlInv` /\ `ServiceInv` of `PluginManagerInv`. The
  properties alone are not inductive. They are strengthened in layers, each preserved
  by every step given the layers above it: the transition lock is held exactly by the
  task inside a locked section (`LockInv`), so that a state read in one part of
  `setup_client()` is still true in the next (`StateInv`); a started and unreported
  shutdown has exactly one worker (`WorkerInv`); the gate (`GateInv`), the load
  order (`OrderInv`) and the plugins left in the loop over the hooks (`HookInv`);
  then what the setup loop has done (`SetupInv`), where callbacks may run
  (`CallbackInv`), what the counters count (`DrainCounts`) and that what the worker
  has waited for stays true (`DrainInv`);
- from it, the theorems listed in `PROJECT.json`: `TypeOK`, `SingleWorker`,
  `GateFollowsState`, and the action properties `Irreversible`, `FinalReport`,
  `CompletedHookNotRepeated`, `ReverseOrder`, without further assumption; and
  `ActiveIsSetUp`, `DrainCounts`, `HooksAfterDrain` under the assumption
  `LoadingSetup = {}`, that no setup hook loads a plugin. The assumption cannot be
  dropped: the run `PluginManager_early_hooks` is a counterexample, and section 6 has
  one to `ActiveIsSetUp`.

The last section of the module proves, under the same assumption, that the manager
implements `DrainProtocol`: each step is mapped to a step of the protocol or to a
stutter, case by case.

`ClientLifecycle_proofs` proves for any managers and tasks, and any plugins the managers
load (`PMAssumption`, and `CLAssumption`: the ids of managers are ordered):
`ClientTypeOK`, `SingleCloser`, `NoLockCycle`, `SingleWorker`, `Irreversible` and
`CloserKeepsManager`. The calls of the manager run here as steps of the Client's calls, so
the layers of `PluginManagerInv` do not carry over as they are. `ClientInv` says what does
hold: a transition lock that is held belongs to a task in a locked section, or to an
exchange of managers that only still takes locks of a higher rank (`HolderInv`), from which
the order of locks follows; a shutdown that has started and has not reported has a worker,
and one only (`ProgressInv`, `OneWorkerInv`); who closes is the one task that `aclose()` has
let in (`CloserInv`); and the manager it has locked is retired, and closed before the
Client is cleared (`RetiredInv`). The steps are grouped by what they can disturb (`ClientCases`), so that each
layer is proved per group and not per action.

`AsyncioRunner_proofs` proves for any number of threads and runners, and for any choice of
the coroutines that may exit or ask for a shutdown (`RunnerAssumption`): `RTypeOK`,
`OneLiveLoop` and `NothingForgotten`. `OneLiveLoop` follows from what
`get_dispatch_runner()` keeps (`Owners`). `NothingForgotten` is about the order of the
loop's callbacks, so its strengthening is in terms of what is in a queue, at most once,
and ahead of what: each coroutine on its way has exactly one callback (`Scheduled`,
`Awaited`), only a shutdown or a failure stops the loop (`Closings`), no stage of the
loop's end is reached while a coroutine that was in time is behind (`InOrder`), and the
coroutine that has asked for the shutdown is the only one that stops its loop (`Askers`).
The lemmas on queues are proved from the sequences themselves; each step of the runner is
then given as its effect on these three relations.

`ModulesAndCalls_proofs` proves of `ModuleOwnership`, for any generations, modules of the package and edits of
the files (`OwnershipAssumption`, and `NoneIsNoObject`: the absent module is not one):
`OTypeOK`, `Isolation` and `NothingLeft`. Neither property is inductive. What a shutdown
leaves depends on what was recorded and on what the generation knows, so the invariant says,
one generation at a time, that every module the plugin's importer has put under a name, or
on the package, is the one the generation knows, and that the entry is recorded once it has returned (`Known`);
that bodies under way are nested, each known and none twice (`Nested`), so that an
exception takes away exactly what its body had put there; that code runs only while there
are sources of the day (`Sourced`); and that there is nothing before the entry runs
(`Untouched`). A step of one generation leaves the others whole because names of different
generations differ (`NamesDiffer`, `Frame`); the three ways to discard a generation share
one lemma (`DiscardKeeps`).

It proves of `Startup`, for any sections of the configuration (`StartupAssumption`) and any
order of calls and failing imports: `AdapterIsWhole`. The invariant says at each step of a
load which of the three modules are already the chosen adapter's, and that what a facade has
copied is of an adapter that was tried (`LoadingOK`); and that the parsed connection is the
last of its protocol in the section that is used (`ParsedIsLast`).

It proves of `ApiCalls`, for any callers and number of attempts (`ApiAssumption`):
`CallsKeepTheirWord`, from what is known of a call by where it is (`CallOK`): how often it
may have been carried out, what its report says of it, and that mail not yet old waits for
whoever fetches.

It proves of `Download`, for any size of the file and any number of threads
(`DownloadAssumption`): `WholeFile`, that a download in parts is whole if the HEAD told the
size and each answer brought its range. That the parts cover the file without overlap is
division with remainder (`RangesDivide`; how many starts there are is counted by a bijection,
`StartsCounted`); each part, once there, holds its range (`DownInv`); and what the parts give
when they are joined is the source (`JoinedIsSource`), by the least place where it could
differ. For the four modules together it proves `CallTypesOK`, the types of whichever runs.
`StartupAssumption` had left out that the protocol a configuration has when it names none is
one of the spellings: `StartTypeOK` does not hold without.

`LeastNumbers` holds what the proofs about sequences share: a set of natural numbers has a
least member, and a bounded one a greatest. It takes the place of induction, whose library
theorems have an operator as a parameter, which the installed provers cannot instantiate.
From it follow that a recursion over the numbers up to a bound has a function (`Recursion`),
what division gives (`Division`), and that what `FlattenSeq` gives is a sequence (`Flattened`).
With them, what `MilkySend`'s recursive function over the lines computes is proved
all the same: by the least line at which it would go wrong.

Two definitions were wrong in a way only a proof shows: in `PostFeishu` and in `Configure`
the guards of a CASE overlapped, which in TLA+ is an arbitrary choice between the branches,
not the first that holds (TLC takes the first). They exclude each other now, as the code's
`if` and `elif` do.

`Messages_proofs` proves

- of `KeyQueue`, for every set of keys, values and getters: `QTypeOK` (also that the futures
  registered are exactly those awaited), `NoLostWakeup`, which is inductive together with
  the types, and `ConsumedOnce`, which needs the strengthening that a value is in at most
  one place: still to be put, under one key, or returned by one getter (`OneCopy`);
- of `MediaResolution`, for any origins, policy and limits: `MediaTypeOK`, `WithinPolicy`
  and `WholeAndBounded`. That a connection goes where the policy allows rests on `Pinned`,
  that a request is under way only to an allowed origin whose public address is pinned,
  whatever the DNS says meanwhile; that what is returned is whole on `Reading`, how much has
  been read at each step of a file that may grow;
- of `MessageIds` and `References`, for any conversations and any widths of the fields with
  `IdsAssumption` and `MessagesAssumption`: unpacking gives what was packed, but
  for the bits of the number that the mask takes (`UnpackedParts`, `MaskLeaves`), ids of
  different messages differ (`IdsDiffer`), and hence `RecallHitsNamed` and `SameConversation`, with what a
  resolution under way has asked for and got (`AskedInv`);
- of `EventTranslation`, for the three platforms: `AnswerGoesBack` and `QuoteResolves`;
- of the run of all four, `MessageTypesOK`.

`Plugins_proofs` proves

- of `PluginLoading`, for any number of plugins, any graph of requirements and any sequence
  of calls: `PTypeOK` (also that each loaded plugin is in `dependency_order` once and that
  `_loading` is the chain of active calls) and `DependenciesFirst`. The second is not
  inductive: that a plugin's dependencies are loaded when it is imported needs
  `FramesServed`, that what an active call does not ask for any more is loaded;
- of `PluginLoading` too: `LoadExact` and `Diagnosed`. That a plugin cannot be loaded is
  shown by a set of plugins without it that is closed under what could be loaded
  (`Doomed`): an argument by least fixed points, so that cycles need no case of their own.
  `CallInv` says of every step of a call that what was asked for and is not loaded is still
  to be tried, or on the stack, or doomed and named (`Accounted`), that a call returns None
  only for a doomed dependency, that the stack follows the requirements, and that what was
  loaded is sound;
- of `LegacyLoader`, for any passes over any entries: `EachEntryOnce`. `EntryOK` says what a
  pass has told of an entry that it has not reached, executes, or is done with, and whether
  its module is in `sys.modules`;
- of `MatcherRegistry`, for any managers, plugins, matchers and depth of dispatches:
  `HandlersAreOwn`. `MatchInv` says of every dispatch on a task's stack, not only of the
  innermost, that it runs a handler if another one is inside it, that it knows what the
  context was before it, and that what it has still to offer is registered for the manager
  of its event. Registration only adds (`AddedKeeps`), and what a removal takes from
  under a task that handles an event is noted in `late`. That the dispatches of a task stay within `MaxNesting`
  needs the bound to be at least 1, as `MatcherAssumption` has it: the first dispatch of a
  task is not inside another;
- of the run of all three, `PluginTypesOK`.

`Adapters_proofs` proves

- of `OneBotListener`, for any calls, events, retries and handler threads (`OLAssumption`):
  `OwnAnswer`, from what a mailbox holds and who looks into it (`Boxes`, a strengthening
  over the instance of `KeyQueue`), and `GivesUpAfterRetries`, from the two counts of
  refusals being one until the listener gives up (`Counted`). That the handler
  threads alive stay within their bound is a fact about the set of those that hold a frame
  (`Alive`: its cardinality, one more for a thread that has read the variable and one less
  for one that returns);
- of `FeishuToken`, for any number of threads, any lives of tokens and any skew that leaves
  room for three late steps (`FeishuTokenAssumption`): `KTypeOK` and `TokenInTime`. The
  strengthening says how old a token in the hands of a thread can be (`Timely`, `Young`)
  and how far the expiry runs ahead of the token that it was stamped for, and of the one it
  stands beside, which another thread may have written (`Ahead`);
- of `FeishuEvents`, for any events, requests and retention: `RepeatIsIgnored`, from what
  the requests between their steps know of the table of ids (`RepeatInv`); and the types,
  for which a queue must be seen to stay one from the moment it is made (`EventsInv`);
- of `MilkySend`, for any texts, limits, number of attempts and of faults
  (`MilkySendAssumption`): `NoGaps` and `Delivered`. First the algorithm: `SplitTiles` says
  that the chunks of a text follow each other from its first character to its last, by the
  least line up to which they would not (`LeastNumbers`; `Gathered` is what holds after each
  line). Then the protocol: while a form is being sent, the next chunk begins the text or may
  follow one that the recipient has seen last (`Posted`), a good answer means that the
  current chunk was seen (`Answered`), and the report that `send()` fetches under its echo is
  the last answer (`Reported`). `Delivered` would not be inductive without the three;
- of `FeishuSend`, for messages of any length: `EachPartShown`, from each part that was
  passed being in the text that is collected or in the conversation (`Passed`), in its order
  (`InOrder`), and from the reply that is kept being the last one passed (`Reply`);
- of `MCAdapters`, the run's composition: `SendsWhole` and `AdapterTypesOK`, from the
  invariants above, each for the component that runs (`RunningInv`).

Only model-checked, and why:

- liveness under fairness (`ShutdownReturns`, `CallsReturn` and the other leads-to
  properties): ENABLED is beyond the prover.

## 6. Where code and documentation disagree

Runs with `expect: violation`; the trace TLC prints is the schedule. The lines and the
quoted text are in `PROJECT.json`, `findings`.

| Run | What the code does |
|---|---|
| `PluginManager_early_hooks` | a failed second setup of an active manager forgets its running callbacks; shutdown hooks then run under them |
| `Client_unclosed_manager` | `aclose()` racing with the first `load_plugins()` reports success and leaves a manager open |
| `Runner_early_shutdown` | a shutdown while the runner's thread has no loop yet reports success; the thread runs on and cannot be stopped |
| `OneBot_lost_frame` | two frames received in a row may be handled as one twice and the other never |

The modules state a few more things that the documentation leads one to expect and that
do not hold. They are no runs of the project: put the statement in the place of the
property of the run named (those marked * under `PROPERTIES`) to see the schedule.

| Statement | In place of the property of | With | What the code does |
|---|---|---|---|
| `HookEnteredOnce` * | `PluginManager_early_hooks` | `LoadingSetup = {}` | a shutdown hook that is cancelled while it is awaited is entered again by the next `shutdown()` |
| `WaitsOnlyForCallbacks` | `PluginManager_early_hooks` | `LoadingSetup = {}` | a callback task cancelled before its first step stays counted, and every later `shutdown()` times out |
| `ActiveIsSetUp` | `PluginManager_early_hooks` | | `setup_client()` activates a manager with a plugin that a setup hook has loaded and nobody has set up |
| `HandlerCanClose` * | `Client_unclosed_manager` | `Managers = {m1}`, `Rank <- RankOfOne` | a handler that awaits `client.aclose()` waits for its own lease; the Client stays open |
| `NoCoroutineStranded` | `Runner_early_shutdown` | | a coroutine submitted between the loop's stop and its close never ends, and its caller waits for ever |
| `FailuresAreRetried` * | `OneBot_lost_frame` | | `except A or B` catches only `A`: a TimeoutError of connect() ends the listener |

`ShutdownCompletes` and `CallerReturns` except one case, which `BrokenOff` names:
a SystemExit of a coroutine while the loop cancels its tasks ends the runner's thread
before `_closed` is set, and the shared runner stays "closing" for ever.
## 7. What each part's properties say

| Run | Properties beyond the types |
|---|---|
| `PluginManager_safety` | no shutdown hook runs, and no manager closes, while a callback of it is in flight (`HooksAfterDrain`); hooks run in reverse load order, none twice (`ReverseOrder`, `ImplementsDrain`) |
| `Client_two_managers`, `Client_liveness` | one closer at a time, no deadlock of locks, a reload does not take the manager from a closer; every call returns |
| `AsyncioRunner` | no two loops; no accepted coroutine forgotten; callers and shutdowns return |
| `Adapters` | a call gets its own answer; nobody reads a text with gaps, and a send that returns was whole; a repeated callback is ignored; a request gets an expired token only if its thread found it beside the expiry of another; `run()` ends after `stop()`, unless it waits at the queue of an HTTP connection; calls end |
| `Messages` | a reference resolves to a message of the conversation asked for, a recall hits the message named, or one of the same conversation whose number is what the mask leaves; media stay within the policy, are whole and bounded; answers go where the event came from; quotes resolve; getters and resolutions end |
| `Plugins` | exactly the loadable plugins load, and refusals name their reason; a legacy entry is listed once and leaves no module unless it was loaded; a handler runs with its own event and only if its matcher is registered or was removed since its task began the event; loading ends |
| `ModulesAndCalls` | generations do not mix, and what the plugin's own importer loads is of one edition; a failed import leaves at most modules of directories without `__init__.py`, a closed manager also those Python has loaded since the last record; an adapter is not mixed with stubs; a call that must raise on failure does, and is carried out at most as often as tried; a download in parts that reports success is whole, if the HEAD told the size and each answer brought its range |

What they leave out on purpose, because the code does not do it: that OneBot's `run()` over
HTTP ends after `stop()` (`recv()` waits at a queue that nothing closes), and that an error
of `httpx` or a TimeoutError while connecting is retried; that a token handed out is still
valid when two threads have mixed their answers; that the statuses of a HEAD and of the
parts of a download are looked at, or that a stream that ends early is an error; that a
recall of a Milky message with a number of 2^32 or more hits it; that a from-import after a
relative one gets the module of the snapshot, and not the one Python has loaded from the
changed disk; that a handler under way stops when its matcher is removed; that a repeated
event is recognised while its first copy has not been entered, or its entry is being
removed. Left out besides: a file destroyed by a failed download; an adapter loaded after
another one failed half-way; what a manager reports after a SystemExit has passed through
an import; OneBot's temporary chats, whose quotes are looked up in the group; Milky messages
with number 0 in direct chats, whose id is taken for one that is not packed.

## 8. Not modelled

- **Kritor**: generated protocol buffers, and a connection whose every method raises
  `NotImplementedError`.
- **Data**: the fields of message segments and of most responses, the message builder,
  `typextensions`, `Cacher`, `ErrorHandler`, `SimpleQueue`: values, or a loop or dictionary
  around one call.
- **Services, logging, screens, ArkSign, tools, skills**: a thread around one coroutine,
  output, rendering, request signing, templates.
- The parsing of commands by Alconna; the contents of media beyond size and recognised type;
  the copies of package namespaces that a dotted import returns (`_generation_facade`); the
  eviction and restoration of displaced modules, which nothing calls; `restart()`, which adds
  `os.execv` to `aclose()`; Ctrl+C in OneBot's `run()`.
- The reload recipe of `documents/lifecycle-and-adapter-contracts.md` is covered by
  `ClientLifecycle`, whose tasks may also use the managers directly, and not stated as a
  composition of its own.

# A formal model of onlinetlabs

onlinetlabs gives learners networking labs that run on a GNS3 server.  A FastAPI
backend (`backend/`) keeps accounts, sessions, progress and research data in
Postgres, capacity counters, waiting lists, tickets and caches in Redis, and runs
background loops: the reaper, the idle reclaimer, one monitor and one observer per
session.  `gns3/gns3-service` owns the GNS3 side: one project and one GNS3 account per
session, their consoles and their events.  `gns3/gns3-mcp`, built on `mcp-sdk`, offers
GNS3 to the backend and its agents as tools.  All of it is asyncio code: a handler runs
undisturbed between two awaits and anything may happen at an await.

This directory holds TLA+ modules translated from that code, the TLC runs that check
them and the TLAPS proofs of their main theorems.  `PROJECT.json` maps every definition
to the source lines it stands for, and lists the hazards with the properties about them.

## Inventory

| part | state | what is hard | modules |
|---|---|---|---|
| capacity queue `sessions/queue.py` | Redis: a counter per lab, a total, a list per lab | each Lua script is atomic, two of them are not; the clamp at zero hides a release too many | `SessionQueue` |
| launch `sessions/routers/commands.py`, `services/launch.py` | the row of `learning_sessions`, is_new_launch in the coroutine | five awaits between taking a slot and answering; two lookups that may disagree; a row that changes while GNS3 provisions | `SessionLifecycle` |
| termination `services/lifecycle.py`, `state.py`, `worker/reaper.py`; erasure `users/data_export.py` | the row, metrics, the gauge, the counters | the `ended_at` guard is on an object loaded before an await; three paths may run at once | `SessionLifecycle` |
| monitor registry, restore | monitors and observers in memory | membership test, awaits, then registration | `MonitorRegistry` |
| idle reclaim, node actions, saving | `paused_at`, node states, a cached snapshot | a pause that lands after a resume; a node that the snapshot does not show | `NodePower` |
| session state, tickets | two caches, Redis keys with a TTL | a stale read put into a cache after it was emptied; single use | `SessionDoor` |
| validation, progress | `validation_runs`, `lab_progress`, `step_attempts`, the consoles' locks | lost updates, cut streams, retries under a unique index, consoles that serve one client | `LabProgress`, `StepAttempts`, `ConsoleChecks` |
| analytics runtime | events, feature window, spells, decisions, samples | failing writes and restarts between a decision, its delivery and its record; windows that the loop's own rows enter | `BehavioralEvents`, `ProgressObserver`, `StruggleWindow`, `SessionMonitor` |
| consent seam `consent/` | consents, audit rows | two rules that read the same rows; withdrawal between decision and effect | `Consent`, `ToolRequests`, `SessionMonitor` |
| thresholds, criterion | stored samples | an offline simulation that must match the live law | `ThresholdSearch` |
| experiment, cohort report | `users.control_arm`, metrics, progress | two first reads, labs in any order | `TransferStudy` |
| simulation | a cohort against the live stack | slots given back once on every path of failure | `SimCohort` |
| chat | messages, the stream of a turn | three records of one turn that failures and closed tabs pull apart | `ChatTurn` |
| accounts, tokens | users, links, claims in tokens | claims that outlive the rights they speak of | `AccountAccess` |
| instructor, admin, retention | reads over growing tables | several queries for one card, pages over ties, sweeps | `BackOffice` |
| live feeds: activity log, websocket gateway | bounded queues, sockets | slow observers, failing sockets and prunes | `LiveFeeds` |
| gns3-service sessions, RBAC gate | projects, accounts, ACLs, a local and a Redis lock | rollback of half-made resources; expiry; going on without the lock | `Gns3Sessions`, `RbacGate`, `ExclusiveSection` |
| websocket proxy, events | tasks, heartbeats, a Redis key per project, a Redis stream | one forwarder per project across replicas; watchers, trimming, rows announced in any order | `WsProxy`, `EventStream` |
| console capture | a bounded backlog, masks, the parser's tail | bounds in frames and bytes, replay, frames cut anywhere | `ConsoleFlush`, `ConsoleTap`, `ConsoleRelay` |
| admin client | one token for all calls | renewal by several callers, repeated creations | `AdminCalls` |
| MCP server and SDK, MCP client | a pool of connections, one shared stream, log buffers | eviction under use, closing connections, answers that come late | `McpPool`, `McpStream`, `ToolRequests` |
| catalogue, configuration, i18n, models, frontend, deployment | | read-mostly or no program logic | none |

## Modules

Every module states one component: constants with their assumptions, variables named
after the code's, one action per stretch of a handler between two awaits that reach
something outside of it, `...Next`, `...Spec`, a type invariant and the properties.
Variables and constants of components have distinct names, so that suites can
extend several of them.  `Absent` holds the one value `None` that they share.

| kind | modules |
|---|---|
| compositions | `SessionLifecycle` (with `SessionQueue`), `Gns3Sessions` (with `RbacGate`), `ProgressObserver` (with `Consent`); `McpPool` extends `McpStream` to speak of both ends of a tool call |
| abstract specification | `ExclusiveSection`, which `RbacGate` implements |
| components | all others of the table above |
| instances for TLC | `MCSessionLifecycle`, `MCGns3Sessions`; `WsProxy`, `SessionMonitor` and `SimCohort` need none |
| suites for TLC | `MCLearnerLoop`, `MCWorkbench`, `MCGns3Service` |
| proofs | `SessionLifecycle_proofs`, `MonitorRegistry_proofs` (with `LiveFeeds`, `ProgressObserver`, `ChatTurn`, `BehavioralEvents`), `SessionMonitor_proofs` (with `LabProgress`, `ConsoleChecks`), `RbacGate_proofs`, `Gns3Sessions_proofs` (with `EventStream`), `WsProxy_proofs` (with `ConsoleTap`, `ConsoleFlush`), `AdminCalls_proofs` (with `AccountAccess`, `ToolRequests`, `BackOffice`), `Workbench_proofs` (`StepAttempts`, `NodePower`, `SessionDoor`, `McpStream`, `McpPool`, `TransferStudy`, `SimCohort`) |

A suite puts small instances of components side by side.  A behaviour picks one part at
its start and runs it alone, since the parts share no state; the others stay where they
begin, the `VIEW` leaves them out of a state's identity, and each property speaks of one
part.  A suite is thus as many separate checks that share one start of the model checker.
The initial choices of a part that is not picked (`mrt`, `door`, `feed`, `desk`, `follow`,
`component`, ...) are fixed.

Some components take a constant `Perils` (`GatePerils`, `StudyPerils`): the faults and
overlaps an instance admits.  Runs and theorems name the ones they need absent.

### The session lifecycle

* `labCount[l]`, `total`, `queue[l]` are the Redis keys `active_sessions:{lab}`,
  `active_sessions_total`, `queue:{lab}`; an absent key is 0 or the empty list.
* `rows[r]` is a row of `learning_sessions`: status, whether `ended_at` is set,
  user, lab, and `sid`, whether `meta` holds a gns3-service session id.  `"none"`
  is a primary key not used yet, `"erased"` one whose row has been deleted.
  The partial unique index is the condition `NoTwinOf` (and its counterpart in
  `InsertRow`) under which Postgres accepts a commit.
* `launch[p]` is one execution of `POST /sessions`: where it stands, for whom,
  `is_new_launch`, and the row it has created.
* `close[e]` is one execution of a path that may end a session, with what the
  code keeps in the row object it loaded: `ended` for `ended_at`, `wasActive`
  for the status, `sid` for the gns3 id.  `Reaper` is the `session_reaper_loop` task;
  it selects the overdue rows in one query (`selected`) and handles them one after the
  other, whatever has become of them meanwhile.
* `gns3[r]` is the gns3-service session made for a row: up, deleted by a teardown, or
  lost (a 404, which happens only when its own table was rebuilt).
* `metrics[r]` counts the `experiment_metrics` rows of a session; `gauge[l]` is the
  Prometheus gauge, in the memory of the process.
* `due` holds the rows whose deadline has passed.  Time itself is not modelled.  A row
  that a launch is still working on does not become due: provisioning takes half a
  minute and every call of it has a timeout far below both deadlines.

The launch: `Ask` → `TryAcquire` (Lua) → `LeaveQueue` (LREM) or `JoinQueue` → `Lookup`
(launch_session's own lookup and its checks) → `InsertRow` (lock, recount, insert, unique
index) → `Provision` → `FinalizeActive` or `FinalizeError` → `StartNodes` (the answer's
row and ticket) → `Publish` (gauge), and from every error `Leave` → `GiveBack`.  An end:
`EndAsked`, `ReapSelect`/`ReapPick`/`ReapReread` or `StateAsked`/`StateAnswered`, then
`MarkEnded` → `Measure` → `FreeSlot` → `Teardown`.  `Erase`, `Crash`, `FallDue`,
`LoseGns3` and the expiry of the keys are the environment.  Two perils restrict the
learner and not the environment: without `"overlap"` a learner's launch does not run at
the same time as an end of a session of theirs, and without `"endFailed"` nobody calls
the end endpoint on a session whose provisioning failed.

### A session's followers in the backend

* `MonitorRegistry`: `monitors[s]` and `observers[s]` are the two dictionaries;
  `watching[s]` and `polling[s]` the tasks that run, each named after the execution of
  `start` that has made it, so a task that the dictionaries no longer name is visible.
  `start[c]` is an execution of `start`, by a launch or the restoration (`Restorer`);
  `stop[e]` one of `stop` within `end_lab` or the reaper.  `late` holds sessions selected
  by the restoration although this process has launched them: then two starts run and
  the monitor that registers first is lost.  The property leaves those sessions out.
* `BehavioralEvents` numbers what happens in the lab by time; `poll` is the collector's
  cycle with the batch and the answers it has, `seen` its memory of keys, `ring` the log
  buffer of the MCP server.  `Persist` stores a batch or fails, after the watermark moved.
* `ProgressObserver` takes a snapshot check by check while the learner changes them and
  changes their consent; `recorded[c]` keeps the last two rows about a check since a gap.
* `StruggleWindow` has the feature functions and the identifier's rules as operators over
  the window, as the code has (where the code counts back from the end, the set of places
  it passes), and beside it variables that follow the learner event by event; the property
  compares the two.
* `SessionMonitor` is the analysis task: `Observe` (sample and dwell) → `Decide`
  or, in a trial, `TurnSpell` → `Draw` → `Authorize` → `Generate` → `Record`, with a
  failing write at each of them, `EndSession` with the censoring, and `RestartMonitor`.
* `ThresholdSearch` runs a live control law that writes samples next to the operators of
  `criterion.py` and `thresholds.py`, and asks whether their simulation agrees.
* `ChatTurn`: a request to `/chat/stream` from the stored question to the stored answer,
  with rounds, tool calls, tabs that close and turns that overlap.

### What else the backend does

* `LabProgress`: a validation run from its row to the progress it leaves, and the request
  that starts a lab; `StepAttempts`: the numbering of attempts under the unique index;
  `ConsoleChecks`: checks that wait for consoles, ask, leave and are cut off.
* `NodePower`: one session's nodes (`ram`, `disk`), the requests and the reclaimer as
  `actor`s that look up the snapshot, save, stop, start and set `paused_at`; `loss` says
  how a configuration was lost.  `SessionDoor`: `near` and `far` are the two caches,
  each a version and its age; `pass` the tickets.
* `TransferStudy`: `userArm`, the sessions, progress rows and measures of a learner, and
  `ReportOf`, what the cohort report derives from them.  `SimCohort`: the coroutines of
  simulated students with the queue's counters, next to real learners.
* `AccountAccess`: `account`, `token`, the handlers of more than one step, and how long ago
  each right was `lapsed`.  `BackOffice`: four readers (`desk`) and the sweep; a
  figure of a card is the set of the rows it counts, a page a set of rows.
  `LiveFeeds`: the writer and the observers of the activity log, or the tabs of the gateway.
* `McpStream`: one stream owned by a task and shared by tool calls (`clients/mcp.py`).
  `ToolRequests`: what is asked through it, directly or through the gates, up to what GNS3
  carries out, also after the asker has given up (`pending`, `late`).

### gns3-service and the MCP server

* `RbacGate`: `gate[w]`, `token[w]` are where a writer stands in `async with rbac_gate` and
  what `_acquire_distributed` returned to it; `line[r]` is the `asyncio.Lock` of a replica,
  its holder first; `key` is `lock:gns3_rbac_write`.  A release takes up to three steps,
  because it reads the owner and deletes in two calls.  `KeyExpires` is the TTL.
* `Gns3Sessions`: `create[s]` is `create_session`, with the project the duplication task
  has made (`copy`) and what the rollback knows; `work[k]` an execution of `reset_project`
  or `delete_session`; `account` and `project` are what exists in GNS3; a call that fails
  may have been carried out.  `logged` holds the sessions for which a deletion that
  failed was logged: the code promises no more there.  A new project is any unused id;
  which one is immaterial, so the model takes a fixed one.
* `WsProxy`: `tasks[r]` is `_tasks` together with `_heartbeat_tasks` of a replica,
  `forwarding[r]` the forwarders that run, `lock[p]` the key with the instance id that set
  it.  A heartbeat that renews in time is a stutter; `Expire` is the TTL, `Lost` the
  heartbeat that finds the key gone.  `faults` records what has gone wrong, so that one
  run can admit every peril and still say what holds without it.
* `EventStream`: a notification from GNS3 through the forwarder to the rows and the Redis
  stream, each replica's announcements, the watchers, and the pages of the activity.
* `ConsoleFlush`: the backlog and its writer; `ConsoleTap`: the bytes a learner types, the
  prompt that arms the mask, the budgets; `ConsoleRelay`: what the node prints, cut into
  frames, and the parser that reads commands off it.
* `AdminCalls`: calls of three kinds under one token; `McpPool`: the pool with its two
  locks, where a task that is woken runs later than the release that woke it.

## Runs

Deadlock is never checked: ids (rows, sessions, projects) are finite sets that the
handlers use up, and a drained system may stop.  A handler is admitted only while an id
is left for it, so none that runs is ever short of one.

| run | instance | shows |
|---|---|---|
| `lifecycle_races` | perils gns3, overlap, endFailed; 1 user, 2 labs, 2 rows, 2 launches, an ender, the reaper; limit 1 | `OneLivePerLab`, `UserCapHolds`, `NoSlotLeak`, `TeardownAfterEnd`, `EndedForGood` |
| `lifecycle_slots` | gns3, crash, erase; 2 users, 2 labs, one with a cap of its own, 2 launches, the reaper, 1 restart | `SlotsExact`: the counters are exact while nothing crashed and nobody was erased, and throughout no open session is without a slot |
| `lifecycle_live` | all seven; 1 user, 1 lab, 1 row, 1 launch, an ender, the reaper, 1 restart | `OverdueEnds`: the reaper ends what is overdue; `LaunchAnswered`: every launch is answered |
| `gns3_clean` | account, copy, later, database, cleanup; gate: redis, slow, patience, crash; 2 sessions of one replica, 1 worker | `NothingLeftBehind`, `ReplicaExclusive`, `CreationEnds` |
| `gns3_service` | suite: sessions of two replicas that crash, with overlapping resets and deletions; events, relay, admin calls, tools | `AccountHasProject`, `OneAtATime` (the gate implements `ExclusiveSection`), `StreamSound`, `RelaySound`, `AdminSound`, `ToolsSound` |
| `ws_forwarders` | all four; 2 projects, 2 replicas, 2 handlers, each replica stops once | `OneForwarder`, `Forwarded`, `DuplicatesEnd` |
| `learner_loop` | suite: registry, monitor, events, observer, window, search, chat, accounts, office, feeds | `Registered`, `InterventionsLawful`, `TrialSound`, `TakenOnce`, `StoryHolds`, `WindowSound`, `SearchSound`, `TurnSound`, `AccessSound`, `OfficeSound`, `FeedSound` |
| `workbench` | suite: progress, attempts, checks, power, flush, tap, pool, stream, study, cohort, door | `ProgressSound`, `AttemptsNumbered`, `ConsolesShared`, `PauseKeepsWork`, `CaptureSound`, `ConnectionsSound`, `StudySound`, `SimSound`, `DoorSound` |

Each property is stated in words above its definition, with the lines of the code it is
about.  Three of them join what two components guarantee to one end: `CaptureSound`
(`ConsoleFlush`, `ConsoleTap`), `ConnectionsSound` (`McpPool`, `McpStream`), and
`InterventionsLawful`, which includes `WithdrawalHeeded` outside the trial.

Why the bounds are enough.  Lifecycle: two rows are a twin, a row that fails while
another comes, a session that outlives another; two launches are every race of
`is_new_launch` against the row; one ender next to the reaper is two ends at once; two
labs set the total against a lab's counter, and a cap of 1 on one lab under a global
cap of 2 makes both conditions of the Lua script bite.  The liveness run has one row
because what a launch waits for is its own row or a full queue, which `GlobalCap` 1
gives.  Gate: two writers in one replica meet at the local lock, two replicas at the
key.  Sessions: a session uses at most three projects (created, reset, reset again by
an overlapping worker) and four leave one for the other session.  Proxy: two replicas
compete for a key, two handlers stop and start one project at once, a second project is
what a reset moves to.

In the suites every bound is a constant marked `bound`, and is set where the next larger
value only repeats a case.  Queues, rings and memories hold one to three entries so that
they overflow (`DedupSize`, `RingSize`, `FrameQueue`, `StreamLen`, `PoolSize`,
`QueueSize` against `MaxBytes`); clocks run past every TTL and cooldown of the instance;
retries are two, so that the last differs from one before; two actors meet in each part.
Registry: what meets is one starter, the restoration and two enders on one session, or
two sessions and one ender (`FewAtOnce` leaves out both at once).  Accounts:
`MaxAsked` counts the requests other than exchanges, of which three make every story the
property names.  Door: versions past for longer than `MaxPast` are not told apart.
Relay: outputs of up to five tokens, in which no node erases its own prompt.  Symmetric
sets (`Permutations`) are used only where nothing but identity tells their members apart
and no run with liveness uses any.  Since the parts of a suite never run together, one pair
of model values serves several of them: workers, desks, tasks and askers in `gns3_service`,
tool calls, starters, requests and viewers in `workbench`, sessions, people and nodes in
`learner_loop`.

Four runs show where the code departs from what it says.  Each checks one property,
states a sentence of the code, and TLC finds a behaviour that breaks it:

| run | what the code says | what happens |
|---|---|---|
| `ends_overlap` | "a repeat call cannot double-release or double-count" (`lifecycle.py:121`) | two ends load the row before either commits; both measure, release and decrement |
| `ended_while_launching` | the reaper "ends sessions past their deadline" (`reaper.py:1`) | a session ended while provisioning is set to active afterwards; no later end gets past the guard |
| `mrt_ungated` | authorize_act is split out "so callers that do not deliver through MCP -- the intervention dispatch -- pass the same gates instead of bypassing them" (`consent/interface.py:74`) | the micro-randomized trial dispatches without it (`monitor.py:678`): a learner who has withdrawn is shown an intervention |
| `second_lab_slot` | the second lab "has no GNS3, monitor or slot" (`simulation/run.py:179`) | its end releases a slot of that lab all the same; the counters fall below the open sessions of real learners |

### Also seen

What the models show of the code beside the findings, without a run of its own.

Sessions and capacity: ending a failed launch's row (`ended_at` is still NULL) gives back
the slot of another session (`lifecycle.py:121`); the revived session of
`ended_while_launching` beside one launched meanwhile exceeds the learner's limit; the
gauge goes below zero after a restart (`lifecycle.py:98`); the waiting list decides
nothing (`queue.py:3` calls it FIFO); an end that overlaps a start or a restoration leaves
a monitor running for an ended session; tickets and credentials are issued for ended rows
too, and a ticket is spent when a later step of its redemption fails.

gns3-service: when the duplication fails after the account was made, the rollback was never
told of the account (`gns3_identity.py:14`); a reset that overlaps a deletion gives a
closed session a project; a release of the gate may delete the key of another replica; a
replica restarted within the TTL finds its own old keys and skips the projects
(`gns3_ws_proxy.py:79`); a second read of a pruned lock of the pool makes two locks of one
key (`connection.py:57`).

Events: with several replicas each publishes every row of the history, and its publish
tasks may overtake each other; `XREAD` from `$` misses what comes before the first entry,
and the snapshot of a watcher is read before its subscription; `stream.restored` of
`gns3_ws_proxy.py:6` is never sent.

Calls to GNS3: a renewal of the token ahead of its expiry that fails schedules no other,
so that `request()` and the forwarder stay denied until some call is answered 401;
a duplication repeated after a timeout leaves an orphan, a repeated creation of a user is
refused as registered; a stop that was given up may land after the start of a restart; a
500 on `get_node` is answered as a component that is not found; log buffers are never
removed.

The loop: an unobserved check is recorded as a regression (`progress_observer.py:44`); the
loop's own `would_intervene` rows hide the learner's silence (`features.py:25`);
`repeated_errors` reads its rows without an order; `redact` masks top-level keys only.

The study: only the simulation writes `current_step`, so that `metrics.completed` is false
for every real learner (`lifecycle.py:56`); two first reads of an arm drift apart;
whether a lab is a transfer lab is judged at the end of a session; the time of observation
may be negative; a student who typed nothing repeats a message (`help_text.py:49` says
otherwise), and the last productive window ends without its command.

Accounts and back office: overlapping registrations answer 500; an old token of an erased
account can change the role of the account registered anew; the audit's `before` skips rows
of an equal timestamp; a count at exactly `COUNT_CAP` is called inexact; the retention loop
retries at once and without end; the chat strips spaces at the edges of a text, and a
thinking tag cut by a chunk passes.

### Fairness

Liveness is stated of the lifecycle, of creations in gns3-service and of the forwarders.
Every fair action is weakly fair.  Lifecycle: the next step of every launch and every end
that has started, because each await is a Redis, Postgres or HTTP call with a timeout and
the event loop runs every ready coroutine.  The reaper's loop survives every exception, so
while something is overdue it selects again, and while something is selected it handles
one of the rows; a selection holds every overdue row, so no strong fairness is needed.
gns3-service: the steps of a creation and of a reset or deletion (HTTP calls with
timeouts), the steps at the gate (the wait has a deadline and the Redis calls have
timeouts) and the expiry of the key.  Proxy: handlers, the startup, the restart of a
stopped replica, the heartbeat that finds its key gone, and the expiry of a key that
nobody renews.  Nobody owes a request, a deadline or a fault.  The parts of the suites
have safety properties only; where one must end (a run, a turn, a call), its last state is
what the property speaks of.

## Proofs

TLAPS checks the theorems for every value of the constants; the named assumptions
(`LifecycleAssumption`, `GateAssumption`, ...) stand in the modules that declare the
constants, and TLC evaluates them on the instances.  They ask that bounds are natural
numbers, that a cap or a number of tries is at least one, that `None` and the roles that
the code tells apart (the reaper, the restoration, the reclaimer) are distinct from the
rest (`None` is no account, number, lab, answer or snapshot, and nothing that a feed or a
student holds), that the search has a candidate and takes each regime once, and, where a
cardinality is compared, that a set is finite (the students of a cohort, the replicas that
listen); and that no node erases the prompt it has printed (`KeepsPrompt`): it echoes a
backspace over what was typed.  Sets of sessions, learners, handlers, replicas, tokens or
projects are otherwise any sets, and so are the perils unless the theorem says which are
absent.

| theorem | module | states | premise |
|---|---|---|---|
| `TypeCorrect`, `OneLiveSession`, `UserCapRespected`, `TeardownComesLast`, `EndedStaysEnded` | `SessionLifecycle_proofs` | `TypeOK`, `OneLivePerLab`, `UserCapHolds`, `TeardownAfterEnd`, `EndedForGood` | |
| `NoSlotIsLost` | `SessionLifecycle_proofs` | `NoSlotLeak` | no restart, erasure or failing Redis call |
| `CountersExact` | `SessionLifecycle_proofs` | `SlotsExact` | a learner's requests do not overlap the end of their session, no failed launch is ended, no failing Redis call |
| `RegisteredAlways` | `MonitorRegistry_proofs` | `Registered` | |
| `InterventionsAlwaysLawful`, `TrialAlwaysSound` | `SessionMonitor_proofs` | `InterventionsLawful`, `TrialSound` | |
| `ProgressAlwaysSound`, `ConsolesAreShared` | `SessionMonitor_proofs` | `ProgressSound`, `ConsolesShared` | |
| `FeedAlwaysSound`, `StoryAlwaysHolds`, `TurnAlwaysSound`, `EventsTakenOnce` | `MonitorRegistry_proofs` | `FeedSound`, `StoryHolds`, `TurnSound`, `TakenOnce` | |
| `WindowAlwaysSound`, `SearchAlwaysSound` | `MonitorRegistry_proofs` | `WindowSound`, `SearchSound` | |
| `AttemptsNumberedAlways`, `PauseAlwaysKeepsWork`, `DoorAlwaysSound` | `Workbench_proofs` | `AttemptsNumbered`, `PauseKeepsWork`, `DoorSound` | |
| `NoStreamIsLeft`, `PoolStaysInOrder`, `ConnectionsAlwaysSound` | `Workbench_proofs` | `NoStreamLeft`, `PoolInOrder`, and both as `ConnectionsSound` | |
| `StudyAlwaysSound`, `CohortAlwaysSound` | `Workbench_proofs` | `StudySound`, `SimSound` | |
| `GateSafe`, `OnePerReplica` | `RbacGate_proofs` | `GateInv`, `ReplicaExclusive` | |
| `GateImplementsSection` | `RbacGate_proofs` | `OneAtATime`: the gate implements `ExclusiveSection` | of the gate's perils at most crashes |
| `SessionsKeepToTheGate` | `Gns3Sessions_proofs` | the sessions implement `GateSpec` | |
| `CreationsPassOneAtATime` | `Gns3Sessions_proofs` | `OneAtATime` of the sessions | as above |
| `SessionsAlwaysSound` | `Gns3Sessions_proofs` | `SessionsSound` | |
| `AccountsHaveProjects` | `Gns3Sessions_proofs` | `AccountHasProject` | no failing commit, no failing deletion |
| `NothingIsLeftBehind` | `Gns3Sessions_proofs` | `NothingLeftBehind` | no failing reset, no overlapping workers |
| `StreamAlwaysSound` | `Gns3Sessions_proofs` | `StreamSound` | |
| `AdminCallsSound`, `AccessAlwaysSound`, `ToolsAlwaysSound`, `OfficeAlwaysSound` | `AdminCalls_proofs` | `AdminSound`, `AccessSound`, `ToolsSound`, `OfficeSound` | |
| `ForwardersKeyed`, `NoDuplicates`, `EveryProjectForwarded` | `WsProxy_proofs` | `ProxyInv`, `OneForwarder`, `Forwarded` | |
| `CaptureAlwaysSound`, `RelayAlwaysSound` | `WsProxy_proofs` | `CaptureSound`, `RelaySound` | |

Each follows from an inductive invariant that the actions keep one by one; TLC has
confirmed each on a small instance before it was proved.  What they add to the properties:

* `LifecycleInv`.  That no twin appears needs that a launch owns the row it inserted and
  that nobody else makes it active (`LaunchesSound`); that only ended sessions are torn
  down needs that a closer which believes a session ended is right (`ClosesSound`), and
  that the reaper only handles rows that have been used (`SelectionSound`); all need that
  an unused or erased row carries no old `ended_at` (`UnusedRowsSound`).  The learner's
  limit counts open rows with `Cardinality`, so the preservation lemma compares the sets
  before and after, row by row.
* `SlotInv`, for `NoSlotLeak`: a counter is compared with the cardinality of a set of
  claims, and a release may find the counter already lowered by one release too many.
  The lab kept by a launch or a closer is its row's (`LabsAgree`) and each counter is at
  most its claims (`SlotsBacked`); every action moves at most one claim, so one lemma says
  how `Claims` changes and the arithmetic is the same everywhere.
* `ExactInv`, for `SlotsExact`: every step takes a slot for a new holder, hands one from a
  holder to another, has one given back or moves none, and one lemma each does the
  arithmetic for the lab's counter and the total (`SlotTaken`, `SlotMoves`,
  `SlotGivenBack`, `NobodyMoves`).  That each step is of one of these kinds needs that
  whoever has a row took a slot for it (`AllPaid`), that a closer's copy of its row is
  still true and it is alone with the learner (`AllKnow`, `AllApart`), and what is left
  for the reaper (`DueSettled`).  A restart and an erasure only take holders away:
  `HoldersCounted` survives them, and with it that open sessions are counted.  A launch
  whose row is erased under it still gives its slot back, hence `Stranded`.
* `RegistryInv`.  A task that the dictionaries name is running and nobody is about to stop
  it (`Polls`); an execution of `start` makes one monitor and one observer of a session at
  most in the life of a process (`NamedOnce`), so that a task which is no longer named has
  a unique execution that lost its entry or that took it out, and it is this one that
  still has the stop ahead of it.
* `MonitorInv`.  The cooldown relates two deliveries any number of cycles apart: what was
  done is not later than `lastAct`, and what is on its way has passed the gate
  (`ActsPast`, `ActAllowed`).  That an exit is the first sample of another regime needs
  that an open point has seen one regime only up to the cycle that turns the spell
  (`OpenPoints`, `CycleSampled`), and holds unless a write has failed.  The events are
  sequences that only grow, so each action has a lemma over `Grown`, the pointwise reading
  of `Append`.
* `AttemptInv`.  A number in use follows a stored one and exceeds the tries that failed
  (`Picked`, `Tried`); what waits to be committed is reserved by the unique index
  (`Reserved`).
* `PowerInv`.  The disk never holds less than what somebody believes saved (`InTurn`), so
  that a loss after a successful save was typed after it.  Without a race nobody starts
  while the reclaimer works; whoever starts a paused session knows that it is paused, and
  its nodes run only while such a start has yet to clear the mark (`PauseHeld`).
* `DoorInv`.  A state is as old as the device has been past it.  The call that fills a
  cache, the entry and the call that reads it each add what they take, so what either
  cache holds is bounded by its own age and the waits before it (`NearKept`, `FarKept`),
  and so is what a request has in hand (`AllInHand`); the far entry lies behind a settled
  action only if it was stored late.  A ticket is in Redis, with one request that has taken
  it out, or spent (`TicketsOnce`).
* `GateInv`.  Whoever is past the local lock is at the head of its line (`HoldersSound`),
  whatever happens to Redis, time and replicas; when nothing but crashes goes wrong,
  whoever is inside holds the key (`KeySound`).  The refinement maps the writers that are
  `inside` to those of `ExclusiveSection`; the premise is needed, for the gate lets
  writers in without the lock when Redis fails or the wait is too long, and says so.
* `SoundInv`, `AccountInv`, `CleanInv` of gns3-service.  A project id is known to one
  session (`OwnIds`), a creation has the copy it was given (`Created`), a worker works on
  the row it loaded (`Loaded`).  With failures after a commit left out, the copy of a
  reset is up and nobody else knows of it before the commit (`Fresh`, `Unseen`), and
  whoever deletes a project an active row still has deletes the account first (`Spared`).
  With one worker per session, what GNS3 has is what the rollback was told of
  (`OnlyWorker`, `Told`, `Accounted`).
* `AdminInv`.  A call has been carried out less often than it was tried until its answer
  is there (`CarriedOut`); the shared token is accepted and due for renewal unless
  something has gone wrong since the call renewed it (`Kept`).
* `AccountInv` of the accounts.  A claim of a token is not older than the right it claims
  is past (`AllLapsing`); the ids are those of the accounts there are, and none comes back
  (`Numbered`).  That an account has one link holds up to the first overlap of two
  callbacks, since then whoever is about to link has read all links of the account
  (`OneLink`).
* `ToolInv`.  What GNS3 has carried out of a step and what it may yet carry out are
  together no more than what was sent (`Counted`, a cardinality that each action moves by
  one); what is pending is waited for or its lab is marked as late (`AllExpected`), so
  that nothing the call does not know of stops a lab after a restart.  A rival of a call
  stays one until the end, because a plan is never given up.
* `StreamInv`.  A stream task that runs and was not asked to close is the one of the shared
  connection; a failed call forgets a connection only if it is still the shared one, so
  what it leaves behind has been asked to close.
* `PoolInv`.  A call that works holds the lock of its key and the others of its lock queue
  behind it (`LocksKept`); a fresh lock always exists, by counting the callers that name
  one.  No entry's connection is one that is being closed (`EntriesKept`), and whoever
  makes room without suspending is the task that runs, so nobody else adds an entry
  between the room and the entry (`RoomKept`).
* `StudyInv`, for `StudySound`: of two draws of a learner, both come before a first read is
  over; the dates of progress lie between the sessions and the clock, and a pass stands
  once it is there.  The first lab and the latest session are a minimum and a maximum of a
  set of numbers, whose existence is proved from the well-founded order (`Least`).
* `SimInv`.  Where a student is tells what they hold: the slot, the row, the monitor; the
  counter is the number of holders and of other learners' sessions.  The productive windows
  account for the progress one by one, and the rows of the dialogue take turns, so that the
  last phrase is known when the next is chosen.
* `ProgressInv`.  A run that has finished holds every step, and the stored row is the run's
  (`FinalsWhole`, `StoredAsRun`); at most one insertion of the progress row succeeds
  (`OneInserter`); what a stream has read of the row is not newer than the row, and until
  two overlap it is the row (`ReadsBefore`, `OneWriter`); what the row says is what some
  recorded run said (`RowTells`).
* `ConsolesInv`.  The line of a lock has nobody twice and exactly those who want the
  console, and whoever is connected through the lock is first in it; that a node was
  reported wrong is remembered from the attempt that read it.
* `FeedInv`.  The events saved, in the writer's hands, queued and lost make up what was
  emitted (`EventsAccounted`); the rows beyond the retention are bounded by the counter of
  insertions and the slips (`RowsBounded`), where a prune keeps exactly as many rows as the
  retention, again by `Least`; a socket's queue continues what it was shown, in order
  (`SocketsServed`).
* `ObserverInv`.  The last row about a check agrees with the snapshot that the next is
  compared with, also while its row is still at the gate; the first snapshot of a process
  writes nothing, and of two rows in a row the second tells the opposite.
* `ChatInv`.  In a round the tab has been told of its start and of what the model says, and
  of its end exactly once the text is over (`Streams`), which is when it is kept; what is
  kept is therefore the first of what was ended, with the last to be kept at most one
  behind (`Keeps`); the dialogue ends with an unanswered request of tools only while they
  run, with as many answers as have come (`Tells`).
* `CollectorInv`.  The memory is always the end of all that the collector took (`Recent`),
  so a key that is not in it was taken more than a memory ago (`FarApart`).  What a reply
  adds is a recursive function over it: its steps exist by `Iterates` and the invariant is
  carried along them by `StepByStep`.  The buffer, the answers and the errors taken are
  in the order of time (`Rising`), each part of an answer is newer than the watermark, and
  it has all that the buffer held of the time between (`Answered`).
* `WindowInv`.  Each variable that follows the learner is related to a set of places of the
  window: the errors since the last pass that agree up to the last (`ErrorsFollowed`), the
  failing checks that agree at the end (`FailuresFollowed`), the events at the same
  component (`StayFollowed`), and the learner's events that a long silence follows
  (`SilencesFollowed`).  One event more changes each set by one place or makes it anew, and
  the last place by its own gap; a poll of the observer changes none of the silences.
* `SearchInv`: the samples are in the order of time, and what has acted is what the
  simulation fires.  The simulation, the time in bad states and the search are recursive
  functions over the samples or the regimes, which exist by `Iterates` and are followed by
  `StepByStep`: one sample more is one step more (`OneSampleMore`), and no step of the
  search makes the policy dearer (`BestIsBest`, `SearchPays`).  No intervention is false
  twice because spells have no sample in common (`OneSpell`) and none that is good
  (`WhereItFell`), whatever the median is that tells the early ones (`FalseOnce`).
* `OfficeInv`.  A figure counts only rows that are still there, so a later query of the same
  kind finds them too (`FiguresHeld`); what the audit has shown is no older than where its
  last page ended, and what it left out is older or tied with the end of a page
  (`AuditHeld`).  The pages of a table are the rows up to a rank, the number of rows newer
  than a row: without ties it is the row's place in every order the database may choose
  (`PlacesAreRanks`), and nothing but an arrival, a removal or a tie changes it (`PagesHeld`).
* `EventsInv`.  What is stored comes before what is on the wire, so the rows are in order
  and no status is published twice (`Ordered`, `StatusOnce`); for each row, its entries in
  the stream and the publications still due are together no more than the replicas
  (`Announced`).  A watcher's last entry is where its next read goes on, and what it has
  not been shown since its first is trimmed (`Follows`); the reader has all the rows that
  are not older than the cursor (`Pages`), and the page is stated by how many rows are
  older, which is what the filtered query returns.
* `ProxyInv`, `AttendedInv`.  That a forwarder runs under its replica's key
  (`KeyedForwarders`) needs that a key is never given back under a running forwarder,
  hence that every forwarder is in `_tasks` or awaited by the handler that stops it
  (`ForwardersTended`), and that a replica that starts again under a new id has none of
  the old one (`DownIsEmpty`, `HandlersUp`).  For `Forwarded`, while nothing has gone
  wrong: a task in the table forwards, what is awaited is awaited by one handler, and a
  key that is set belongs to somebody who has the project in hand or forwards it.
* `FlushInv`, `TapInv`.  What is queued and what is in flight are apart and each item is
  queued once (`Apart`), and one in flight has a row only where a stop cut off its commit
  (`Unkept`): so a batch that is resumed adds no second row unseen.  The batch is in
  flight until its part is committed (`Batched`).  For the passwords: a secret key still in
  the buffer has the masking armed and no end of a non-empty line before it, a node that
  still asks has seen no such end at all, and one whose line is empty has seen a break
  behind every key (`Safe`); this survives every byte that is read (`SafeGrows`), every cut
  of the buffer (`SafeCut`) and every prompt, which comes only when no line has ended
  (`SafePrompt`), and it is what makes the masking reach far enough (`Masking`).
* `RelayInv`.  What is recorded of an open console and the reading of the same output in
  one piece are at the same line (`Matches`), and their parsers agree but for one thing
  (`Agree`): at a prompt, the one that is fed frames may have closed already what the
  other still has open.  It must stay at that prompt until it reads the next line, hence
  `KeepsPrompt`.  A frame that ends inside `"\r\n"` adds a blank line (`BlankAgrees`); every
  token (`TokenMatches`), the end of a frame (`FrameEndMatches`) and the flush
  (`FlushMatches`) keep the agreement, and a frame of any length does so token by token
  (`FrameMatches`).

### Only model-checked

* Liveness (`OverdueEnds`, `LaunchAnswered`, `CreationEnds`, `DuplicatesEnd`): fairness and
  `ENABLED` are out of the prover's reach, and so are the four counterexamples.
* What the statistics over the data are (medians, regressions, entropies): TLC evaluates
  them, or the model leaves them open, and the invariants are proved whatever they return.

Every invariant that a passing run checks is proved: a definition over sequences of any
length is written as a recursive function or as a set of places, and the induction is done
over a set of numbers (`StepByStep`), with no induction over data.

## Not modelled

* In `SessionLifecycle`, the calls to the monitor registry: nothing there reads it, and
  `MonitorRegistry` has the same paths with what matters to a monitor.
* In `Gns3Sessions`, the calls to the websocket proxy (likewise, `WsProxy` has them), the
  state cache (`SessionDoor`), the retries of the admin client (`AdminCalls`), nodes and
  passwords.
* In `MonitorRegistry`, the reaper cancelled by a shutdown in the middle of a stop (the
  process ends with it), and what the tasks compute.
* In `WsProxy`, a reset that overlaps a deletion (in `Gns3Sessions`), the reconnecting
  within a forwarder, and the broker.  A deletion in a replica that does not run the
  forwarder leaves it running in the other; the model has it, no property does.
* A failing Postgres call where the transaction is rolled back and the handler answers
  with an error, and the cancellation of one handler by a client that disconnects, except
  where a module says so (`LabProgress`, `ChatTurn`, `ConsoleChecks`).
* What the devices print and how it is parsed, the texts of interventions and of the
  chat, the language models, the statistics of the reports, passwords, signing,
  localisation, logging, the ETA shown to a waiter.
* The catalogue of labs and courses, the configuration, the migrations, the frontend, the
  deployment and the load generator: read-mostly, or no program logic.
* Skipping the advisory lock on databases other than Postgres.

## Plan

Done: the modules above, their runs, and the theorems of the table.  Left, in this order:

1. An abstract `SlotPool` (take, hand over, give back) that `SessionLifecycle` implements
   while launches and ends do not overlap: the step lemmas of `CountersExact` are the
   steps of that refinement.
2. A launch and its monitor in one module, for what the lifecycle promises the registry.


# dispatch-cli in TLA+

`dispatch` lets agents in several terminals find each other and exchange
messages. One process, `dispatch serve`, embeds a broker behind a Unix socket,
starts and supervises agent processes and serves an HTTP monitor; the other
commands are clients that send one JSON line and read one back. These modules
model its core from the source under `src/src/`, model-check it with TLC and
prove theorems about it with TLAPS.

## 1. Inventory

| component | source | state | operations | with whom |
|---|---|---|---|---|
| Broker | `backend/local.rs` (`BrokerState`, `handle_request`) | registry with TTL leases, mailboxes, one tokio `Notify` per worker, ack log, bounded message and event histories, role prompts, counters; all behind one tokio `Mutex` | register, team, send, listen (long poll), heartbeat, ack, status, queries | clients over the socket; orchestrator, supervisors and monitor call it directly |
| Connections | `backend/local.rs` (`handle_connection`, `accept_loop`, IPC client) | one task for each connection | read a line, handle, write a line | clients |
| Serve | `backend/local.rs` (`serve`, `check_no_existing_broker`) | the socket file | probe, unlink, bind, select on shutdown, unlink | other `serve` processes |
| Orchestrator | `backend/orchestrator.rs` (`AgentOrchestrator`) | managed agents, names being started, spawn context | start, stop, restart, launch all, shut down all, in three phases around the lock | IPC, monitor, broker |
| Supervisor | `backend/orchestrator.rs` (`supervise_agent`) | agent state, attempt counter, child | wait, back off, re-register, respawn, give up, stop | broker, orchestrator, the operating system |
| Heartbeat timers | `backend/orchestrator.rs` (`start_heartbeats`) | none | run a shell command, broadcast the outcome | event stream |
| Monitor | `backend/monitor.rs`, `monitor.html` | none of its own | read state, start/stop/restart/shutdown over HTTP | broker, orchestrator |
| Protocol | `protocol.rs` | none | (de)serialisation, untagged responses | all |
| Configuration | `config.rs` | none | resolve file, environment, defaults | all |
| Vendor hooks | `hooks/*.rs` | the vendors' settings files | install, uninstall, detect | the file system |
| Adapters | `adapter/*.rs` | none | build command lines | orchestrator |
| Command line, logging | `main.rs`, `cli.rs`, `logging.rs`, `errors.rs` | none | parse, print | all |

What is hard, and what must hold nevertheless:

- **Broker registry.** Leases end at any time; claims, collisions, same-name
  eviction and expiry meet in one function. No partial state of a removed
  worker, no prompt for the wrong agent, no removal without a reason, nothing
  inherited with an id, unique names where callers evict.
- **Broker delivery.** A listen is spread over several critical sections, a
  future and a timer, and several connections may listen as one worker. At most
  once, in order, no lost wake-up, nothing lost without its mailbox, every
  request answered, mail drained.
- **Histories.** They drop old entries while acknowledgements and the event log
  refer to them. Both stay consistent with the mailboxes.
- **Orchestrator and supervisors.** Starts, stops and shutdowns overlap with
  crashes and respawns, in and out of the lock. One child for each name at
  most, no child after a stop or a shutdown, a bounded number of restarts.
- **Serve.** Two processes may probe, unlink and bind the same socket path.
- **Protocol.** Responses carry no tag, so that the client guesses which one it
  got. It must take each for what the broker meant.
- **Configuration.** Flags, environment, directory and files name a broker in
  an order of precedence, once for a command and once more for what a broker
  starts. A child must reach the broker it came from and a project its own.
- **Agents.** A launch, a start, a respawn and a pasted command hand over the
  prompt, the boot prompt and the worker id in different ways. They belong
  together.
- **Vendor hooks.** Commands read, change and rewrite files that hold the
  user's own entries, and may be killed or overlap.
- **Timers and feeds.** A slow command must not overlap itself, a bounded
  history or channel must not end a stream or hide what was recorded.

`PROJECT.json` lists the hazards line by line.

## 2. Modules

| module | contents |
|---|---|
| `Notify` | tokio's `Notify` as the broker uses it (external): one permit, a FIFO of waiters, notified futures |
| `Broker` | the broker: its state, one action per request or critical section, its properties |
| `Mailboxes` | abstract: what the broker promises of mail, without leases, locks, notifiers or histories |
| `MailboxesRefinement` | where each message is, read off `Broker`: the refinement mapping to `Mailboxes` |
| `Orchestrator` | agents: requests in their phases around the mutex, supervisors, children, worker records, `serve` around them |
| `ServeSocket` | `serve` processes that probe, unlink, bind and clean up one socket path; clients in the backlog |
| `AgentLaunch` | from an `[[agents]]` table to a process and its registration: errors, boot prompts, records and their expiry, adapters, printed commands |
| `HeartbeatTimers` | the timers' tasks, their shell commands, the aborts that nobody awaits |
| `EventFeed` | histories and their queries, the broadcast channel and its browsers, a user who polls |
| `CellResolution` | which broker a command, a child, a hook or a pasted command reaches |
| `ClientSession` | one client command: request, answer on the wire, decoding, output, exit code |
| `HookFile` | the JSON file with Stop hooks, shared by the two modules below |
| `ClaudeHooks`, `CodexHooks` | installation and removal of the hooks in the vendors' files |
| `MCBroker`, `MCOrchestrator`, `MCCellResolution` | values of the constants for TLC |
| `MCVendorHooks`, `MCCommands`, `MCTasks` | sums of modules that share no state, for one run: a behaviour belongs to one of the parts |
| `BrokerProofs`, `DeliveryProofs` | theorems about `Broker`, the second on top of the first |
| `OrchestratorProofs`, `ServeSocketProofs`, `EventFeedProofs` | theorems about these modules |
| `HeartbeatTimersProofs` | theorems about `HeartbeatTimers`, as `MCTasks` has it, for any timers |
| `CommandsProofs` | theorems about `CellResolution`, `AgentLaunch` and `ClientSession` |
| `HooksProofs` | theorems about `ClaudeHooks` and `CodexHooks` |

A definition `Mutant...` is a mistake the code could have made in the
definition after it. No specification uses one.

### How `Broker` corresponds to the code

`workers`, `mailboxes`, `notifiers`, `role_prompts`, `ack_log`,
`message_history`, `event_history` and `messages_delivered` are the fields of
`BrokerState`. The maps are functions whose domains shrink and grow as the
`HashMap`s do. A request that takes the mutex once is one action:

| action | code |
|---|---|
| `Register`, `RegisterCollision` | the register request; `register_worker` is `Claim` or `Insert`, after the eviction both begin with |
| `PreRegister`, `RemoveWorker` | `build_pending_agent`, `pre_register_unmanaged` and the re-registration in `supervise_agent`; the clean-up when a spawn fails |
| `Team`, `Send`, `SendRejected` | the requests that renew their caller before they evict |
| `Heartbeat`, `ClearStatus`, `Ack` | as named |
| `EvictExpired` | every request that only evicts: status, `/api/team`, and any request that is then refused |
| `ListenRejected`, `ListenImmediate`, `ListenEmpty` | first critical section of listen |
| `CountImmediate` | second critical section of an immediate delivery |
| `PollNotified`, `NotifiedReady`, `TimerElapsed`, `TimedOut` | `timeout(.., notifier.notified())`: first poll, later poll, the timer, the drop of the future |
| `PopAfterWake`, `SpuriousWake` | last critical section |
| `WriteResponse`, `WriteFails` | `write_all` in `handle_connection` |
| `Tick` | a second of `now_secs()` passes |

The task that serves client `c`'s listen is `task[c]`: where it is, as whom it
listens, the `Notify` it holds (an `Arc`, so it survives the removal of the
worker) and the message it has popped. A `Notify` nobody refers to is free, and
`get_notifier` takes a free one for a new object.

Abstracted: the `m`-th message sent is the number `m`; a role prompt is the
name it was written for; a fresh UUID is an id not in use so far. Left out:
bodies, senders, descriptions, capabilities, timestamps of messages and
statuses, event payloads, `requests_handled`, the live event broadcast and the
queries of the histories, which only read. The expiry events of the monitor's
`api_team` go to the broadcast only, so `EvictExpired` records none; `EventFeed`
has both kinds.

### How the broker implements `Mailboxes`

`Mailboxes` knows the recipient of every message sent and where it is: queued,
held by a connection, delivered to one, or lost. Its steps are `Post`, `Take`
(the oldest queued message of a worker), the end of a write that succeeds or
not, and `Discard` of what was queued for workers that went away. Under
`MailboxesRefinement` a send posts, `ListenImmediate` and `PopAfterWake` take,
`WriteResponse` and `WriteFails` end, every action may discard at the same
time as its evictions do, and all others stutter. A message in two places of
the broker is mapped to a place `Mailboxes` does not have, so a duplicate
refutes the refinement.

### How `Orchestrator` corresponds to the code

A slot (`Sups`) is a child's supervisor and the worker id it was given; a free
slot stands for a fresh UUID. `req[r]` is the handler of a request, over the
socket or over HTTP, and `Launcher` is the serve task during the launch.

| action | code |
|---|---|
| `Receive` | the request reaches `handle_request` or the monitor's route, and its target is resolved |
| `Signal`, `Awaited` | `signal_stop_by_name` under the mutex; the await of the `JoinHandle` outside |
| `CheckCanStart` | `check_can_start`: reap, reject or reserve |
| `PreRegister`, `PromptFails`, `Spawn`, `SpawnFails`, `CleanUp` | `build_pending_agent`, without the mutex |
| `RegisterPending`, `CancelStart` | the commit |
| `Dropped` | axum drops the handler of a client that went away, where it waits |
| `SeesShutdown`, `SeesExit`, `KillProcessGroup` | the `select!` of `supervise_agent`; SIGTERM, grace, SIGKILL |
| `FirstPoll`, `StopsInBackoff`, `BackoffEnds` | the inner `select!` between back-off and shutdown |
| `ReRegister`, `ReRegisterFails`, `Respawn`, `RespawnFails`, `DropRecord` | the restart |
| `BeginLaunch`, `LaunchNext`, `LaunchFails`, `EndLaunch` | `launch_all`, which holds the mutex |
| `BeginShutdown`, `EndShutdown` | `shutdown_all`, which holds the mutex while it waits |
| `AcceptFails`, `EarlySignal`, `Exit` | the other ways `serve` ends |
| `ChildDies`, `Expire` | the operating system; a lease that ends |

Kept: who holds the mutex, the permit that `notify_one` leaves, the attempts and
whether a run was stable. Abstracted: durations (a back-off ends at some time),
prompts and command lines, which `AgentLaunch` has, and the registry itself,
which `Broker` has; of it `records` keeps the ids that are registered and
`Registered` what `register_worker` evicts.

### How the other modules correspond to the code

- `ServeSocket`: `Exists`, `Probe`, `Remove`, `Bind` and `Listen` are the steps
  of `check_no_existing_broker` and of `UnixListener::bind`, separately, as
  another process may run between two of them. `Launched`, `Stop`, `ShutDown`,
  `CleanUp` and `Unlink` are the phases of `serve`; `Kill` ends a process
  anywhere and leaves its file. `file` is who bound the inode at the path; a
  listener whose file was unlinked still serves the connections it has.
- `AgentLaunch`: `Resolve` is `resolve_config_inner` for the agents, with the errors of
  `resolve_agent_config` in their order,
  `LaunchNext` and `PrintNext` the launch and the banner, agent by agent;
  `StartAgent`, `Respawn` and `Paste` use what was resolved before, while
  `EditPrompt` changes the prompt files. `Expire` ends the lease of a record at
  any time, `StopAgent` and `GiveUp` end a child and leave its record, `Claim`
  is the registration of an agent with the id it was given. A name is a model
  value, safe or not, with the file name that `sanitize_name` makes of it.
  Agents of one name share a boot prompt file and evict each other's records,
  and one of them at a time is started by request. An agent has one process at
  a time.
- `HeartbeatTimers`: `Fire`, `CommandEnds` and `Report` are the loop of a task
  of `start_heartbeats`. `Abort` is the call of `JoinHandle::abort` for every
  task in `shutdown_all`, which awaits none of them: a task that sleeps or waits
  for its command is dropped, one that is being polled goes on to its next wait
  (`LastPoll`) and may start one more command. `Exit` comes when the agents have
  been reaped. A dropped command runs on, because nothing kills it.
- `EventFeed`: `EmitAndRecord` and `EmitOnly` are the two ways to broadcast,
  `QueryEvents`, `QueryMessages` and `ParseTimestamp` the queries, `Stream` the
  server-sent events with their skipped lags, `AskSince` and `GetEvents` a user
  who polls. A query without a limit answers `DefaultLimit` entries at most, of
  a history that keeps more (100 of 10 000 in the code).
- `CellResolution`: `Resolve` is `resolve_config` and what it calls, `HookCell`
  the resolution of a stop hook, `AgentEnv`, `HeartbeatEnv` and `PastedEnv` what
  a broker hands on. A cell id is chosen or derived from a root.
- `ClientSession`: `ResponsePayload` lists the variants in the order in which
  serde tries them, with their fields; `Decode` takes the first that fits.
- `HookFile`, `ClaudeHooks`, `CodexHooks`: a command reads, truncates and
  writes (`tokio::fs::write`); `Compute` is the change between. A matcher entry
  is the set of whose commands it runs, and a `config.toml` a sequence of kinds
  of lines, edited line by line as `ensure_codex_hooks_feature` does.

## 3. Runs

All bounds are constants of the modules, and every one is named there. One run
switches the deadlock check off: in `commands` the last edit may leave no file
that a command accepts, and then nothing more happens. Where a program really ends
(`Orchestrator`, `ClientSession`, `AgentLaunch`, the timers, the feed at its
bound) the end is an action that stutters.

| run | question | instance | why it is enough |
|---|---|---|---|
| `mail` | Is mail delivered at most once, in order, and do the books agree? | two workers, two connections that listen as one of them, two messages, a history of one, a tick | the second message trims the first, before or after delivery and acknowledgement; the listeners race for pops, permits and writes; a worker expires with mail, and during its own poll |
| `registry` | Does a worker's state come and go as a whole? | two ids, two names, seven registrations with and without evict, id and prompt, leases of 0 and 1, two ticks, one message, one listener | every pair of registrations meets, with a lease alive, just ended and gone; the listener polls meanwhile |
| `live` | Is every listen answered, does mail drain? | two workers, a connection each, two messages, a tagline, no ticks | listeners sleep, wake, time out and listen again |
| `lifecycle` | Are reservations, children and records kept? | one managed agent, two socket requests, three slots, a budget of one restart, leases that end | each request may be a start, stop or restart, two at a time; a child dies and respawns in between; launch and shutdown at any time |
| `agents` | Is everybody answered, does a shutdown end, is an agent restarted as often as the budget says? | one unmanaged agent, a socket client and an HTTP client whose handler may be dropped, two slots | every wait of the code occurs: on the mutex, on a supervisor, on all supervisors under the mutex |
| `socket` | Who serves, and does everybody get an answer? | three processes that start again after each end, one client | the third process starts between the steps of the other two; the client may be in any backlog |
| `vendor_hooks` | Do the commands keep the user's part and take effect? | two overlapping commands, an edit, on every kind of Claude file; one command after another on every `config.toml` of at most three lines | header, key and another table in every order; kills between any two steps |
| `commands` | Which broker, which answer, which prompt? | two projects, one chosen cell id, two brokers started with any `--config`, a bare file name included, two shells, two edits; every command and answer; two agents of different names with 38 pairs of tables, two versions of their prompts | a child of one broker below another; a broker of the empty path and a project's broker meet commands from both directories, before and after the file changes; each field of each answer present, null or empty; names that collide after sanitising; a stop, a respawn, an expiry and an edit between a start and the registration |
| `tasks` | Does a follower miss anything, does a stream go on? Do timers keep their distance, go on and wind down? | three events, a history of two, an answer of one, a channel of one, two ticks, a window of a second; intervals of 1 and 3, a delay for one of them | an answer is full and leaves an event out; the second event makes a browser lag, the third trims the history; events share a second and do not; one timer fires while the other waits, runs or reports; the aborts meet tasks that sleep, wait, report and are being polled |

In `mail` connections are interchangeable, in `lifecycle` slots and requests,
in `commands` shells, brokers and projects: no action, constant or property
tells them apart. The runs with liveness use no symmetry.

Three more runs show where the code and its documentation part; each checks the
documented claim and TLC refutes it:

| run | claim | what happens instead |
|---|---|---|
| `lost_response` | `delivered_at`: "when the message was delivered to the recipient" (`protocol.rs`) | it is set at the pop; a response that cannot be written loses the message |
| `stop_start` | starting errors "if ... an instance is already running" (`orchestrator.rs`) | a stop untracks the agent before its child is killed; a start in between makes a second child |
| `gives_up_late` | "After **5 consecutive unstable failures** the supervisor gives up" (`README.md`, and the doc of `supervise_agent`) | the fifth failure leads to a fifth restart; the supervisor gives up at the sixth |

### Further instances

These configurations are not runs, but are kept because a reader may want to
repeat them. Two hold: under `MCFollow` the queries of `EventFeed` answer what
a reference definition says, for all filters and limits (`EventsAnswered`,
`MessagesAnswered`); under `MCEvents` the event log of `Broker` has one delivery
of a message, after it was sent (`EventCausality`). TLC refutes these, each on a
few steps:

| configuration | module | claim | what happens instead |
|---|---|---|---|
| `MCSpuriousTimeout` | `MCBroker` | `BlocksUntilMessageOrTimeout` ("blocks until a message arrives or the timeout is reached", `examples/dispatch-comms.md`) | an immediate delivery leaves the permit of its message; the next listen returns a timeout at once |
| `MCResurrected` | `MCBroker` | `PrunedUpFront` (every other entry point prunes first: comment in `register_worker`) | `team` and `send` renew the caller first, expired or not |
| `MCStaleListener` | `MCBroker` | `ListenerWoken` ("Wake any long-polling listener": comment in `send_message`) | a listener whose worker expired during its poll waits on the dropped `Notify` |
| `MCDroppedStart` | `MCOrchestrator` | `ReservationOwned`, with HTTP clients that may go away | the handler is dropped between reservation and commit, and the name stays reserved |
| `MCStartDuringBoot` | `MCOrchestrator` | `StartExclusion`, with requests over HTTP | the monitor serves before `launch_all`, which does not look at reservations |
| `MCStartDuringShutdown` | `MCOrchestrator` | `NoChildAfterShutdown` | a start that was building commits after `shutdown_all` |
| `MCSocketStolen` | `ServeSocket` | `RemovesOnlyStale` ("Stale socket file from a previous crashed run") | two overlapping starts probe the same dead file; the second unlinks what the first has bound |
| `MCClaudeOverlap` | `ClaudeHooks` | `OverlapsKeepEntries` | two commands at a time: one reads the file the other has truncated |
| `MCClaudeTwoFiles` | `ClaudeHooks` | `HookGone` | `settings.json` appears after an install into `settings.local.json`; the uninstall looks at one file |
| `MCClaudeShared` | `ClaudeHooks` | `UserEntriesKept`, when the user adds a command to our matcher entry | the uninstall removes the entry as a whole |
| `MCCodexComments` | `CodexHooks` | `InstallEnables`, on headers followed by a comment | such a header is not recognised, a second table is written and the file does not parse |
| `MCBareConfig` | `MCCellResolution` | `OwnCell` ("The cell_id already encodes the project identity", comment in `local.rs`) | the directory part of `--config dispatch.config.toml` is empty, and all projects named so share the cell of the empty path |
| `MCPastedHook` | `MCCellResolution` | `HookAgreesWithClient` ("the same precedence the regular client uses") | a command pasted below another broker's agent inherits that one's socket; hook and client order the variables differently |
| `MCSameName` | `MCCommands` | `IdComplete`, for two agents of one name, which `config.rs` does not reject | they share a boot prompt file: an agent reads the other's id |
| `MCShortAnswer` | `EventFeed` | `NothingCut`: asking for what is new since the newest event seen shows everything | the answer gives the newest events only; what lies between is never asked for again |
| `MCCommandLeft` | `MCTasks` | `NoCommandLeft` | an aborted timer drops its command, which runs on |

Seen while reading, too small for a module: `register --for-agent` exits 0 for
an empty stored prompt; an error in an agent's table exits 1 where an invalid
configuration exits 2 (`main.rs`); `after = 0` means "no `after`"
(`start_heartbeats`), so the first command runs after `every` seconds.

### Properties

Each property is stated in a comment at its definition, and `PROJECT.json`
names for each a mistake in the code that TLC shows to break it.

- Mail: `AtMostOnce`, `DeliveredInOrder`, `BooksAgree` (histories and counters
  against queues and tasks), `AckByRecipient`, `MailOnlyToLive`,
  `NoLostWakeup`, `ImplementsMailboxes`; liveness `ListenAnswered`,
  `MailDrained`.
- Registry: `NoPartialState`, `PromptBelongs`, `RemovalJustified`, `FreshStart`.
- Agents: `StartExclusion`, `ReservationOwned`, `EveryChildAttended`,
  `NoZombieRecord`, `RestartBudget`; liveness `RequestsAnswered`,
  `ShutdownEnds`; of what they are given, `IdComplete`, `PromptReceived`.
- Sockets: `AloneSucceeds`, `Reachable`; liveness `EveryoneDecided`.
- Commands: `ChildrenBound`, `ProjectsApart`, `AnswerKept`, `PromptOrFailure`.
- Hooks: `UserPartKept`, `CommandsTakeEffect`, `NotClobbered`.
- Timers and feeds: `Spaced`, `TimersWindDown`, `FollowerMissesNothing`;
  liveness `KeepsFiring`, `StreamCatchesUp`.

Some are weaker than one might wish, because the code does not give more.
`NoLostWakeup` is about one listener for each worker: a `Notify` stores a
single permit, so with two listeners two sends wake one of them, and the other
sleeps out its timeout. `Reachable` and `UserPartKept` exclude overlapping starts and
overlapping or killed commands; the configurations above show what happens
then. `RestartBudget` allows as many restarts as the documentation allows
failures, which is one failure more (`gives_up_late`). `ProjectsApart` exempts
commands that name the configuration file without its directory (`MCBareConfig`),
not the brokers that were started so. `IdComplete` is about agents of different
names (`MCSameName`). `PromptReceived` allows no prompt at all, as a lease may
end before the agent registers. `FollowerMissesNothing` counts as covered by a
full answer only the time after its oldest event (`MCShortAnswer`). The
properties of `lifecycle` are about requests over the socket: the
monitor serves HTTP before the agents are launched and drops handlers whose
clients go away.

### Fairness

- `Broker`: weak fairness of each connection's handler (`HandlerFairness`).
  tokio polls every woken task again, the mutex is fair, and a long poll has a
  timer. `ClientFairness`: an agent listens again after each response, as
  `examples/dispatch-comms.md` tells it to; `ListenAnswered` needs only the
  first. Neither says that a response reaches its client, and nothing makes
  agents register, send, or keep their leases: `live` runs without ticks.
- `Orchestrator`: weak fairness of each handler, each supervisor and the serve
  task, for the same reason; back-offs and grace periods have timers. Nothing
  makes children die, requests arrive or the shutdown begin.
- `ServeSocket`: a process that started goes on to serve or fails, one that is
  told to stop goes on ending; a serving process accepts and answers. Nothing
  makes a process start, stop or crash.
- `HeartbeatTimers`: time passes and woken tasks run. Nothing makes a command
  end, so `KeepsFiring` is also true of a timer whose command hangs.
- `EventFeed`: a browser's stream is polled. In `tasks` the part that a behaviour
  is not about keeps its first state, in which no fair action is enabled.
  `ClientSession`, `AgentLaunch`,
  `CellResolution` and the hooks state safety only and need no fairness.

## 4. Proofs

The theorems hold under the named `ASSUME`s of the modules, which TLC evaluates
in the runs, and for any values of the constants: workers, clients, messages,
registrations and caps; names, requests, slots and budgets; processes; timers;
directories and cell ids; agents' tables; histories, channels and windows;
edits of the hooks' files and the number of lines of `config.toml`.

| theorem | module | statement |
|---|---|---|
| `TypeCorrect` | `BrokerProofs` | `Spec => []TypeOK` |
| `NoPartialStateHolds` | `BrokerProofs` | `Spec => []NoPartialState` |
| `PromptBelongsHolds` | `BrokerProofs` | `Spec => []PromptBelongs` |
| `AckByRecipientHolds` | `BrokerProofs` | `Spec => []AckByRecipient` |
| `MailOnlyToLiveHolds` | `BrokerProofs` | `Spec => MailOnlyToLive` |
| `RemovalJustifiedHolds` | `BrokerProofs` | `Spec => RemovalJustified` |
| `FreshStartHolds` | `BrokerProofs` | `Spec => FreshStart` |
| `UniqueNamesHolds` | `BrokerProofs` | `AllEvict /\ Spec => []UniqueNames` |
| `StatusRingHolds` | `BrokerProofs` | `Spec => []StatusRing` |
| `AtMostOnceHolds` | `DeliveryProofs` | `Spec => []AtMostOnce` |
| `DeliveredInOrderHolds` | `DeliveryProofs` | `Spec => []DeliveredInOrder` |
| `NoLostWakeupHolds` | `DeliveryProofs` | `OneListenerEach /\ Spec => []NoLostWakeup` |
| `HistoryAgreesHolds` | `DeliveryProofs` | `Spec => []HistoryAgrees` |
| `BooksAgreeHolds` | `DeliveryProofs` | `Spec => []BooksAgree` |
| `ImplementsMailboxesHolds` | `DeliveryProofs` | `Spec => ImplementsMailboxes` |
| `TypeCorrect` | `OrchestratorProofs` | `Spec => []TypeOK` |
| `RestartBudgetHolds` | `OrchestratorProofs` | `Spec => []RestartBudget` |
| `StartExclusionHolds` | `OrchestratorProofs` | `NoneDropped /\ Spec => []StartExclusion` |
| `ReservationOwnedHolds` | `OrchestratorProofs` | `NoneDropped /\ Spec => []ReservationOwned` |
| `EveryChildAttendedHolds` | `OrchestratorProofs` | `NoneDropped /\ Spec => []EveryChildAttended` |
| `NoZombieRecordHolds` | `OrchestratorProofs` | `NoneDropped /\ Spec => []NoZombieRecord` |
| `TypeCorrect` | `ServeSocketProofs` | `Spec => []TypeOK` |
| `AloneSucceedsHolds` | `ServeSocketProofs` | `Spec => []AloneSucceeds` |
| `ReachableHolds` | `ServeSocketProofs` | `Spec => []Reachable` |
| `TypeCorrect` | `HeartbeatTimersProofs` | `Timers!Spec => []Timers!TypeOK` |
| `NeverOverlapsHolds` | `HeartbeatTimersProofs` | `Timers!Spec => []Timers!NeverOverlaps` |
| `SpacedHolds` | `HeartbeatTimersProofs` | `Timers!Spec => Spaced` |
| `TimersWindDownHolds` | `HeartbeatTimersProofs` | `Timers!Spec => []TimersWindDown` |
| `ChildrenBoundHolds` | `CommandsProofs` | `Spec => []ChildrenBound` |
| `ProjectsApartHolds` | `CommandsProofs` | `Spec => []ProjectsApart` |
| `IdCompleteHolds` | `CommandsProofs` | `DistinctNames /\ Agent!Spec => []IdComplete` |
| `PromptReceivedHolds` | `CommandsProofs` | `DistinctNames /\ Agent!Spec => []PromptReceived` |
| `AnswerKeptHolds` | `CommandsProofs` | `Client!Spec => []AnswerKept` |
| `PromptOrFailureHolds` | `CommandsProofs` | `Client!Spec => []PromptOrFailure` |
| `TypeCorrect` | `EventFeedProofs` | `Spec => []TypeOK` |
| `FollowerMissesNothingHolds` | `EventFeedProofs` | `Spec => []FollowerMissesNothing` |
| `EventsAnsweredHolds` | `EventFeedProofs` | `Spec => []EventsAnswered` |
| `MessagesAnsweredHolds` | `EventFeedProofs` | `Spec => []MessagesAnswered` |
| `TypesOKHolds` | `HooksProofs` | `MCSpec => []TypesOK` |
| `UserPartKeptHolds` | `HooksProofs` | `~ SharesEntry /\ NoComments /\ MCSpec => []UserPartKept` |
| `CommandsTakeEffectHolds` | `HooksProofs` | `NoComments /\ MCSpec => []CommandsTakeEffect` |
| `NotClobberedHolds` | `HooksProofs` | `MCSpec => NotClobbered` |

`Broker`:

- `TypeOK` is inductive. A lemma for each action shows that the action keeps
  it, on top of lemmas about partial maps, trimmed queues and `Notify` objects.
- `RegistryInv`, the conjunction of `NoPartialState` and `PromptBelongs`, is
  inductive with `TypeOK`. The argument is about re-used ids: whatever a
  registration inserts under an id, the eviction before it has removed all that
  was left there, because nothing was left under an id without a record.
- `AckByRecipient` is inductive with `TypeOK`: `sent` only grows.
  `MailOnlyToLive` is a property of single steps and needs only the types.
- `RegistrySteps` sorts the steps by what they do to the registry: most leave it
  alone or only evict (`EvictingStep`); registrations, removals, `Team` and
  `Send` remain. `FreshStart` follows from it and the types. `RemovalJustified`
  also needs `LeaseInv`, that no lease runs longer than its ttl: the renewal at
  the start of team and send could otherwise end the lease of a worker that is
  still live. `UniqueNames` is inductive if every registration evicts
  (`AllEvict`), as `examples/dispatch-comms.md` tells agents to do.
- `AtMostOnce` and `DeliveredInOrder` are not inductive: a mailbox with a
  foreign or repeated message satisfies both and breaks them one pop later.
  `MailInv` adds what is missing. A mailbox holds messages sent to its worker,
  in ascending order (`MailboxInv`); what a connection holds or has written is
  older than what is queued for the same worker (`HandInv`); what it holds is
  younger than what it has written (`ClientInv`); no two connections share a
  message (`DisjointInv`). Four lemmas cover the ways a step moves messages
  (mailboxes removed, a message sent, one popped, one written), and every
  action is one of the four. Note that nothing in `MailInv` mentions `Notify`:
  at-most-once delivery does not depend on who is woken.
- `NoLostWakeup` needs `WakeInv`. `OwnerInv`: a `Notify` serves one worker and
  is held by one connection, which listens as that worker; this is where
  `OneListenerEach` (no two connections listen as one worker) is used.
  `QueueInv`: a connection that waits is queued or notified, not both, and
  nobody else is. `PermitInv`: mail that came after the lock was released has
  left a permit for the first poll, or has notified the sleeper. Without
  `OneListenerEach` it is false: of two connections that wait for one worker a
  permit wakes one, and the other goes to sleep next to the mail.
- `HistoryAgrees` is one half of `BooksAgree`. `HistInv` says it of what a
  connection holds or has written, and adds that the history has only ids of
  messages that were sent. A pop takes a message from the only queue it is in,
  which is what `MailInv` says. The other half, `CountersAgree`, is inductive
  with `MailInv` and the fact that a connection that has popped has a message
  (`CounterInv`): what is counted and what may still be counted are disjoint
  sets of messages, so that a step moves one message at most from the second
  to the first, and the counter by one. `StatusRing` is inductive with the types, on a
  lemma about what `PushStatus` does to a ring (`PushRing`).
- The refinement follows from `TypeOK`, `MailInv` and `WaitingInv` (a
  connection has no message in hand before a pop). `PlaceFacts` says, without
  the `CHOOSE` of the mapping, where a message is; each action is then one of
  five kinds of steps of `Mailboxes` (`StutterStep`, `DiscardStep`, `PostStep`,
  `TakeStep`, `EndStep`). That a pop takes the oldest message is where
  `MailInv` is needed.

`Orchestrator`:

- `RestartBudget` counts restarts, the code counts attempts, and it alone is not
  inductive. `BudgetInv` relates the two: they are the same while a child runs,
  and an attempt has begun between its exit and its respawn. It adds that a slot
  belongs to one request, and that nothing runs in a slot before it is spawned.
- The four properties of starts and children need each other: a name is
  reserved by one builder because it is not tracked, it is tracked once because
  it was reserved, and a child is attended because its builder is the only one
  to hold its slot. `LifeInv` is the inductive conjunction: `BudgetInv`, the
  phases that fit each kind of request (`PhasesOK`), names of builders and
  agents (`NamesOK`, `OwnedOK`, `ExclusionOK`), who attends each child
  (`AttendedOK`) and what is behind each record (`RecordsOK`).
- `NoneDropped == Droppable = {}` says that requests come over the socket only,
  whose handlers are never dropped and which is served from the end of the
  launch on. It is needed: with HTTP `MCDroppedStart` and `MCStartDuringBoot`
  refute what is proved here.

`ServeSocket`: `AloneInv` follows a process that is alone from its probe to its
bind: the file it meets is of a process that is down. `SerialInv` says that, as
long as starts have not overlapped, at most one process is between probe and
clean-up past the bind, and the file is its own. `HeartbeatTimers`: `TimersInv`
says that `idle + left` is at least the interval while a task sleeps, and that a
command runs only under a task that waits for it or was aborted. A task whose
abort came too late (`"aborting"`) was due, so that the command it may start
keeps its distance, too; it is the only one after the abort, because the task
is aborted when that poll ends.

`CellResolution`:

- `CellInv` says what a slot remembers of the broker it came from: the cell, for
  an agent also the socket, and for all but heartbeats the configuration
  (`Below`); and that a broker whose cell id nobody chose has the cell of its
  file, of its own directory or of the empty path (`AtHome`). A broker that is up does not change what
  it has resolved, so edits of the files disturb neither. `ChildrenBound` then
  needs no more than the order in which `Resolve` looks at flags, environment
  and files.
- `ProjectsApart` holds with brokers that were started with a bare file name,
  too: their cell is that of the empty path, which is no project's directory. Only
  a command that gives a bare name itself gets there, from any project; this is
  what `MCBareConfig` shows.

`AgentLaunch`:

- `LaunchInv` distinguishes two times. Before the tables are resolved, or when
  they are refused, nothing was given to anybody (`Untouched`). Afterwards
  (`Underway`) the agents are resolved (`Ready`), what each was given or printed
  is its own (`Own`: the id comes with the boot prompt, and the record, as long
  as there is one, has the prompt of the start or none) and whose
  turn has not come has nothing (`Ahead`). A lemma for each way to start an
  agent shows that the record and the boot prompt file it writes are its own,
  another that it leaves those of the others alone. A record that expired may
  come back in two ways: a registration inserts it without a prompt, a respawn
  with the prompt of the first start.
- Boot prompt files are named after sanitised names. Names are safe when they
  get that far, so different names give different files: this is where
  `DistinctNames` is used (no two tables of a file have a name). The
  code does not check it; of two agents with one name the second overwrites the
  boot prompt of the first (`MCSameName`).

`ClientSession`:

- A response carries no tag, so the client takes the first kind of payload whose
  fields fit. `DecodesAs` says when that is the kind it was sent as: its fields
  are there and none of the kinds tried before fits. `PayloadNeeds` names for
  each kind a field that keeps the others out, and `DecodedAnswer` goes through
  the kinds that handlers send. An empty list of statuses fits the kind of a
  team, with the same field, so that what is printed is the same.
- `SessionInv` says that before the end of a command nothing was printed
  (`Asking`), and that at the end an exit code of 0 goes with what was decoded
  from the answer, read once (`Ended`). With `None \notin Errors`, as an error is
  never the absence of one, both properties follow.

`EventFeed`:

- `FeedInv` relates the history to what was emitted (`LogInv`) and the user to
  the history (`UserInv`: what is still kept of the time covered has been seen).
  An event that is emitted now is not of that time, since the time covered ends
  before now; a query that reaches back to the end of it adds all that is kept
  (`QueryFacts`), and one that does not starts a new time. The history is sorted
  by time (`Sorted`), so what a full answer leaves out is no younger than its
  last event (`Answering`), and the time it covers begins after that.
- What a query answers is proved by induction over the length of the history,
  for all histories, filters and limits: `Backwards` computes the matching
  entries, newest first (`BackwardsFacts`), and the limit cuts all but the newest
  (`ChosenFacts`). The induction theorems of the library take an operator as a
  parameter; `Least`, that a set of numbers has a least element, replaces them:
  a least counterexample is refuted. `EventsAnswered` and `MessagesAnswered`
  follow in every state in which the histories are sequences.

Hooks:

- Both files change in two steps, truncation and writing, and a command works on
  what it read before. `ClaudeInv`, the invariant for Claude's files, therefore
  follows what is in hand as well as what is on disk. A command that is going to
  write has an object with our entry in it once, if it installs (`StateOK`), and
  a file that it may write (`MayWrite`: an object that others may truncate and
  rewrite but not make unreadable; `NotClobbered` follows). Each file has the
  user's part, or a command between truncation and writing has it in hand
  (`InHands`), as long as commands run one at a time (`Alone`) and to their
  ends. `JsonInv` says the same of Codex's `hooks.json`. TLC checked the
  conjunction `HooksInv` on the instance of `MCVendorHooks` first.
- `TomlInv` is about `config.toml`: it parses, and what `EnsureFeature` is about
  to write turns the feature on and keeps the user's lines. The code edits text;
  whether a key is in the features table is up to the headers above it.
  `EnsureOK` considers the three cases of the code. Setting a key leaves every
  line in its table (`KeySet`); a key after the last line of the features table
  moves what follows one line down and keeps it in its table (`KeyInserted`);
  a table at the end is in nobody's way (`TableAppended`). That it is the only
  features table is what makes the file parse.
- `NoComments` (no header has a comment) is needed: the code compares whole lines
  and writes a second features table below a header with a comment, which
  `MCCodexComments` shows. So is `~ SharesEntry`: an uninstall removes the
  whole entry that has our command (`MCClaudeShared`).
- Which entries and lines a command keeps is `Picked(s, positions)`, defined by a
  recursive function. `PickedFacts` says what it contains and how often, for
  sequences of any length, by the same argument about a least counterexample as
  in `EventFeed`.

Only model-checked: `EventCausality` of the broker (under `MCEvents`), and liveness, which is out of
the prover's reach. No module uses a RECURSIVE operator.

## 5. Not modelled

- The monitor's page, the installer and the example scripts are outside the
  program. Of the monitor's routes those that only read and format (health,
  logs, prompts, the configuration listing) are left out.
- Setting up and rotating logs is I/O. The template that `init` writes is text.
- Widths: `now + ttl` of a lease near 2^64 seconds overflows in the code; the
  clock of the model is bounded far below. `EventFeed` has the width of the
  multiplication in `ParseTimestamp`, where a user's number meets it.
- `ack_log` and the boot prompt files grow without bound; no property is about
  memory.
- The event log has no complete record of removals: only `listen` records
  expiries, so no property of the log claims it.

## 6. Plan

1. *Done:* the modules of section 2, their runs, and the proofs of section 4.
2. Proofs: `EventCausality`, which needs an invariant about where the events of
   a message stand in the log.
3. A composition of `Orchestrator` with `Broker` instead of its abstraction of
   the registry, to relate an agent's claim with the supervisor's re-registration.

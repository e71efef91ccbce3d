# Spectrum: TLA+ models, checks and proofs

Spectrum is a desktop application and a command line, in one TypeScript
monorepo, that runs coding agents ("harnesses") over the Agent Client Protocol
and routes their model traffic through a local proxy. This directory models the
parts of it whose correctness depends on the order in which things happen. Paths
below are relative to the root of the repository (`src/` in `PROJECT.json`).

## 1. The system

Everything runs in one Bun process plus one webview. The process is
single-threaded: what makes it hard is not threads but *suspensions* (an `await`,
a microtask, a timer, a child process that has not exited yet) between reading a
piece of state and acting on it, and exits of the process between two writes.

| Component | State | Operations | Talks to |
| --- | --- | --- | --- |
| run manager, `packages/agent-driver/src/manager.ts` | maps `live`, `resuming`, `harnessOf`, `nameSource`, `nameAbort` | `launch`, `handleInbound` (send, approve, answer, interrupt, set-mode, set-model, ...), lazy resume, end of a root runner | session store, event store, driver, webview |
| agent runtime, `packages/driver-runtime/src/runtime.ts` | per agent: `handle`, `queue`, `closed`, pending approvals and questions | `start`, `send`, `interrupt`, `respondApproval`, `close` | adapter, run manager (callback) |
| session store, `packages/sessions/src/store.ts` | SQLite rows with `endedAt` | `create`, `close`, `reopen`, `reconcileOrphaned`, names, resume ids | database |
| event store, `packages/run-store/src/store.ts` | SQLite rows, `seq` per session | `append`, `read` | database |
| ACP driver, `packages/driver-acp` | connection, current prompt, modes | `start` (connect, initialize, load or new, set mode), prompts, permission requests | agent process |
| reducer and runner view, `packages/agent-events`, `apps/desktop/views/main/stores` | the displayed run, the outbox of optimistic sends | `reduce` per event, confirm, retry | run manager through the runner socket |
| provider host, `packages/provider-host/src/host.ts` | map of `Instance` records: status, generation, process, `inflight`, restart budget | `ensureRunning`, `stop`, `stopAll`, `stopAllFor`, `retainOnly`, `onExit` | plugin processes, flow runner, composition |
| flow runner, `packages/provider-host/src/flow-runner.ts` | sessions, starting, interrupted, deadlines, completions | `start`, `advance`, `cancel`, `abandon`, `takeCompletion` | provider host |
| extension lifecycle, `packages/extensions`, `packages/runtime-core` | installed directories, config entries, live registries | install, update, remove, enable, refresh | config store, provider host, flow runner |
| contributions, `packages/extensions` (plan, sources, git, registry), `packages/cli/src/plugin-command.ts` | the plugin root, the records of two processes | install, link, update, remove | git, file system |
| config store, `packages/config`, and its handlers in `ipc/handlers.ts` | file, cache cell, schema version | `load`, `save`, migrate; edits of providers, models, preferences | file system, command line, settings pages |
| session library, `packages/projects`, `packages/data-admin`, `projectsStore.ts` | rows of projects and sessions, who named them, the lists of the window | launch, rename, delete, purge, list | run manager, name generator |
| data directories, `packages/platform`, `packages/runtime-core/src/migrate-*.ts`, `reset-app.ts` | one directory per release channel | copy from earlier builds, factory reset | keychain, every store |
| terminal manager, `packages/pty` | map of live shells | launch, input, resize, close, exit | shells |
| proxy, `packages/proxy`, `gateway`, `models-router` | instance cache, one stream per request | authenticate, route, convert, relay | harnesses, model providers |
| proxy processes, `main.ts`, `launch-command.ts`, `runtime-state.ts` | the port, the key file | start, reuse, stop | agents, command line |
| launches, `resolve-path.ts`, `launch.ts`, `tray.ts` | the PATH of the process | ask the login shell, resolve a command, spawn | login shell, harness binaries |
| windows, `window.ts`, `window-bounds*.ts` | bounds, focus flag | open, move, save bounds, navigate | config store |
| notices, `composition.ts`, `app.tsx`, `notifications-model.ts` | root runners seen, toasts | classify frames | event stream |
| composer, `RunDetail.tsx`, `useUploads.ts`, `useComposerModeModel.ts` | the tray of attachments, the dropdowns | ingest, send, choose | run manager, `ingest-uploads.ts` |
| settings pages, `ProvidersPage.tsx`, `ModelsPage.tsx`, `useAsyncResource.ts` | drafts, probes, lists | probe, test, save | model lister, provider tester |
| start-up, quit gate, watchdog, updater | bursts, timers, a phase | see the modules | window, sockets |
| secrets, IPC schemas, presentation | little or none | I/O, conversion | |

What makes each component correct:

- *Runs*: at most one agent per session; the handle, the persisted row and the
  agent agree; a turn reaches a harness at most once, in order, and is persisted
  first; the manager leaves no accepted turn behind; a restart ends exactly the orphaned runs.
- *Providers*: at most one child per instance key, and always one that `stop`
  would reach; a stop cancels the start it meets; a crash is restarted, within a
  budget, and charged to the right child; a start always settles.
- *View*: replaying the backlog shows nothing twice; every optimistic send is
  confirmed or reported.
- *Flows*: one terminal outcome; secrets taken at most once; no child outlives it.
- *Config and extensions*: no lost update, no half-installed extension; a document of any
  earlier version can still be read; a factory reset leaves nothing to come back.
- *Proxy*: whoever is sent to it holds its key; what each side is told is what the other said.
- *Windows*: what a page shows belongs to what is in it, and the end of a run is told as it
  happens, once.

`PROJECT.json` lists the hazards line by line.

## 2. What is modelled

### RunManager.tla

The run manager over the agent runtime, the session store and the event store.
One action is what runs between two suspensions.

| TLA+ | Code |
| --- | --- |
| `row[s]` | the session row: `absent`, `open` (`endedAt` is null), `ended` |
| `live[s]` | `live.get(s)`; an agent stands for the `AgentSession` and its root runner |
| `resuming`, `queued[s]` | the map `resuming`: its keys and its arrays |
| `stage[a]` | `resolving`: `doResume` awaits `resolveResumeInput`; `scheduled`: started, the announcing microtask is pending; `connecting`: the adapter's `start` is pending; `ready`; `over` |
| `queue[a]`, `handed[a]` | the runtime's `queue`; the commands its adapter has been given |
| `log[s]` | the persisted canonical events that matter here: root started, user turn, root finished |
| `Launch`, `LaunchRefused` | `launch`, with `driver.start` accepting or refusing |
| `SendLive`, `SendQueued`, `SendResumes`, `SendUnknown` | the four ways a `run-send` goes |
| `ResumeStarts`, `ResumeRefused` | the rest of `doResume` |
| `InterruptLive`, `InterruptIdle` | `run-interrupt` |
| `AnnounceRoot`, `AdapterReady`, `AdapterFails`, `RootFinishes` | the runtime and the adapter; the last two run `wireOnEvent`'s closing branch (`FinishRoot`) |
| `Crash`, `Restart` | exit of the process; `reconcileOrphaned` at the next start |

`sentTo`, `discarded` and `orphaned` are history: no action's guard reads the
last two, and `sentTo` only numbers the turns. `orphaned` holds the sessions
whose queue an interrupt emptied while a resume was suspended.

Modelled elsewhere: attachments (`Uploads`), naming (`SessionLibrary`), approvals and
questions (`AgentSession`), mode, effort and model (`SessionSettings`), the replay of the
backlog (`Conversation`). Left out: the initial prompt of a launch, which the adapter sends
itself; failures of the database, which is local and synchronous. `resolveResumeInput` is assumed to settle without rejecting, as its
only implementation does. `runtime.ts` also closes an adapter that becomes ready
after `close`: the manager only closes an agent from the end of its root, which
a connecting adapter reports by failing, so this cannot be reached here.

### TurnDelivery.tla

The abstract promise: each turn is `unsent`, `waiting`, `entrusted`, `handed` or `discarded`;
the last two are final, and no turn is `waiting` for ever. `RunManager` implements it
under the mapping `Fate`, which looks for the turn in `discarded`, in `handed` and in the queues
of connecting agents. Those are `entrusted`: nothing limits the time an agent takes for its
handshake (`adapter.ts:95-178`, `runtime.ts:117`), so a mute one may keep a turn for ever. Where
every start is answered (`AgentsAnswer`), every turn is settled (`AllSettle`).

### ProviderHost.tla

A start is one call of `startOnce` and also the child it spawns. A record is one
`Instance` object; records are kept apart from the map (`instances`), because a
suspended start keeps the object it found while `retainOnly` deletes it from the
map, whereas `onExit` and a waking restart look the key up again.

| TLA+ | Code |
| --- | --- |
| `status`, `generation`, `process`, `inflight`, `restarts` | the fields of `Instance` |
| `stage[c]` | `sleeping`: in the backoff of a restart; `launching`: awaiting the registry or a port; `probing`: in `waitForReady`; `settled`: returned, `inflight` not yet cleared |
| `child[c]` | `alive`; `exited`: dead, its handler has not run; `reported` |
| `EnsureRunning` | `ensureRunning` when it starts something. Returning the running child or joining `inflight` changes nothing and is no action |
| `Wake`, `LaunchFails`, `Spawn`, `Ready`, `NotReady`, `ClearInflight` | `startOnce` and its two callers |
| `ExitIgnored`, `ExitExhausts`, `ExitRestarts` | `onExit` |
| `Stop`; `Retire`, `Forget` | `stop`, also as called for each key by `stopAll` and `stopAllFor`; the two halves of `retainOnly` around its `await` |

Whether an instance was up for `STABLE_UPTIME_MS` is a choice (`stable`). While
`retainOnly` is between its two halves only microtasks run, so timers, sockets
and exits of children wait (`NewTask`). Two overlapping calls of `retainOnly`
that retire the same key at once are one in the model. `byProvider` mirrors the
keys of `instances` and is left out, as are ports, tokens, secrets and manifests;
refusals of the registry, the allocator and the spawner are `LaunchFails`.
`raced` and `missed` are history, and no guard reads them.

### FlowRunner.tla and SetupFlow.tla

`FlowRunner` is the engine of `packages/provider-host/src/flow-runner.ts`: a flow is
one call of `start`, the other calls are those of `advance`. `SetupFlow` extends it
with the two other parties of a setup dialog: the IPC handlers (`startProviderFlow`,
`advanceProviderFlow`, `cancelProviderFlow` and `persistFlowCompletion` in
`apps/desktop/src/gui/ipc/handlers.ts`) and the hook of the window
(`useProviderFlow.ts`, with the effects of `ProvidersPage.tsx`).

| TLA+ | Code |
| --- | --- |
| `starting`, `sessions`, `completions`, `deadlines`, `interrupted`, `abandoned` | the runner's maps, keyed by flow |
| `inFlight`, `stepCount`, `home` | `inFlight`, `stepCount`, `pid` of a session |
| `child[f]`, `pid[f]` | the flow's instance in the provider host, reduced to its status and to which process it is |
| `Start`, `SpawnFails`, `OpenFlow`, `Opened` | the four stretches of `start` between its awaits |
| `Advance`, `Verified`, `Posted` | the three of `advance`; `StopResolves` is the `await host.stop` at the end of either |
| `Cancel`, `Expire`, `Sweep` | `cancel`, the deadline's timer, `abandon` as called by `retainConfiguredInstances` |
| `HandlerTakes`, `Opens`, `Persists` | the rest of a handler: `openExternalGuarded`, and the drain and save of a completion |
| `UserStarts`, `UserCancels`, `UserSubmits`, `Polls`, `Receive`, `Loses`, `Unmounts` | the hook: its generation, session, step and poll timer |

A reply takes any time or is lost; a request reaches its handler at once, since the
socket keeps the order of one renderer's requests. The contents of forms, the
limits on their size and the validation of URLs are left out: a step is one of
`form`, `await`, `open`, `done`, `error`.

### Timeline.tla and Conversation.tla

`Timeline` is `reduce` of `packages/agent-events`, one operator per case, over events
that keep what the reducer tells apart: type, runner, identity, text as a sequence of
chunks. `ReplayKeeps` says of a log what a second replay of it may do. `Conversation` is one session from the log of the run manager to the window:
the runner socket of both sides, the fan-out of `runnerClient.ts`, `runViewStore`,
`outboxStore`, the effects of `RunDetail.tsx` and `app.tsx`, and the start watchdog.

| TLA+ | Code |
| --- | --- |
| `store`, `live`, `working`, `queue`, `resumes` | what `RunManager` models in depth, here for one session |
| `up`, `down`, `buffer`, `sock`, `ever` | the frames of the runner socket and its reconnection |
| `view`, `busy` | the slice of `runViewStore` |
| `entries`, `timers` | the outbox in local storage, and its acknowledgement timers |
| `mounted`, `listening`, `isOpen`, `skip`, `watch`, `reattachDue` | the view, its listener, `openSessionIds`, `skipAttachIds`, `useStartWatchdog`, the effect of `app.tsx` |
| `TurnEnds`, `TurnFailed` | the end of a prompt; a failed one leaves a row that has no message id |
| `Delivers` | `dispatch`: both listeners reduce the frame, then the outbox is reconciled |
| `Drops`, `Reopens`, `Reattaches`, `Leaves`, `Comes`, `Reloads` | what befalls the window |

Each listener of a session is registered once and never removed, as in the code.

### AgentSession.tla

One agent behind the protocol: `runtime.ts` over `packages/driver-acp`. `Connects`,
`Initializes`, `Opens`, `Settles` are `start` of the adapter between its awaits;
`Flush` is the runtime's side of its end, `StartFails` that of its failure, which does nothing to a
process that was spawned; `Closes` is `close`, which the manager calls for a session whose run has
ended and others may call at any time; `Prompts`, `PromptEnds` and `EndOf` are
`runPrompt`. The agent answers, refuses and dies as it likes (`AgentUpdates`,
`AgentAsks`, `AgentAnswersMode`, `AgentDies`); its answers to requests for a mode may
come in any order, so `sets` is a set. `PickMode`, `PickOption` and
`MapAcpUpdate` are the conversions a property needs, by what they choose.

### SessionSettings.tla

What a dropdown of the composer chooses, from the click to the option of the agent: the slice
of the view and what is remembered for the harness (`slots`, `prefs`), the commands on the
socket, the manager that resolves a model's environment (`resolving`) before it hands the
choice on, the agent that offers options, takes one, refuses or switches by itself (`has`),
and the annotations that fold back into the view. Runs end and are resumed, the socket drops,
the application restarts.

### ExtensionLifecycle.tla and Contributions.tla

`ExtensionLifecycle` is `extension-admin.ts` and `installer.ts` over the configuration file, the live
registries and the supervised children (`create-app-context.ts`). One administrative
operation runs at a time (the admin's own queue); beside it runs one other writer of
the configuration (`addProvider`, `deleteProvider`), which is not in that queue.
`tmp` is the single temporary file of `fs-config-file.ts`, `cache` the cell that every
handler loads from, `good`, `enabledCell`, `supervisedCell`, `owners` the cells a
refresh assigns. The clean-up of a failed installation and the rollback of one that could not be
recorded may fail too (`InstallFails`, `OpFails`): `leftBehind` remembers what they left.
`overlapped`, `dangling`, `broken` and `leftBehind` are history.

`Contributions` opens up what the former keeps closed: an install is a plan, a clone or a
copy or a link, a listing, a validation and a record; an update is a fetch, a look at what it
would check out, and the checkout. Two processes do this at once, the application and
`spectrum plugin`, each with its own view of the configuration (`view`), over one plugin root
(`root`) that the user may fill by hand. A process may die at any step. No lock keeps two
processes off one extension; `sole` says whether an operation had its extension to itself,
and only such an install makes a directory `trusted`. All of `meddled`, `crossed`, `stale`,
`littered`, `trusted` and `sole` is history.

### ConfigRecords.tla, Migrations.tla, DataDirs.tla, SessionLibrary.tla

- `ConfigRecords`: a handler of `ipc/handlers.ts` that edits the configuration loads all of it,
  may wait for the keychain, and saves all of it; the command line does the same from another
  process. The cache (`cached`) is between handlers and file (`disk`): a load that finds nothing
  cached reads the file (`Asks`, `Load`) and caches what it read when the read is done
  (`HasRead`, `ListRead`); a save replaces the file (`Writes`) and then the cache (`Saves`).
  `resource.ts` keeps the lists of the pages with a generation (`gen`) that drops late loads; a
  call may time out while its handler goes on (`Replies` that are not `heard`).
- `Migrations`: `migrations.ts` one version at a time, then the strict schema, for a document
  with any of the shapes that earlier versions wrote.
- `DataDirs`: which directory a release channel uses, the copies a start makes from earlier
  builds with their marks, and `resetApp`. A start may die at any step.
- `SessionLibrary`: the rows of one project and its sessions, the names the user, the harness and
  the model give them, and `projectsStore.ts`, whose replies and frames travel apart and may be
  lost to a timeout (`Misses`). A launch may be refused after its row was written
  (`LaunchRefused`), and the command line adds rows of its own (`CommandLaunches`), which the next
  start of the application ends with all the others. `untold` is history: the rows changed and the
  window was not told.

### ProxyRoutes.tla, Launches.tla, Windows.tla, RunNotices.tla, Uploads.tla, ProviderProbes.tla

- `ProxyRoutes`: the processes that share one port: the application, and commands that reuse the
  proxy that answers or start their own. The key travels in a file.
- `Launches`: the login shell is asked for its PATH once (`probe`); launches wait for the
  answer or do not; the command is looked up on the PATH of the moment.
- `Windows`: where a window opens, the debounce over its moves (`pendingBounds`, `flushes`) and the
  save that shares the configuration with other edits, the focus flag, and the pages a window may
  show.
- `RunNotices`: two classifiers, of the process and of the window, over one log of root and
  child runners, with replays. A notice keeps whether a live frame or a replay raised it;
  `retold` is history: a live frame has told of an end a second time.
- `Uploads`: files picked or dropped, ingested by the host, sent with a turn, echoed, timed out,
  resent. The tray is `staged`, the composer's bubbles are `bubbles`.
- `ProviderProbes`: the probe and test of a provider in a form that is being edited, and the list of
  models of the source a form has picked.

### Terminals.tla, DesktopShell.tla, Updater.tla

- `Terminals`: the tabs of one session (`terminalStore.ts`, `useTerminal.ts`), the
  shells of `packages/pty/src/manager.ts`, and the socket between the two.
- `DesktopShell`: `startProxy().ready` and the window that waits for it, the quit gate
  with its drain and cap, the renderer watchdog.
- `Updater`: the phase of `electrobun-updater.ts` written by overlapping checks, downloads and
  installs, `update-poller.ts`, and `updateStore.ts` that follows by answers, pushes and polling,
  any of which may be lost (`missed`). `apply` quits, fails, or comes back with neither (`stayed`).

### RequestParsing.tla, ProviderFactory.tla, Relay.tla

A request through the proxy, in three parts.

- `RequestParsing` builds any short conversation of a harness and converts it by the three
  request adapters, down to the order of parts the provider is sent.
- `ProviderFactory` authenticates, routes (`models-router`, by id, alias, family and native
  name) and takes an instance from the cache or builds one, while the configuration, the
  registry and the ports of supervised providers change.
- `Relay` is one answer: the stream, its rejection, the windows of `real-gateway.ts`, the first
  event in `handler.ts`, and the three serializers frame by frame.

### MCConversation.tla, MCDesktop.tla

The modules that instantiate others for TLC. They put independent components
side by side in one run: `focus` is chosen at the start and only that component moves,
so the states add up and do not multiply, and no component is bounded by another.
`Desktop.cfg` has one state constraint, `WhileFollowed`: once edits of the configuration have
crossed, a command has saved behind the cache, or a save has overtaken a load, `ConfigRecords`
promises nothing any more, and the run goes no further from there.

## 3. What is checked

`tlc -config <cfg> <module>`, with the module named in `PROJECT.json`.

| Run | Question | Bounds |
| --- | --- | --- |
| `RunManager.cfg` | the safety invariants of runs; refinement of `TurnDelivery`, with liveness | 2 sessions, 3 agents, 3 turns, 1 interrupt, 1 crash; 754,254 states |
| `RunManagerOneResume.cfg` | does the map `resuming` give one resume? **No** | 1 session, 1 interrupt |
| `ProviderHost.cfg` | the safety of one instance key, and that every start settles | 4 starts of which 3 requested, 1 exit, 2 stops or retirements, restart budget 1; 822,005 states |
| `ProviderHostForget.cfg` | is a superseded child's exit never a crash of its successor? **It can be** | 2 requests, 1 retirement |
| `ProviderHostMidProbe.cfg` | is a child that dies mid-probe observed? **Not always** | 1 request, 1 exit |
| `SetupFlow.cfg` | flows, their secrets and their children, with liveness | 2 flows, 2 further calls, 2 steps, 1 fault; 1,297,390 states |
| `SetupFlowUnmount.cfg` | does closing the dialog stop its flow? **Not always** | 1 flow |
| `Conversation.cfg` | the window's view of a session; the agent; the settings of the composer; replays of any log | 1 send, 1 agent event, 2 roots, 2 faults; 2 turns, 1 ask, 1 update; 2 choices, 2 runs, 1 mishap; logs of 3 events; 2,673,839 states |
| `ConversationLive.cfg` | is live display the same as replay? **No** | 1 send, 2 agent events |
| `ConversationResume.cfg` | does the turn that resumes a session render? **No** | 1 send, 2 roots |
| `Desktop.cfg` | eighteen components, each from its own initial states | the table below; 2,935,297 states |
| `TrayLaunch.cfg` | does a launch from the tray open a session? **No** | 1 launch |

The bounds of `Desktop.cfg`:

| `focus` | Bounds | States |
| --- | --- | --- |
| `extensions` | 2 extensions (one copied, one linked), 3 operations, 2 edits, 1 fault | 310,111 |
| `contributions` | 2 extensions (a repository, a folder), 2 operations, 1 change by the user or upstream, 1 fault | 128,225 |
| `terminals` | 2 tabs, 3 clicks, 2 shells, 1 reload or failure | 52,877 |
| `shell` | 2 attempts of the watchdog, 3 sockets | 9,000 |
| `updates` | 2 checks, 2 downloads, 1 poll | 222,722 |
| `parsing` | 4 turns, in each dialect | 9,231 |
| `factory` | 2 requests, 2 ports, 1 edit of a provider, 1 other change | 42,608 |
| `relay` | 4 parts of a stream, each wire | 48,054 |
| `routes` | 2 commands, 2 runs of the application, 2 agents, 1 write that fails or process that dies | 209,350 |
| `library` | 1 session, 4 calls, 1 resume, 1 restart, 2 frames | 532,294 |
| `config` | 1 provider, 1 model, 2 edits, 2 loads, 1 edit by the command line or 1 restart | 68,955 (see `WhileFollowed`) |
| `migrations` | every shape of a document with 1 route and 1 harness | 12,192 |
| `dataDirs` | 3 launches, 1 thing saved, 1 death, 1 reset | 426,742 |
| `uploads` | 2 ingestions, 2 sends, 2 changes of harness or model, 1 loss | 299,436 |
| `probes` | 2 sources (one silent), 3 drafts, 3 probes, 2 listings | 162,860 |
| `notices` | 1 session, 2 runs, 2 toasts at once, 1 replay, 1 other toast | 148,224 |
| `windows` | 2 windows, 2 moves, 1 other save, 2 turns of focus, 1 navigation | 152,520 |
| `launches` | 1 launch, a PATH of at most 2 entries | 99,896 |

Why the bounds are enough. Runs interact only within a session, through one
resume, one agent that is going and one that is coming: three agents give a
launch, a resume and a resume that should not have begun; a second session shows
that nothing leaks between them; three turns distinguish a first, a queued and a
late one. Sessions are interchangeable, but symmetry is unsound under liveness and is not used. Instance keys share no state, so one is enough; three requests let
a start be superseded twice, and two exits exhaust a budget of one restart. The
default budget of three adds length and no new case. Two flows show that a dialog
never touches the other one's session, and two further calls a second click while the
first is on its way; two steps reach the step limit. A conversation needs one root that
ends and one that resumes it, and two faults let a drop meet a reload. Three events
contain every pair of events about one item, with the runner they belong to. Two
extensions, one linked and one copied, are the two kinds there are. Two tabs and
two shells let an old shell meet a new one in the same tab; three sockets let a close
arrive after the next connection. Two checks and two downloads overlap in every
order. Two requests share or miss an instance across two ports and one edit.
Two edits, or an edit and a command, are what it takes to lose one; two loads, for one to
overtake the other. Three launches let each channel meet the directories of another. Two
commands beside the application are the least for one to stop a proxy a second one reuses.
Two windows share the one saved geometry. Two runs of one session tell a replayed end from a
new one. A migration is a function of one document, and every shape is tried.
`CHECK_DEADLOCK FALSE` is needed because users and agents may stop and because
every run bounds what befalls it.

The properties, in the order of the modules:

- `SingleAgent`, `HandleIsTheAgent`, `RowTracksAgent`, `QueueHasResume`: who runs
  a session, in memory, on disk and in the queue of a resume, agree. The sessions
  in `orphaned` are left out where the code does break the property.
- `TurnsAccounted`, `OrderKept`, `PersistedFirst`, `NothingAfterFinish`: where a
  turn is, in which order it arrives, and what the log says of it.
- `DeliversTurns`: the refinement. No accepted turn waits for the manager for ever; one in the
  queue of a connecting agent is settled if agents answer.
- `NoOrphan`, `OneStart`, `RunningIsWatched`, `StopIsFinal`,
  `StaleStartsAreInert`, `CrashesAreItsOwn`, `StartsSettle`: one child per key that
  a stop reaches; one start that can commit; a crash is noticed; a stop and a
  supersession hold; a crash is charged to the instance's own child; no key stays
  `starting`. Of the keys in `raced`, asked for between the two halves of `retainOnly`, these
  properties say nothing.
- `ChildHasAnOwner`, `ChildrenStop`: a flow's child runs under a start or a deadline, and
  stops in the end. `EndsOnceAndSaysWhy`: one terminal answer per flow, and a reason for
  every later refusal. `SecretsAreDrained`: a completion is held only by the call that
  takes it, and a cancelled one is not saved. `NoStrandedSession`: the window holds every live
  session or a reply about it is coming, unless a reply was lost (`lost`).
- `NoTurnVanishes`, `NoSendHangs`: an optimistic send is in the outbox, in the log or
  taken back, and one that spins has its timer. `NothingShownTwice`, `ReplayKeepsOrder`:
  replays double and move no item that has an identity (a message, a call, a card). The row of a
  failed turn has none (finding 5). `ViewCatchesUp`: when all frames have arrived the view
  shows the item of each event of the log, read off the log and not off the reducer, each runner
  and the last root; and no typing for turns that are over, if each run began
  after the one before it had ended (`RunsInTurn`). The echoes that a resume logs before their
  runner (`Early`) are left out: finding 7.
- `SettingsAreHonoured`, `TurnsEndOnce`, `AsksAreHonoured`, `AgentIsHeld`: the permission
  mode is settled before a prompt, and a choice of mode, model or effort reaches the agent and
  is what the dropdown shows, but for the kinds in which the code lets them part (`astray`: of an
  overtaken choice, for one, nothing is said); a
  turn waits, runs or has ended once; a permission is granted only by the user's decision; an
  agent that lives is in the hands of its start or of the handle, so a close ends it, unless its
  start failed after the spawn.
- `ExtensionsAreSound`: `InertWhenDisabled` and `FilesMatchRecords`, outside of overlapping writes
  (`overlapped`), hand-broken manifests (`broken`), removals whose last write failed
  (`dangling`) and files that a failed rollback or clean-up left (`leftBehind`); and no two
  extensions share a contribution id, installed at once or not, what the user placed stays, the
  registry lists.
- `WindowAgrees`: every shell has a tab and every living tab a shell, when frames
  have arrived (`strays` are the shells the code does lose); the composer holds the files it
  was given that can be sent; a page shows what was found of the provider in its form, unless an
  edit overtook the answer; the process tells the end of a session's first run live, exactly once,
  if no window has the focus, and tells no other end live; of what a replay tells, only what it is
  about is claimed; windows keep bounds, focus and page; a launch runs what the user's terminal
  would.
- `NothingIsStuck`: a phase of the updater has its work (but for `stayed`), a download is seen by
  the window (unless a check `crossed` it or an answer was `missed`), a held quit drains or has its
  timer, a lost renderer has one.
- `RecordsAreSound`: a name given by the user stays, and the window's lists follow the rows it was
  told of (`untold`, `listsCrossed`); an acknowledged edit is in the file, and the pages show the
  file (but for `editsCrossed`, `foreign`, `overread`, and, of the pages, `unheard`); every
  supported document loads and keeps its choices, but for the inline key of version 1; the data of
  each channel is its own, found by the next build (but for a directory `torn` in a copy), and
  gone after a reset, unless a late save (`spoiled`) or the seeding of a canary build brings it back.
- `ProxyIsFaithful`: whoever is sent to the proxy has its key, and each proxy has an owner that
  stops it; an instance is the one for what was resolved; the provider is told what
  the harness said, results directly behind their calls; the harness reads what the
  provider said, in order and up to the right end, with one terminal frame unless the provider
  goes on after an ending. A key read from the file too early or too late is left out (`misfiled`).

Each history variable that leaves a case out names something the code does get wrong or
does not promise; it is listed under Findings or Observations.

Every property has a mutant, listed in `PROJECT.json`: an operator next to the one it
alters (marked `mutant` in the module) that changes it as a plausible slip in the code
would, such as a queue not looked for, a handle not dropped or a generation not
compared. With the mutant in place the property fails under its own bounds, so none
holds by the shape of the model alone.

Fairness. In `RunManager`: `resolveResumeInput` settles and a scheduled microtask
runs. That an adapter's start resolves or rejects is not assumed, since it awaits an external agent
without a timeout; it is the premise of the second half of `DeliversTurns`. In `ProviderHost`: a backoff
ends, the registry and the allocator answer, the probe has a deadline, a dead
child's `exited` resolves, and a microtask follows its `await`. In `SetupFlow`: the host
settles a start (which `StartsSettle` shows of it), the runner's continuation runs, and the
deadline's timer fires. Nothing else is fair: not the user, not the end of a run, not a
crash, not the plugin's answer, not a reply on its way.

### Findings

1. *A second resume after an interrupt* (`manager.ts:405-407`). An interrupt that
   arrives while a resume is suspended deletes the queue, which was also the only
   record that a resume is under way. The next send starts another. Two agents
   start; the later one takes the handle, and the earlier one keeps running with
   nothing able to interrupt or close it. The comment on the map says the sends are
   serialized into one resume.
2. *A forgotten generation* (`host.ts:529`). After `retainOnly` deletes a record, a
   new one for the same key starts over at generation 1. The killed child exits
   when its signal has been handled, and if its successor is ready by then, its exit
   passes both tests of `onExit`: the healthy child is dropped from the record
   without being killed and another is spawned. An edit of a provider's
   configuration that is reverted at once is enough. A restart that sleeps through
   the deletion can match the new record in the same way. The code's comment calls
   the deletion "memory hygiene only".
3. *An exit before the answer* (`host.ts:377`). The exit of a child that has answered
   the probe is ignored while the status is still `starting`. The start then commits
   `running` with a dead process, and every later request gets its address.
4. *A dialog closed before its first step* (`useProviderFlow.ts:204`). The cleanup
   cancels the session the hook holds. While `startProviderFlow` is in flight it holds none,
   so the flow and its child run on until the deadline.
5. *Live is not replay* (`runnerClient.ts:100`). A live frame reaches the reducer twice,
   through the view's own listener and through the listener of `app.tsx`. `reduce` drops a
   chunk only when it equals the text so far, so the second chunk of a message, and any
   later one, shows twice until the view is rebuilt. The error row of a failed turn, which carries
   no message id (`adapter.ts:69-72`, `:239-256`) and so is never recognised (`reduce.ts:413-422`),
   shows twice live and once more with each replay.
6. *A launch from the tray* (`tray.ts:76`). It passes an empty working directory, which the
   session store refuses, so the entry that says it opens a run session does nothing.
7. *The turn that resumes a session* (`manager.ts:377`). `doResume` sends the queued turns in the
   step that starts the agent, so their echo is logged before the `runner-started` that the runtime
   emits in a microtask (`runtime.ts:91-98`), and `reduce` drops what names a runner it does not
   know (`reduce.ts:113-114`). The turn reaches the agent and the log, and no view, live or
   replayed; its entry in the outbox is reported as failed. The comment at `reduce.ts:157-159` has
   it that "the new turn renders under a runner that already holds the history".

### Observations

Met while modelling. The first list contradicts a comment; the rest is stated by no document. Where
a property would speak of such a case, a history variable or a conjunct named here sets it apart.

Against a comment:

- `anthropic-stream.ts:101-106` says of the terminal event that "we guarantee exactly one terminal is
  sent". An error part followed by a finish gives two frames (`TerminalsAreFew` counts them); what
  comes after the first is not claimed to be faithful.
- `anthropic-stream.ts:51-57` and `:125` have content blocks that are sequential: "close the open one,
  then open the tool block". Text that follows a tool call is carried on the block already closed
  (`:118`), which `BlocksNest` lets be.
- `reset-app.ts:23` speaks of "a clean slate that re-migration cannot restore". A reset canary
  build is seeded from production again, and a save after the wipe brings the old configuration
  back; `CleanSlate` names both.
- `migrations.ts:25` has the keychain reference of a version 1 document "re-established later". No code
  does, and the inline key is gone (`OnlyV1LosesItsKey`).
- `manager.ts` resumes with no permission mode, so the agent starts in its own whatever the
  dropdown shows, where the comment of `ReplayRunDetail` in `RunDetail.tsx` has it otherwise; the
  effort is ignored at a start, though the comment of `resolveResumeInput` promises the user's tier.

Runs and providers:

- An agent whose start fails after it was spawned (`initialize`, a session or the mode is
  refused) runs on: the adapter does not close it on that path, and the runtime has no handle
  (`runtime.ts:125-133`; `AgentIsHeld` names it).
- An agent that never answers its handshake keeps the turns that were queued for it (`entrusted`).
- A request that falls between the two halves of `retainOnly` starts a child that nothing
  can stop (`raced`).
- `reconcileOrphaned` ends every open row, those of sessions the command line has running too.
- Secrets that a completed flow has put into the keychain stay there when the save of the
  configuration fails after it; `SecretsAreDrained` is about what the runner holds.
- The death of an agent between turns is not noticed until the next prompt. A turn made of
  attachments the agent cannot take leaves no `turn-finished` (`adapter.ts:231`). A `setMode` after the
  start is not awaited (`adapter.ts:284`). `close` forgets pending approvals without answering them
  (`runtime.ts:217`).

Extensions:

- The result of an install's clean-up, and of the rollback of one that could not be recorded, is
  ignored (`installer.ts:196-203`, `extension-admin.ts:133-145`): files may stay without a
  record (`leftBehind`).
- `addProvider` saves the configuration it read before a keychain write
  (`handlers.ts:568`); what another writer saved meanwhile is lost (`overlapped`).
- A refresh that meets an invalid manifest keeps the last good view, in which a disabled
  extension is still startable (`create-app-context.ts:610`; `broken`).
- An update and an install at the same time can collide (`overlapping`), as can two operations on one
  extension (`sole`); a link hides a directory of the same name; a view of the configuration that is
  out of date can delete a directory of the user's, or drop what the command line recorded (`stale`).

Sessions and settings:

- The second resume of finding 1 can leave the typing indicator on: the window follows the new
  root, and the end of a turn of the older one does not count (`RunsInTurn`).
- Deleting a session or a project does not stop its run. `loadSessions` of `projectsStore.ts` has no
  generation, so an older list may replace a newer one; the reply to a rename and the frame that
  announces another name can cross (`listsCrossed`). A refused launch leaves a row, a call that is
  given up is carried out all the same, the command line adds rows: of none does the window hear
  until it loads its lists again (`untold`).
- A setting sent while no agent is live, or while a resume is suspended, is dropped
  (`manager.ts:394-410`). Two choices of a model may resolve in the other order. The empty choice,
  "default model", does nothing in the adapter. A reconnection seeds the dropdowns from the first
  start again. A remembered model may no longer exist. (All `astray`.)
- The view attached by `onResumeSend` is not attached again after a reload (`app.tsx:337`; `skip`).

Configuration and data:

- Two edits that overlap lose one, and a save of the application overwrites what the command line
  saved meanwhile (`editsCrossed`, `foreign`). A load that finds nothing cached and is overtaken by a
  save caches the old document, and later edits start from it (`cached-store.ts:15-19`; `overread`).
  A call of the window may time out and succeed (`unheard`).
- A migrated document is not written until the next save; v8 to v9 leaves a trailing slash.
- The copy of `~/.config/launchkit` keeps `launchkit.db` under its old name. A start that dies in the
  middle of a copy leaves a directory that is taken for a whole one (`torn`).
- A reset canary build deletes the keys it shares with production; a reset development
  build deletes old directories that were never copied; a wipe that fails leaves the application up
  with its database closed.

Proxy, processes and launches:

- A stream that stops without a terminal part is serialized as a success
  (`anthropic-stream.ts:184`). The retry without reasoning
  options is nearly out of reach, since a rejection comes as an error part first (`real-gateway.ts:391`).
- Images beside tool results, and images in a completions request, are dropped
  (`anthropic-request.ts:286`, `openai-request.ts:183`).
- The application clears the key file when it quits even if it has no proxy; a key read before it is
  written, or after it is cleared, is no key of the proxy's (`misfiled`). A command takes the port
  of `settings` without the channel's offset. The proxy a command started stops with it,
  though others use it. A failure to record the session leaves the harness without a proxy.
- A resume and a change of model do not wait for the PATH; a resolution for its environment only
  runs the native command. The tray menu is built once. "Open" opens one more window.

Windows, pages and the shell:

- A tab closed, or a page reloaded, while a working directory is looked up leaves a shell no
  tab shows (`useTerminal.ts:258`; `strays`). The terminal socket never reconnects (`clients.ts:160`).
- A check overwrites the phase of a download that began after it (`electrobun-updater.ts:217`),
  and a poll after "downloaded" takes the phase back (`update-poller.ts:43`; `crossed`). A read of
  the state that fails is dropped, and so is the refresh after an answer that fails
  (`updateStore.ts:43-56`; `missed`). `apply` may return with the application as it was and the
  phase "applying" (`electrobun-updater.ts:258-259`; `stayed`).
  `checkForUpdate` pushes by a second network check (`handlers.ts:1088`).
- The renderer watchdog does not know which socket has closed (`late`), and never watches a
  renderer that has not connected once.
- A replay of the backlog raises the notice of an ended run again, once for each attachment of a window
  without the focus (`root-runner.ts:26`, `composition.ts:281-296`). The end of a resumed run is never
  notified. A second failure whose toast is still on show gets none (`notifications-model.ts:31-34`);
  errors that stay can leave no room for a new one.
- Bounds of exactly -32000 are taken for usable; the focus flag starts as true.
- An upload whose file has no extension is never found again by its id; `uploads.clear()` drops files added
  meanwhile; a resend or a cancel loses the attachments; two quick sends overlap; a slice that is
  reset loses the typed text.
- The result of a probe that an edit has overtaken is shown. `useAsyncResource` keeps the old
  data after an error.

## 4. What is proved

`RunManagerProofs.tla`, checked by `tlapm`, for any sets of sessions, agents and
turns and any number of interrupts and crashes. The only assumption is
`RunManagerAssumption`: ids are distinct from the markers for "none", and agents and
turns are numbers.

| Theorem | States |
| --- | --- |
| `TypeCorrect` | `Spec => []TypeOK` |
| `OneAgent` | `Spec => []SingleAgent` |
| `HandleFaithful` | `Spec => []HandleIsTheAgent` |
| `RowFaithful` | `Spec => []RowTracksAgent` |
| `QueueIsServed` | `Spec => []QueueHasResume` |

They share one inductive invariant, `AgentInv`. The four properties are not inductive
on their own. That a second resume cannot begin rests on the first one's queue being
still there (`ResumeKeepsQueue`), which only an interrupt takes away; that an
agent's end touches the right row rests on agents having owners (`OwnerKnown`); that
a launch meets no agent rests on an absent row having none (`AbsentHasNone`); that a
restart may end the open rows rests on nothing surviving an exit
(`NothingWhenDown`). Types are proved in two halves, because the control state needs
no reasoning about sequences. `AgentInvFrame` covers the steps that only move a
started agent on; the end of a root, a refused resume and a crash have a lemma each;
the other actions are cases of `AgentInvInductive`.

The rest of `RunManagerProofs.tla` builds on these and proves what the run manager does
with turns, under the same assumption.

| Theorem | States |
| --- | --- |
| `TurnsInOnePlace` | `Spec => []TurnsAccounted` |
| `TurnsInOrder` | `Spec => []OrderKept` |
| `TurnsPersistedFirst` | `Spec => []PersistedFirst` |
| `FinishIsLast` | `Spec => []NothingAfterFinish` |
| `ImplementsTurnDelivery` | `Spec => Delivery!Spec`, the safety half of `DeliversTurns` |

The argument is about one turn at a time. A turn is `Unsent`, `Queued`, `Held`,
`Handed` or `Gone`, each of which says where it is and that it is nowhere else.
`EveryStep` sorts the actions into four kinds: one new turn is sent, waiting turns
move on, are handed over, or are thrown away, and every other turn stays put
(`Same`). From it follow both `TurnsInOnePlace` and the refinement, because the place
of a turn is its fate. It needs two facts about empty queues: a session that is not
being resumed has none (`QueueOnlyInResume`), or the next resume would overwrite
turns, and an agent has nothing before `driver.start` and no queue once its adapter
is ready (`AgentsStartEmpty`). The second is also why order is kept: a ready adapter is
given commands directly, past the queue. For the log, each event is added under an
agent that is not over (`EveryLog`), and a turn is echoed in the step that gives it to
an agent (`GetsEchoed`).

`ProviderHostProofs.tla` proves the safety of the provider host, for any keys and
starts and any bounds (`ProviderHostAssumption`: starts and bounds are natural
numbers, and "none" is not a start).

| Theorem | States |
| --- | --- |
| `HostInvariant` | `Spec => []HostInv`, the inductive invariant |
| `TypeCorrect` | `Spec => []TypeOK` |
| `NoChildIsOrphaned` | `Spec => []NoOrphan` |
| `OneStartCommits` | `Spec => []OneStart` |
| `RunningWatched` | `Spec => []RunningIsWatched` |
| `StopsAreFinal` | `Spec => StopIsFinal` |
| `SupersededIsInert` | `Spec => StaleStartsAreInert` |
| `CrashesAreOwn` | `Spec => CrashesAreItsOwn` |

`HostInv` is `TypeOK`, `Shape` and, for every key that no removal raced, `KeyInv`.
`Shape` only relates starts, records and children: a start works for a record of its
own key, a record names a child of its own key. `KeyInv` holds the argument. The
checks that `startOnce` repeats after each await compare one number, so they are
worth something only if no two starts of a record have one generation
(`GenerationsApart`), sleeping restarts included. Then a start that passes the check
is the only one that can still write (`StartingHasStart`, `ProbedIsNamed`), an alive
child is the one the record names (`AliveIsNamed`), and a stop, which kills only that
one, leaves none. A record that left the map is stopped for good
(`ForgottenIsStopped`), and one that is being removed is stopped until it is
(`RetiringIsStopped`). The keys in `raced` are left out because there the code does
break the invariant (finding `ProviderHostForget`, section 3). Each action has a
lemma for its own key, and `Elsewhere` covers the other keys for all of them.

`SetupFlowProofs.tla` proves the safety of setup flows, for any flows, calls, steps and
faults (`FlowRunnerAssumption`: a call is either a start or an advance, "none" is not a
call, a step or a refusal, and the bounds are numbers, that of the steps at least 1).

| Theorem | States |
| --- | --- |
| `FlowsAreAccountedFor` | `Spec => []FlowInv`, the inductive invariant |
| `FlowsTyped` | `Spec => []TypeOK` |
| `FlowChildrenAreOwned` | `Spec => []ChildHasAnOwner` |
| `FlowsEndOnce` | `Spec => []EndsOnceAndSaysWhy` |
| `FlowSecretsAreDrained` | `Spec => []SecretsAreDrained` |
| `FlowSessionsAreReachable` | `Spec => []NoStrandedSession` |

`FlowInv` says where a flow is four times, and that the four agree: by the calls about it
(`CallsInv`: a call is about its own flow or one whose start was received, and one step of a
flow is in flight at a time), by the runner's maps (`RunnerInv`: a session is open, has its
deadline and its child), by how flows ended (`EndsInv`: an ended flow is gone from every
map, a completion is held until the call that made it comes to drain it) and by the window
(`WindowInv`: the hook and all it waits for are about one flow, and the handlers know every
session a reply has told of).
The five properties lean on each other: that nobody is told twice needs that no step is in
flight twice, which needs that an ended flow has no session left.

One section of `ConversationProofs.tla` is about the runtime and its adapter, for any turns,
permission requests and candidate modes; it has no assumption but that of `AgentTyped`,
whose bound `MaxUpdates` is a number. `Agent` is the instance of `AgentSession` in
`MCConversation`, the module of the run.

| Theorem | States |
| --- | --- |
| `AgentIsAccountedFor` | `Agent!AgentSpec => []AgentInv`, the inductive invariant |
| `AgentTyped` | `Agent!AgentSpec => []Agent!AgentTypeOK` |
| `AgentModeComesFirst` | `Agent!AgentSpec => []Agent!ModeBeforePrompt` |
| `AgentTurnsEndOnce` | `Agent!AgentSpec => []Agent!TurnsEndOnce` |
| `AgentAsksAreHonoured` | `Agent!AgentSpec => []Agent!AsksAreHonoured` |
| `HeldAgent` | `Agent!AgentSpec => []Agent!AgentIsHeld` |

`AgentInv` adds to these that the queue is for the time before the handle
(`QueueIsForTheStart`), so that the flush cannot overtake a prompt; that only what was sent
moves (`SentIsWhatMoves`); and that the mode is settled exactly when the session is ready
(`ModesAreKnown`), which needs that `pickAcpModeId` never picks the mode the agent opens in
(`PickedIsKnown`, from `LeastOf`: a set of numbers has a least one).

The run checks the last three of an agent in the company of `MCConversation`. The agent of that
run takes the steps of `AgentSession` (`AgentMoves`), so they hold of `MCSpec` too:
`RunTurnsEndOnce`, `RunAsksAreHonoured` and `RunAgentIsHeld`.

The rest of `ConversationProofs.tla` proves a conversation from the log to the window, for any sends,
chunks, runs, agent events and faults (`ConversationAssumption`: sends are numbers, and
there may be a root), and the reducer for any log that may be recorded.

| Theorem | States |
| --- | --- |
| `ConversationIsSound` | `ConvSpec => []ConvInv`, the inductive invariant |
| `ConversationTyped` | `ConvSpec => []ConvTypeOK` |
| `TurnsDoNotVanish` | `ConvSpec => []NoTurnVanishes` |
| `SendsDoNotHang` | `ConvSpec => []NoSendHangs` |
| `NothingIsShownTwice` | `ConvSpec => []NothingShownTwice` |
| `ReplaysKeepOrder` | `MCSpec => []ReplayKeepsOrder`, of any log of the run |
| `ViewsCatchUp` | `ConvSpec => []ViewCatchesUp` |

`ConvInv` is about what is under way: a message of the user's that is on its way to the
window is in the log (`DownIsStored`), so the outbox may forget a send as soon as it sees
the echo; and the view is a good run of stored sends (`ShownIsSound`): items differ in
identity, whatever order frames come in. A section of lemmas takes `reduce` event by event
(`AddedItem` and what follows it): each returns a good run from one.

`ReplaysKeepOrder` is about a fold over a whole log, twice. `FoldIsRun` gives the fold as the
last of a sequence of views, each the reducer's answer to the one before; what holds of all of
them is shown by the least one of which it does not (`NoLeast`), since an induction
theorem with an operator for a parameter is out of the prover's reach. Each event takes
the view `Onwards`: it stays one whose items differ in identity (`IsView`), and it only
appends, so an item keeps its place (`Grows`). The first replay and the second are both such
runs, whichever events they begin with.

`ViewsCatchUp` has an inductive invariant of its own, `CatchInv`, checked by TLC on
`Conversation.cfg` before it was proved. It says that what the view lacks of the log is on its
way, in an order in which it takes effect. `WillCatchUp` is the heart of it, for a view that
is attached and has no backlog coming: for each event of the log, the view shows it or a frame of it is on
its way with the start of its runner before it or already taken (`AllArrives`); the last
frame that changes the root makes it the last root (`RootAt`); and the typing indicator, if
on, meets a frame that turns it off (`GoesOut`), provided that all turns are over and runs
came in turn. `LogIsRooted` says the same of the log itself, so that a backlog, which is the
log, starts all of this anew; `TurnsClose`, that in the log the end of a turn comes after
every echo when nothing works; `LiveIsLast`, `SocketKept` and `Told` what the agent, the socket and
the indicator know of each other.
The property compares the view with the log event by event and never with what `reduce` makes of
the log. So it can tell that `reduce` drops something, which it does: an echo that is logged
before the start of its runner (finding 7) is `Early`, and nothing is claimed of it.

That proof corrected the model. As first written, `ViewCatchesUp` promised that no typing
indicator stays on for turns that are over. That is not inductive, and with three
roots, one more than the run has, TLC finds it violated: the second resume of finding 1
starts a run while the first resumed one still works; the window follows the new root,
and the end of the older one's turn, which `nextBusy` counts against the root it belongs to, never
turns the indicator off. The conjunct is now restricted to runs that began after the one
before them had ended (`RunsInTurn`). And
`ReplayKeeps` asks of the second replay that it moves nothing and that it doubles nothing,
whatever it appends, so that it can be reasoned about.

`ContributionsProofs.tla` proves what extensions contribute, for any extension ids and any
number of operations, edits and failures. Its hypothesis is `ContributionsAssumption`: "none"
is not a manifest, an operation or a kind of source.

| Theorem | States |
| --- | --- |
| `ContributionsAreAccountedFor` | `ContributionsSpec => []ContribInv`, the inductive invariant |
| `ContributionsKeepSound` | `ContributionsSpec => []ContributionsAreSound` |

That two installs never both get through with one contribution id is an argument about
order: an install has its files in place before it lists the names (`InstallsFill`), so of
two that validate, the one that listed later has seen the other (`InstallsMeet`); and
whatever became trusted since an install listed was validated in sight of its files
(`UnseenApart`). What an update adopts is what it validated when it runs alone
(`UpdatesHold`). That the registry lists rests on records and directories fitting each other
between and during operations (`RootIsRecorded`, `RecordIsTrusted`, `DroppedIsGone`,
`LinksHold`, `OpsFit`, `OpsSee`, `Validated`), all of it while nothing overlapped, failed or
went stale. The proof also corrected the model. With four operations, more than the run has,
the first argument fails when both processes work on one extension: one removes what the
other has just validated, or puts something else in its place. The code has no lock against
it, so the property now leaves those directories out (`sole`, section 2).

`DesktopProofs.tla` proves two properties of `MCDesktop`, the run that puts the components
around the conversation side by side, and two parts of a third, for any bounds
(`DesktopAssumption`: the bounds are numbers and there is a port, "none" is none of the values
it stands in for, the application is not a command, and `ContributionsAssumption`).

| Theorem | States |
| --- | --- |
| `ExtensionsSound` | `MCSpec => []ExtensionsAreSound` |
| `NothingStuck` | `MCSpec => []NothingIsStuck` |
| `HandlesStayCurrent` | of `ProxyIsFaithful`: `MCSpec => [](focus = "factory" => Factory!HandlesAreCurrent)` |
| `RoutesStaySound` | of `ProxyIsFaithful`: `MCSpec => [](focus = "routes" => Running!RoutesAreSound)` |

Each component that moves has an inductive invariant of its own; what is in focus stays so
(`FocusStays`), so they meet only in the last section. `ExtInv` says of the extensions what
the operation under way knows and is about to write (`OpFits`, `EditFits`), that directories
and records agree but for its extension and what a clean-up that failed has left (`FilesAgree`,
`BadIsBroken`), that it waits for the
refresh it asked for (`RefreshesAgree`), and that once the refreshes are done the children
are of what is enabled (`ChildrenAgree`). `ContributionsProofs` is instantiated for the
invariant of the contributions, with `SameContributions` and `SameMeaning` between the two
instances. `UpdateInv` adds to `PhaseHasWork` and `DownloadIsSeen` that an uncrossed
download is alone (`UncrossedIsAlone`). `ShellInv` adds to `QuitDrains` and
`WatchdogWatches` that the gate has re-issued a quit only when the application is over
(`QuitsOnce`), and that only a close reported late leaves a socket unconnected (`LostIsLate`).
`FactoryInv` needs only the types. `RouteInv` adds that a command about to write a key has the
proxy of that key (`WritersListen`), and that the key of the proxy that listens is in the file
once its owner has written it (`FileHasTheKey`): a reader of the file is then sent to that
proxy.

`RecordsProofs.tla` proves what `Desktop.cfg` checks of everything the application keeps, for
any bounds, routes and harnesses. Its assumptions are `DesktopAssumption` and
`RecordsAssumption`: the bounds are numbers, and "none", "newer" and the marks of a document are
none of the records they stand beside, nor each other.

| Theorem | States |
| --- | --- |
| `RecordsSound` | `MCSpec => []RecordsAreSound` |

Four components have an inductive invariant each, and `FocusStays` puts them together.

- `MigrationInv` says part by part what a document written at some version has become at the
  version it has reached. A choice of a model per harness survives three shapes; `ChoicesOf` says
  that two of them stand for the same choices.
- `LibraryInv`: a name of the user's is known to the manager, or its row had it when a resume
  began (`NamesHeld`); the list on the page follows the rows, up to frames and replies on their
  way, the last of which about a session tells what its row says (`PagesHeld`). A session that has
  no row yet has no run and no name (`Unlaunched`).
- `DirsInv`: a directory holds what was copied into it (`Copied`), only of those who may write to
  it (`Apart`), nothing that was erased from it (`Clean`), and each provider in it has its secret
  or is known to have been deleted; the directories of earlier builds stay as they were until
  a reset (`EarlierHeld`); the configuration in memory is the one in the directory
  (`MemoryHeld`), so that the save that comes after a wipe is the only way back (`spoiled`).
- `ConfigInv`: as long as no two edits crossed there is one, and what it goes by is what the file
  holds, unless the file changed under it (`OneEdit`); a load that was suspended carries what it
  read (`LoadsHold`); a written edit that is yet to be cached leaves the cache right in all it is
  not about (`CacheCurrent`); nothing is listed before the cache is filled (`NothingLoaded`); and
  each list is current, or the newest load of it is or will find it is not, or the answer
  that will have it loaded is still to come (`ListsCurrent`).

`ViewProofs.tla` proves what the windows show and send, for any numbers of windows, tabs, toasts,
saves and launches. Its assumptions are `DesktopAssumption` and `WindowsAssumption`: the bounds are
numbers, and "none" is no runner, document or geometry.

| Theorem | States |
| --- | --- |
| `WindowsAgree` | `MCSpec => []WindowAgrees` |

Six components have an inductive invariant each, and `FocusStays` puts them together.

- `WindowInv`: the last geometry of a window waits for its debounce, is on its way to the file, or
  is in it (`LastIsKept`), unless the code let two saves cross; a document read before a save
  counts fewer edits than the file (`FilesFollow`), so an older flush is known by its revision;
  and the last event about the focus says where it is (`FocusFollows`).
- `UploadInv`: a file the user is owed is in the tray, with a call that will answer, or in a message
  on the page (`FilesSomewhere`), and calls have numbers of their own, so no answer is
  about the files of another (`CallsApart`).
- `TermInv`: in the queue to the host the close of a tab that is gone comes after each open of it
  (`GoneAreClosed`), and a tab in the pane without a shell is awaited, asked for, or told of
  (`TabsAreServed`).
- `NoticeInv`: the process knows the first root of each session that ran (`TapsKnow`), whatever it
  replays; a note told live is owed, and an owed one was told (`NotesFollow`), with `retold` never
  raised, because an end is logged of a runner that runs and takes it out of those that do. A replay is a fold of the taps over a log. `ReplayedIsSeen` gives it as the last of a
  sequence of states, and what holds of all of them is shown by the least one of which
  it does not.
- `ProbesInv`: a test is of the draft there is or knows that it was overtaken
  (`TestsKnowTheDraft`), and only the latest fetch of a list counts and is of the provider in the
  form (`FetchesAreOfTheForm`), so what the form says a model receives is what its own
  provider said (`FormIsTheModels`).
- `LaunchInv`: the shell is asked once, the path is what was inherited until it answers, and a launch
  from the tray or a window has waited for the answer. `KeepFirstKeeps` says of the path that
  is composed from the answer that the first of any directories sought is the first in what was
  joined, so a command is found where the user's terminal finds it (`FoundAsInTerminal`).

The first lemmas of the module stand in for induction: a set of numbers without a least one is
empty (`NoLeast`, from the library's well-founded relations), and one that is not has a least
(`HasLeast`); then come what is in a sequence after one entry leaves it (`OneRemoved`) and in two that
are joined (`JoinTwo`).

Only model-checked:

- liveness, which is out of the prover's reach: `Delivery!Progress` and `Delivery!AllSettle`, the
  other half of `DeliversTurns`; `StartsSettle`; `ChildrenStop`;
- the half of `SettingsAreHonoured` that is about the dropdowns (`SettingsAgree`), the other half
  being `AgentModeComesFirst`: its queues are filtered and flattened by library operators
  of which no fact is to be had without induction over an operator;
- of `ProxyIsFaithful`, what a request and a stream are folded into (`ResultsFollowCalls`,
  `RelayIsFaithful`): it is built with the same operators, and with folds of the community modules,
  and no proof has been written; the factory and the owners of the port are proved;
- the types as wholes (`TypesOK`, `DesktopTypesOK`). Proved are those the invariants above have
  among their conjuncts, and `AgentTyped` and `ConversationTyped`.

## 5. Not modelled

- *Secrets*: the keychain and the encrypted file are I/O behind `get`, `set`, `delete`. When the
  handlers call them, and what a failure leaves, is in `ConfigRecords`, `FlowRunner` and `DataDirs`.
- *Data without an order to get wrong*: the schemas of IPC, of the protocols and of manifests (a
  manifest is valid or not), the catalogues of harnesses and providers, the SDK options of a
  provider, the text of messages, scroll positions, menus.
- *Errors of the database*, which is local and synchronous; SQL itself.
- *Resizing a terminal*, which changes no state that is modelled; the pty is external.
- *The updater's channel switch and the relaunch of the process*.
- *The interrupt of a prompt inside the ACP adapter*, a notification without an answer.
- *Parsing and printing of the command line*.

Within the modules, the contents of forms, files, tokens and streams are a few model values, and
time is a choice: a timer fires whenever it may.

------------------------------ MODULE MCDesktop ------------------------------
(***************************************************************************)
(* Small instances of the components around the conversation, side by side; *)
(* one is chosen at the start and moves, so that each is explored within     *)
(* its own bounds: those of the application, of the proxy, and of the        *)
(* records and the window.                                                 *)
(***************************************************************************)
EXTENDS Naturals

CONSTANTS
  None, Ids, Linked, MaxOps, MaxEdits, MaxFaults,
  MaxTabs, MaxClicks, MaxSpawns, MaxBreaks,
  MaxAttempts, MaxSockets,
  MaxChecks, MaxDownloads, MaxReads,
  RequestIds, MaxPort, MaxVersion, MaxChanges,
  MaxParts,
  MaxTurns,
  MaxSessions, MaxCalls, MaxResumes, MaxRestarts, MaxFrames,
  Newer, MaxProviders, MaxModels, MaxAsked, MaxLoads, MaxAside,
  Routes, Harnesses,
  Commands, MaxRuns, MaxAgents, MaxTurmoil,
  MaxIngests, MaxSends, MaxSwitches, MaxLosses,
  Sources, Silent, MaxDrafts, MaxProbes, MaxListings,
  Sessions, MaxToasts, MaxEpisodes, MaxReplays, MaxOthers,
  MaxWindows, MaxMoves, MaxSaves, MaxFocusTurns, MaxTrips,
  MaxStarted, MaxEntries,
  MaxLaunches, MaxWorks, MaxDeaths, MaxResets,
  Git, MaxInstalls, MaxPlaced, MaxFailures

VARIABLES focus,
  files, disk, cache, tmp, good, enabledCell, supervisedCell, owners, children, op, edit,
  asked, done, refreshing, request, ops, edits, faults, overlapped, dangling, broken,
  leftBehind,
  root, extensionSource, fetchHead, recorded, view, installs, hand, trusted, meddled,
  overlapping, stale, littered, begun, placings, failures,
  tabs, pane, exited, told, opening, listening, toHost, toView, shells, deleted, linked,
  tabIds, clicks, spawns, breaks, strays,
  burst, proxyUp, startCap, window, gate, quit, drain, drainCap, requits, leaves, page,
  socket, closing, sockets, connected, timer, attempts, gaveUp, late, reloadedLive,
  phase, checks, origin, downloads, applying, quitting, seen, awaited, coming, reads,
  crossed, stayed, missed,
  models, configured, version, described, port, instanceCache, stage, key, url, handle,
  changes,
  wire, reasoning, attempt, parts, captured, firstChunk, errorYielded, source, answer,
  body, given, gone,
  dialect, turns,
  proxy, keyFile, gui, agent, cli, keys, runs, agents, turmoil, misfiled,
  project, rows, title, run, hadName, nameSource, refinement, projects, sessionPage,
  replies, frames, launches, calls, resumes, restarts, named, overtaken, lateNames,
  listsCrossed, untold,
  configFile, cached, configCalls, command, shown, gen, loads, minted, editsAsked,
  commands, loaded, starts, truth, secrets, editsCrossed, foreign, overread,
  unheard,
  platform, custom, dirs, channel, dirStage, cachedDoc, keychain, doomed, launched, works,
  deaths, resets, deletedBy, erased, spoiled, addedLate,
  written, doc, at, outcome,
  harness, route, staged, ingests, reading, bubbles, stored, over, dragDepth, switches,
  losses, ingested, messages, owed, swept,
  log, episode, running, rootsSeen, focusedFlag, viewing, connection, toasts, native,
  retold, owedNotes, shoved, replays, others,
  windows, openFrames, config, pendingBounds, flushes, saving, holder,
  focusEvents, focused, external, pages, moves, saves, focusTurns, trips, lastMove,
  crossedSaves,
  posix, installed, demo, launchAnswer, probe, pathProbes, searchPath, menu, mounting,
  launching, results, started,
  openPage, draft, probes, discovering, testing, verdict, descriptor, form, asks, fetched,
  lists, saved, attempted, listings

Extensions == INSTANCE ExtensionLifecycle
Contributed == INSTANCE Contributions WITH source <- extensionSource, disk <- recorded, op <- installs, crossed <- overlapping, ops <- begun, edits <- placings, faults <- failures
Terms == INSTANCE Terminals
Shell == INSTANCE DesktopShell
Updates == INSTANCE Updater
Factory == INSTANCE ProviderFactory
Relayed == INSTANCE Relay
Parsing == INSTANCE RequestParsing
Running == INSTANCE ProxyRoutes
Library == INSTANCE SessionLibrary WITH source <- nameSource, page <- sessionPage, crossed <- listsCrossed
Config == INSTANCE ConfigRecords WITH disk <- configFile, calls <- configCalls, asked <- editsAsked, crossed <- editsCrossed
Directories == INSTANCE DataDirs WITH stage <- dirStage
Documents == INSTANCE Migrations
Attachments == INSTANCE Uploads
Notices == INSTANCE RunNotices
Shown == INSTANCE Windows WITH frames <- openFrames, turns <- focusTurns
Starting == INSTANCE Launches WITH answer <- launchAnswer, probes <- pathProbes
Probing == INSTANCE ProviderProbes

(* What can be under way with the extensions.                                    *)
Steps == {"fetching", "validating", "saving", "listing", "deleting", "recording", "refreshing"}
Nexts == Extensions!Configs \cup (SUBSET Ids) \cup Nat \cup {None}
Operations ==
  [kind : {"install", "enable", "update", "remove"}, id : Ids, pc : Steps, next : Nexts]
Edits == [pc : {"secrets", "saving"}, base : Extensions!Configs, next : Extensions!Configs]
Requests == [id : Ids, after : Nat]

(* What a directory of the application's data holds.                                *)
Owners == {"legacy", "launchkit"} \cup Directories!Channels
DirKeys == [by : Owners, n : 0..(MaxWorks + 1)]
Stored == [config : SUBSET DirKeys, oldDb : (SUBSET DirKeys) \cup {None},
           db : (SUBSET DirKeys) \cup {None}, marks : SUBSET {"support", "spectrum"},
           tags : SUBSET (Directories!Names \cup {"torn"})]

(* The bounds are numbers, and None is none of the records it stands in for.          *)
ASSUME DesktopAssumption ==
  /\ MaxChecks \in Nat /\ MaxDownloads \in Nat /\ MaxReads \in Nat
  /\ MaxAttempts \in Nat /\ MaxSockets \in Nat
  /\ MaxPort \in Nat \ {0} /\ MaxVersion \in Nat
  /\ None \notin Operations \cup Edits \cup Requests \cup Extensions!Configs
  /\ "app" \notin Commands
  /\ None \notin Nat
  /\ None \notin [owner : Commands \cup {"app"}, key : Nat]
  /\ None \notin [key : Nat \cup {None}, met : Nat \cup {None}]
  /\ None \notin Sources
  /\ None \notin [of : Sources, picked : BOOLEAN, takes : SUBSET {"image", "pdf"},
                 early : BOOLEAN, auto : BOOLEAN]
  /\ None \notin [of : Nat, ok : BOOLEAN, overtaken : BOOLEAN]
  /\ Contributed!ContributionsAssumption

(* And so for what the windows show.                                            *)
ASSUME WindowsAssumption ==
  /\ MaxWindows \in Nat /\ MaxSaves \in Nat /\ MaxTabs \in Nat /\ MaxToasts \in Nat
  /\ None \notin Nat \X {"root"}
  /\ None \notin [bounds : Shown!Geometries \cup {None}, edits : Nat, revision : Nat]
  /\ None \notin [bounds : Shown!Geometries, by : Nat]

(* And so for what the records hold.                                           *)
ASSUME RecordsAssumption ==
  /\ None \notin {"loaded", "failed", "empty", "references", "host/v1", "local/v1"}
  /\ (\A routes \in SUBSET Routes : routes # None) /\ None \notin Documents!Choices
  /\ None \notin [harness : Harnesses \cup {Documents!Unset},
                 model : Routes \cup {None, Documents!Unset},
                 byHarness : Documents!Choices \cup {None}]
  /\ MaxSessions \in Nat /\ None # "user"
  /\ MaxWorks \in Nat /\ (\A ks \in SUBSET DirKeys : ks # None) /\ None \notin Stored
  /\ MaxProviders \in Nat /\ MaxModels \in Nat
  /\ None \notin Config!Configs /\ Newer \notin Config!Configs /\ None # Newer

extensionVars == <<files, disk, cache, tmp, good, enabledCell, supervisedCell, owners,
                   children, op, edit, asked, done, refreshing, request, ops, edits,
                   faults, overlapped, dangling, broken, leftBehind>>
contributionVars == <<root, extensionSource, fetchHead, recorded, view, installs, hand,
                      trusted, meddled, overlapping, stale, littered, begun, placings,
                      failures>>
terminalVars == <<tabs, pane, exited, told, opening, listening, toHost, toView, shells,
                  deleted, linked, tabIds, clicks, spawns, breaks, strays>>
desktopVars == <<burst, proxyUp, startCap, window, gate, quit, drain, drainCap, requits,
                 leaves, page, socket, closing, sockets, connected, timer, attempts,
                 gaveUp, late, reloadedLive>>
updaterVars == <<phase, checks, origin, downloads, applying, quitting, seen, awaited,
                 coming, reads, crossed, stayed, missed>>
modelVars == <<models, configured, version, described, port, instanceCache, stage, key,
               url, handle, changes>>
streamVars == <<wire, reasoning, attempt, parts, captured, firstChunk, errorYielded,
                source, answer, body, given, gone>>
conversationVars == <<dialect, turns>>
routeVars == <<proxy, keyFile, gui, agent, cli, keys, runs, agents, turmoil, misfiled>>
libraryVars == <<project, rows, title, run, hadName, nameSource, refinement, projects,
                 sessionPage, replies, frames, launches, calls, resumes, restarts, named,
                 overtaken, lateNames, listsCrossed, untold>>
configVars == <<configFile, cached, configCalls, command, shown, gen, loads, minted,
                editsAsked, commands, loaded, starts, truth, secrets, editsCrossed,
                foreign, overread, unheard>>
dirVars == <<platform, custom, dirs, channel, dirStage, cachedDoc, keychain, doomed,
             launched, works, deaths, resets, deletedBy, erased, spoiled, addedLate>>
migrationVars == <<written, doc, at, outcome>>
uploadVars == <<harness, route, staged, ingests, reading, bubbles, stored, over, dragDepth,
                switches, losses, ingested, messages, owed, swept>>
noticeVars == <<log, episode, running, rootsSeen, focusedFlag, viewing, connection, toasts,
                native, retold, owedNotes, shoved, replays, others>>
windowVars == <<windows, openFrames, config, pendingBounds, flushes, saving,
                holder, focusEvents, focused, external, pages, moves, saves, focusTurns,
                trips, lastMove, crossedSaves>>
launchVars == <<posix, installed, demo, launchAnswer, probe, pathProbes, searchPath, menu,
                mounting, launching, results, started>>
probeVars == <<openPage, draft, probes, discovering, testing, verdict, descriptor, form,
               asks, fetched, lists, saved, attempted, listings>>

applicationVars == <<extensionVars, contributionVars, terminalVars, desktopVars,
                     updaterVars>>
proxyVars == <<modelVars, streamVars, conversationVars, routeVars>>
recordVars == <<libraryVars, configVars, dirVars, migrationVars>>
viewVars == <<uploadVars, noticeVars, windowVars, launchVars, probeVars>>

Focus == {"extensions", "contributions", "terminals", "shell", "updates", "factory", "relay",
          "parsing", "routes", "library", "config", "dataDirs", "migrations", "uploads",
          "notices", "windows", "launches", "probes"}

MCInit ==
  /\ focus \in Focus
  /\ Extensions!ExtInit
  /\ Contributed!ContributionsInit
  /\ focus # "contributions" => extensionSource = [i \in Ids |-> Contributed!Claiming(i)]
  /\ Terms!TermInit
  /\ Shell!ShellInit
  /\ Updates!UpdateInit
  /\ Factory!FactoryInit
  /\ Relayed!RelayInit
  /\ focus # "relay" => wire = "openai" /\ ~reasoning
  /\ Parsing!ParsingInit
  /\ focus # "parsing" => dialect = "messages"
  /\ Running!RouteInit
  /\ Library!LibraryInit
  /\ Config!ConfigInit
  /\ focus # "config" => configFile # Newer
  /\ Directories!DirsInit
  /\ focus # "dataDirs" => platform = "macos" /\ ~custom /\ dirs = [d \in DOMAIN dirs |-> None] /\ keychain = {}
  /\ focus = "dataDirs" /\ custom => platform = "macos"
  /\ Documents!MigrationInit
  /\ focus # "migrations" => written.version = None /\ written.models = {} /\ written.settings.harness = Documents!Unset
       /\ written.settings.byHarness = [h \in Harnesses |-> None]
       /\ written.key.secrets = "empty" /\ written.sdk.sdk = "openai"
  /\ Attachments!UploadsInit
  /\ focus # "uploads" => harness = None
  /\ Notices!NoticesInit
  /\ Shown!WindowsInit
  /\ focus # "windows" => config.bounds = None
  /\ focus = "windows" => config.bounds \in {None, "unusable"}
  /\ Starting!LaunchesInit
  /\ focus # "launches" => posix /\ demo /\ installed = [p \in DOMAIN installed |-> IF p = "true" THEN {"baseDir"} ELSE {}]
  /\ focus = "launches" => demo /\ installed["claude"] \subseteq {"shellDir"} /\ installed["gemini"] = {"shellDir"}
  /\ Probing!ProbesInit
  /\ focus # "probes" => openPage = "models" /\ descriptor.strategy = "none" /\ descriptor.defaultUrl = None
       /\ descriptor.serverUrl = None /\ ~descriptor.plugin

MCNext ==
  /\ UNCHANGED focus
  /\ \/ focus = "extensions" /\ Extensions!ExtNext
       /\ UNCHANGED <<contributionVars, terminalVars, desktopVars, updaterVars, proxyVars,
                       recordVars, viewVars>>
     \/ focus = "contributions" /\ Contributed!ContributionsNext
       /\ UNCHANGED <<extensionVars, terminalVars, desktopVars, updaterVars, proxyVars,
                       recordVars, viewVars>>
     \/ focus = "terminals" /\ Terms!TermNext
       /\ UNCHANGED <<extensionVars, contributionVars, desktopVars, updaterVars, proxyVars,
                       recordVars, viewVars>>
     \/ focus = "shell" /\ Shell!ShellNext
       /\ UNCHANGED <<extensionVars, contributionVars, terminalVars, updaterVars,
                       proxyVars, recordVars, viewVars>>
     \/ focus = "updates" /\ Updates!UpdateNext
       /\ UNCHANGED <<extensionVars, contributionVars, terminalVars, desktopVars,
                       proxyVars, recordVars, viewVars>>
     \/ focus = "factory" /\ Factory!FactoryNext
       /\ UNCHANGED <<streamVars, conversationVars, routeVars, applicationVars, recordVars,
                       viewVars>>
     \/ focus = "relay" /\ Relayed!RelayNext
       /\ UNCHANGED <<modelVars, conversationVars, routeVars, applicationVars, recordVars,
                       viewVars>>
     \/ focus = "parsing" /\ Parsing!ParsingNext
       /\ UNCHANGED <<modelVars, streamVars, routeVars, applicationVars, recordVars,
                       viewVars>>
     \/ focus = "routes" /\ Running!RouteNext
       /\ UNCHANGED <<modelVars, streamVars, conversationVars, applicationVars, recordVars,
                       viewVars>>
     \/ focus = "library" /\ Library!LibraryNext
       /\ UNCHANGED <<configVars, dirVars, migrationVars, applicationVars, proxyVars,
                       viewVars>>
     \/ focus = "config" /\ Config!ConfigNext
       /\ UNCHANGED <<libraryVars, dirVars, migrationVars, applicationVars, proxyVars,
                       viewVars>>
     \/ focus = "dataDirs" /\ Directories!DirsNext
       /\ UNCHANGED <<libraryVars, configVars, migrationVars, applicationVars, proxyVars,
                       viewVars>>
     \/ focus = "migrations" /\ Documents!MigrationNext
       /\ UNCHANGED <<libraryVars, configVars, dirVars, applicationVars, proxyVars,
                       viewVars>>
     \/ focus = "uploads" /\ Attachments!UploadsNext
       /\ UNCHANGED <<noticeVars, windowVars, launchVars, probeVars, applicationVars,
                       proxyVars, recordVars>>
     \/ focus = "notices" /\ Notices!NoticesNext
       /\ UNCHANGED <<uploadVars, windowVars, launchVars, probeVars, applicationVars,
                       proxyVars, recordVars>>
     \/ focus = "windows" /\ Shown!WindowsNext
       /\ UNCHANGED <<uploadVars, noticeVars, launchVars, probeVars, applicationVars,
                       proxyVars, recordVars>>
     \/ focus = "launches" /\ Starting!LaunchesNext
       /\ UNCHANGED <<uploadVars, noticeVars, windowVars, probeVars, applicationVars,
                       proxyVars, recordVars>>
     \/ focus = "probes" /\ Probing!ProbesNext
       /\ UNCHANGED <<uploadVars, noticeVars, windowVars, launchVars, applicationVars,
                       proxyVars, recordVars>>

MCSpec == MCInit /\ [][MCNext]_<<focus, applicationVars, proxyVars, recordVars, viewVars>>

\* Every variable of the component that moves has its type.
DesktopTypesOK ==
  /\ focus = "extensions" => Extensions!ExtTypeOK
  /\ focus = "contributions" => Contributed!ContributionsTypeOK
  /\ focus = "terminals" => Terms!TermTypeOK
  /\ focus = "shell" => Shell!ShellTypeOK
  /\ focus = "updates" => Updates!UpdateTypeOK
  /\ focus = "factory" => Factory!FactoryTypeOK
  /\ focus = "relay" => Relayed!RelayTypeOK
  /\ focus = "parsing" => Parsing!ParsingTypeOK
  /\ focus = "routes" => Running!RouteTypeOK
  /\ focus = "library" => Library!LibraryTypeOK
  /\ focus = "config" => Config!ConfigTypeOK
  /\ focus = "dataDirs" => Directories!DirsTypeOK
  /\ focus = "migrations" => Documents!MigrationTypeOK
  /\ focus = "uploads" => Attachments!UploadsTypeOK
  /\ focus = "notices" => Notices!NoticesTypeOK
  /\ focus = "windows" => Shown!WindowsTypeOK
  /\ focus = "launches" => Starting!LaunchesTypeOK
  /\ focus = "probes" => Probing!ProbesTypeOK

\* A disabled or removed extension has nothing running once the operations on it
\* are over (extension-admin.ts setEnabled and remove, create-app-context.ts
\* retainConfiguredInstances), and the files of the extensions and the records of
\* the configuration agree between operations, whichever step of one fails, but for the
\* files that a rollback or a clean-up leaves which fails itself (installer.ts,
\* extension-admin.ts). And, the command line at work beside the
\* application: no two share a contribution id, what the user placed under the root stays,
\* and the registry, which fails as a whole, lists (installer.ts, registry.ts, adapters.ts).
ExtensionsAreSound ==
  /\ focus = "extensions" => Extensions!InertWhenDisabled /\ Extensions!FilesMatchRecords
  /\ focus = "contributions" => Contributed!ContributionsAreSound

\* The window shows what is so. Shells have tabs and tabs tell the truth about their
\* shells, whatever order frames, exits and clicks come in (pty/src/manager.ts,
\* terminalStore.ts, useTerminal.ts); the composer's tray holds the files the user gave,
\* those that can be sent, and no other (useUploads.ts, Composer.tsx, ingest-uploads.ts);
\* what the settings pages show of a provider is of the one in their form
\* (ProvidersPage.tsx, ModelsPage.tsx, useAsyncResource.ts, model-lister.ts). The process tells
\* the end of a session's first run once, as it happens, and toasts are few and different
\* (composition.ts, app.tsx, notifications-model.ts);
\* windows keep their bounds, their focus and their page (window.ts, window-bounds-io.ts); and
\* what is launched from one or from the tray is what the user's terminal would run
\* (resolve-path.ts, launch.ts, tray.ts).
WindowAgrees ==
  /\ focus = "terminals" => Terms!TerminalsAgree
  /\ focus = "uploads" => Attachments!UploadsAreSound
  /\ focus = "probes" => Probing!ProbesAreSound
  /\ focus = "notices" => Notices!NoticesAreSound
  /\ focus = "windows" => Shown!WindowsAreSound
  /\ focus = "launches" => Starting!LaunchesAreSound

\* Nothing of the application waits on what will not come: a phase of the
\* updater has its work, unless the engine's install came back undone (electrobun-updater.ts),
\* a download that no check crossed is seen, unless the answer that tells of it was lost
\* (updateStore.ts), a held quit has drained or has its timer (quit-gate.ts), and
\* a lost renderer has one (renderer-watchdog.ts).
NothingIsStuck ==
  /\ focus = "updates" => Updates!PhaseHasWork /\ Updates!DownloadIsSeen
  /\ focus = "shell" => Shell!QuitDrains /\ Shell!WatchdogWatches

\* Whoever is sent to the proxy has its key, and each proxy an owner that stops it
\* (main.ts, create-app-context.ts, launch-command.ts, runtime-state.ts). The proxy serves a
\* request by an instance made for what it resolved
\* (factory.ts), the provider is told what the harness said, results behind
\* their calls (the three request adapters), and the harness reads what the
\* provider said, up to its first terminal frame, which is the only one unless the provider
\* goes on after an ending (real-gateway.ts, handler.ts and the three stream adapters).
ProxyIsFaithful ==
  /\ focus = "routes" => Running!RoutesAreSound
  /\ focus = "factory" => Factory!HandlesAreCurrent
  /\ focus = "parsing" => Parsing!ResultsFollowCalls
  /\ focus = "relay" => Relayed!RelayIsFaithful

\* Once edits have crossed, a command has saved behind the cache or a load was overtaken,
\* for good, the configuration promises nothing more: the run goes no further from there.
WhileFollowed == focus = "config" => Config!Followed

\* The records are what was asked for, each but for the cases its own property names.
\* Sessions: the name the user gave stays, the model names none that is over (manager.ts,
\* name-generator.ts), and the window's lists follow the rows it was told of
\* (projectsStore.ts, data-admin). Configuration: an edit that was acknowledged and a secret
\* that was set stay, the application works on what the file holds, and the settings pages
\* show it, while nothing crosses and no load is overtaken (handlers.ts, cached-store.ts,
\* resource.ts); a document of an earlier version can be read and loses no choice but the
\* inline key of v1 (migrations.ts); and so for the data of an earlier build, each release
\* channel having its own, until a factory reset, after which nothing comes back but to a
\* canary build or by a late save (paths.ts, migrate-*.ts, reset-app.ts).
RecordsAreSound ==
  /\ focus = "library" => Library!LibraryIsSound
  /\ focus = "config" => Config!ConfigIsSound
  /\ focus = "migrations" => Documents!MigrationIsSound
  /\ focus = "dataDirs" => Directories!DirsAreSound
=============================================================================

------------------------------- MODULE DataDirs -------------------------------
(***************************************************************************)
(* The directories the builds of the application keep their data in: which  *)
(* one a release channel uses, what a start copies from earlier builds       *)
(* (create-app-context.ts, the two migrate-*.ts), and the factory reset that *)
(* is to leave nothing behind (reset-app.ts, relaunch.ts).  A start may die  *)
(* at any step.  One build runs at a time.                                   *)
(***************************************************************************)
EXTENDS Naturals

CONSTANTS
  None,
  MaxLaunches,   \* bound: starts of the application
  MaxWorks,      \* bound: things the user saves
  MaxDeaths,     \* bound: starts that die halfway
  MaxResets      \* bound: factory resets

VARIABLES
  platform,      \* of the computer
  custom,        \* SPECTRUM_DATA_DIR names the directory of every channel
  dirs,          \* what each directory holds, None while it is not there
  channel,       \* of the build that runs, or ran last
  stage,         \* how far it has come; "down" when nothing runs
  cachedDoc,     \* the configuration it has in memory
  keychain,      \* the secrets kept, by the service of the builds that share them
  doomed,        \* the secrets a reset has still to delete
  launched, works, deaths, resets,   \* bounded counters
  deletedBy,     \* history: for whose directory a secret was deleted
  erased,        \* history: what resets have removed
  spoiled,       \* history: directories written after their wipe, or wiped in part
  addedLate      \* history: secrets set while a reset was deleting them

dirVars == <<platform, custom, dirs, channel, stage, cachedDoc, keychain, doomed, launched, works,
             deaths, resets, deletedBy, erased, spoiled, addedLate>>

Channels == {"stable", "canary", "development"}
Names == {"legacy", "launchkit", "spectrum", "canary", "dev", "custom"}
Blank == [config |-> {}, oldDb |-> None, db |-> None, marks |-> {}, tags |-> {}]

SharedDirOf(ch) ==
  IF custom THEN "custom" ELSE IF ch = "development" THEN "dev" ELSE "spectrum"

\* Where a channel keeps its data, and the two places of the builds before it; the first of
\* them is the second one on Linux.
DirOf(ch) ==
  IF custom THEN "custom"
  ELSE IF ch = "development" THEN "dev" ELSE IF ch = "canary" THEN "canary" ELSE "spectrum"
Mine == DirOf(channel)
LegacyMacos == IF platform = "linux" THEN "launchkit" ELSE "legacy"

\* Stable and canary builds share the keychain; a development build has its own.
Service(ch) == IF ch = "development" THEN "spectrum-dev" ELSE "spectrum"

\* What an earlier build had saved: a provider with its secret, and a session.
Provider(s) == [by |-> s, n |-> 0]
Session(s) == [by |-> s, n |-> 1]
Earlier(s) == [Blank EXCEPT !.config = {Provider(s)}, !.oldDb = {Session(s)}]

DirsInit ==
  /\ platform \in {"macos", "linux", "windows"} /\ custom \in BOOLEAN
  /\ \E has \in SUBSET {"legacy", "launchkit"}, did \in SUBSET {"support", "spectrum"} :
       /\ "legacy" \in has => platform = "macos"
       /\ did # {} => has # {}
       /\ dirs = [d \in Names |-> IF d \notin has THEN None
                                  ELSE [Earlier(d) EXCEPT !.marks =
                                          IF d = "legacy" THEN did \cap {"support"} ELSE {}]]
       /\ keychain = {[service |-> "spectrum", key |-> Provider(s)] : s \in has}
  /\ channel = "stable" /\ stage = "down" /\ cachedDoc = {} /\ doomed = {}
  /\ launched = 0 /\ works = 0 /\ deaths = 0 /\ resets = 0
  /\ deletedBy = {} /\ erased = [d \in Names |-> {}] /\ spoiled = {} /\ addedLate = {}

----------------------------------------------------------------------------
(* A start.                                                                *)

pastVars == <<deletedBy, erased, spoiled, addedLate>>
Steps(from, to) == stage = from /\ stage' = to
RestOfStart == UNCHANGED <<platform, custom, channel, keychain, doomed, launched, works, resets,
                           pastVars>>

\* A development build has nothing to migrate.
Launch(ch) ==
  /\ launched < MaxLaunches /\ launched' = launched + 1
  /\ Steps("down", IF ch = "development" THEN "opening" ELSE "legacy")
  /\ channel' = ch
  /\ UNCHANGED <<platform, custom, dirs, cachedDoc, keychain, doomed, works, deaths, resets, pastVars>>

\* What a copy leaves when the process dies in it: all, some files or none.
Torn(s) == {[dirs[s] EXCEPT !.tags = @ \cup {"torn"}, !.config = c, !.oldDb = o, !.db = None] :
              c \in {{}, dirs[s].config}, o \in {None, dirs[s].oldDb}}

\* Copying `s` to `t` before going to the stage `next`; the next start will find `t` there.
Copies(s, t, next) ==
  \/ /\ dirs' = [dirs EXCEPT ![t] = [dirs[s] EXCEPT !.tags = @ \cup {s}]]
     /\ stage' = next /\ UNCHANGED deaths
  \/ /\ deaths < MaxDeaths /\ deaths' = deaths + 1
     /\ \E left \in Torn(s) : dirs' = [dirs EXCEPT ![t] = left]
     /\ stage' = "down"
Due(s, t, mark) == dirs[s] # None /\ mark \notin dirs[s].marks /\ dirs[t] = None

\* ~/.config/launchkit, on macOS only.
MigratesLegacy ==
  /\ stage = "legacy"
  /\ IF platform = "macos" /\ Due("legacy", DirOf("stable"), "support")
     THEN Copies("legacy", DirOf("stable"), "marking")
     ELSE stage' = "launchkit" /\ UNCHANGED <<dirs, deaths>>
  /\ UNCHANGED cachedDoc /\ RestOfStart
MarksLegacy ==
  /\ Steps("marking", "launchkit")
  /\ dirs' = [dirs EXCEPT !["legacy"].marks = @ \cup {"support"}]
  /\ UNCHANGED <<cachedDoc, deaths>> /\ RestOfStart

\* The directory from before the application was renamed, with its database's name.
MigratesLaunchkit ==
  /\ stage = "launchkit"
  /\ IF Due("launchkit", DirOf("stable"), "spectrum")
     THEN Copies("launchkit", DirOf("stable"), "renaming")
     ELSE stage' = "seeding" /\ UNCHANGED <<dirs, deaths>>
  /\ UNCHANGED cachedDoc /\ RestOfStart
RenamesNothing ==
  /\ Steps("renaming", "markingLaunchkit") /\ UNCHANGED <<dirs, cachedDoc, deaths>> /\ RestOfStart
RenamesDb ==
  /\ Steps("renaming", "markingLaunchkit")
  /\ LET t == DirOf("stable") IN
       dirs' = IF dirs[t].oldDb = None THEN dirs
               ELSE [dirs EXCEPT ![t].db = dirs[t].oldDb, ![t].oldDb = None]
  /\ UNCHANGED <<cachedDoc, deaths>> /\ RestOfStart
MarksLaunchkit ==
  /\ Steps("markingLaunchkit", "seeding")
  /\ dirs' = [dirs EXCEPT !["launchkit"].marks = @ \cup {"spectrum"}]
  /\ UNCHANGED <<cachedDoc, deaths>> /\ RestOfStart

\* A canary build without data begins with what the stable build has.
SeedsCanary ==
  /\ stage = "seeding"
  /\ IF channel = "canary" /\ dirs[DirOf("canary")] = None /\ dirs[DirOf("stable")] # None
     THEN Copies(DirOf("stable"), DirOf("canary"), "opening")
     ELSE stage' = "opening" /\ UNCHANGED <<dirs, deaths>>
  /\ UNCHANGED cachedDoc /\ RestOfStart

\* The directory is made, the database opened, and the configuration read.
Opens ==
  /\ Steps("opening", "up")
  /\ LET d == IF dirs[Mine] = None THEN Blank ELSE dirs[Mine] IN
       /\ dirs' = [dirs EXCEPT ![Mine] = [d EXCEPT !.db = IF d.db = None THEN {} ELSE d.db]]
       /\ cachedDoc' = d.config
  /\ UNCHANGED deaths /\ RestOfStart

\* The process ends between two steps of its start.
Dies ==
  /\ stage \in {"marking", "renaming", "markingLaunchkit", "opening"}
  /\ deaths < MaxDeaths /\ deaths' = deaths + 1
  /\ stage' = "down"
  /\ dirs' = IF stage = "renaming" THEN [dirs EXCEPT ![DirOf("stable")].tags = @ \cup {"torn"}]
             ELSE dirs
  /\ UNCHANGED cachedDoc /\ RestOfStart

----------------------------------------------------------------------------
(* Work, the reset, and the end.                                           *)

Up == stage \in {"up", "clearing"}

\* A provider is saved with its secret.
AddsProvider ==
  /\ Up /\ works < MaxWorks /\ works' = works + 1
  /\ LET t == [by |-> channel, n |-> works + 2] IN
       /\ keychain' = keychain \cup {[service |-> Service(channel), key |-> t]}
       /\ cachedDoc' = cachedDoc \cup {t}
       /\ dirs' = [dirs EXCEPT ![Mine].config = cachedDoc \cup {t}]
       /\ addedLate' = IF stage = "clearing" THEN addedLate \cup {t} ELSE addedLate
  /\ UNCHANGED <<platform, custom, channel, stage, doomed, launched, deaths, resets, deletedBy,
                 erased, spoiled>>
RecordsSession ==
  /\ Up /\ works < MaxWorks /\ works' = works + 1
  /\ dirs' = [dirs EXCEPT ![Mine].db = @ \cup {[by |-> channel, n |-> works + 2]}]
  /\ UNCHANGED <<platform, custom, channel, stage, cachedDoc, keychain, doomed, launched, deaths,
                 resets, pastVars>>

\* The secrets to delete are those of the configuration as it was when the reset began.
Reset ==
  /\ Steps("up", "clearing")
  /\ resets < MaxResets /\ resets' = resets + 1
  /\ doomed' = cachedDoc
  /\ UNCHANGED <<platform, custom, dirs, channel, cachedDoc, keychain, launched, works, deaths, pastVars>>

\* Best effort: a secret that cannot be deleted is left.
DeletesSecret(t) ==
  /\ stage = "clearing" /\ t \in doomed /\ doomed' = doomed \ {t}
  /\ \/ /\ keychain' = keychain \ {[service |-> Service(channel), key |-> t]}
        /\ deletedBy' = deletedBy \cup {[key |-> t, dir |-> Mine]} /\ UNCHANGED addedLate
     \/ addedLate' = addedLate \cup {t} /\ UNCHANGED <<keychain, deletedBy>>
  /\ UNCHANGED <<platform, custom, dirs, channel, stage, cachedDoc, launched, works, deaths, resets,
                 erased, spoiled>>

Held(d) == IF dirs[d] = None THEN {}
           ELSE dirs[d].config \cup (IF dirs[d].db = None THEN {} ELSE dirs[d].db)
Removed(s) == dirs' = [d \in Names |-> IF d \in s THEN None ELSE dirs[d]]
Erases(s) == erased' = [erased EXCEPT ![Mine] = @ \cup UNION {Held(d) : d \in s \cup {Mine}}]

WipesOwnOnly ==
  /\ stage = "clearing" /\ doomed = {}
  /\ Removed({Mine}) /\ Erases({"launchkit", LegacyMacos})
  /\ stage' = "leaving"
  /\ UNCHANGED <<platform, custom, channel, cachedDoc, keychain, doomed, launched, works, deaths,
                 resets, deletedBy, spoiled, addedLate>>

\* The database is closed and the directories removed, those of earlier builds too, or a
\* start would bring their data back. A removal that throws ends the reset there.
Wipes ==
  /\ stage = "clearing" /\ doomed = {}
  /\ \/ /\ Removed({Mine, "launchkit", LegacyMacos}) /\ Erases({"launchkit", LegacyMacos})
        /\ stage' = "leaving" /\ UNCHANGED spoiled
     \/ /\ \E s \in {{}, {Mine}, {Mine, LegacyMacos}} : Removed(s)
        /\ stage' = "broken" /\ spoiled' = spoiled \cup {Mine} /\ UNCHANGED erased
  /\ UNCHANGED <<platform, custom, channel, cachedDoc, keychain, doomed, launched, works, deaths,
                 resets, deletedBy, addedLate>>

\* A save that was under way, or the debounced bounds of the window, writes the
\* configuration that is still in memory.
SavesLate ==
  /\ stage \in {"leaving", "broken"}
  /\ LET d == IF dirs[Mine] = None THEN Blank ELSE dirs[Mine] IN
       dirs' = [dirs EXCEPT ![Mine] = [d EXCEPT !.config = cachedDoc]]
  /\ spoiled' = spoiled \cup {Mine}
  /\ UNCHANGED <<platform, custom, channel, stage, cachedDoc, keychain, doomed, launched, works,
                 deaths, resets, deletedBy, erased, addedLate>>

\* The process ends; after a reset a shell waits for that and starts the same build again,
\* on Windows the user does. The user may quit while secrets are being deleted.
Exits ==
  /\ stage \in {"up", "clearing", "leaving", "broken"}
  /\ spoiled' = IF stage = "clearing" THEN spoiled \cup {Mine} ELSE spoiled
  /\ IF stage = "leaving" /\ platform # "windows" /\ launched < MaxLaunches
     THEN /\ launched' = launched + 1
          /\ stage' = IF channel = "development" THEN "opening" ELSE "legacy"
     ELSE stage' = "down" /\ UNCHANGED launched
  /\ cachedDoc' = {} /\ doomed' = {}
  /\ UNCHANGED <<platform, custom, dirs, channel, keychain, works, deaths, resets, deletedBy, erased,
                 addedLate>>

DirsNext ==
  \/ \E ch \in Channels : Launch(ch)
  \/ MigratesLegacy \/ MarksLegacy \/ MigratesLaunchkit \/ RenamesDb \/ MarksLaunchkit
  \/ SeedsCanary \/ Opens \/ Dies
  \/ AddsProvider \/ RecordsSession
  \/ Reset \/ \E t \in doomed : DeletesSecret(t)
  \/ Wipes \/ SavesLate \/ Exits

DirsSpec == DirsInit /\ [][DirsNext]_dirVars

----------------------------------------------------------------------------
Stages == {"down", "legacy", "marking", "launchkit", "renaming", "markingLaunchkit", "seeding",
           "opening", "up", "clearing", "leaving", "broken"}
DirsTypeOK ==
  /\ platform \in {"macos", "linux", "windows"} /\ custom \in BOOLEAN /\ channel \in Channels
  /\ stage \in Stages /\ spoiled \subseteq Names
  /\ \A d \in Names : dirs[d] # None => DOMAIN dirs[d] = DOMAIN Blank
  /\ Up => dirs[Mine] # None /\ cachedDoc = dirs[Mine].config

\* What an earlier build had saved is found by the next one, its sessions under their new
\* name, unless a start died while it was copied; the copy of ~/.config/launchkit keeps
\* the old name (migrate-legacy-config.ts).
EarlierDataIsThere ==
  Up => LET d == dirs[Mine] IN
    \A s \in d.tags \cap {"legacy", "launchkit"} :
      "torn" \notin d.tags => /\ Provider(s) \in d.config
                              /\ s = "launchkit" => Session(s) \in d.db

\* No build sees what a less stable one has saved, or a development build anything but
\* its own, unless the user gave them one directory (paths.ts, migrate-canary-data.ts).
ChannelsApart ==
  /\ ~custom /\ dirs["dev"] # None => \A t \in Held("dev") : t.by = "development"
  /\ ~custom => \A t \in Held("spectrum") : t.by \notin {"canary", "development"}
  /\ ~custom => \A t \in Held("canary") : t.by # "development"

\* After a factory reset none of what it removed comes back, but in two cases in which it does,
\* against reset-app.ts:23 ("a factory reset is a clean slate that re-migration cannot
\* restore"): a canary build, whose stable directory is not among those that are wiped, is
\* seeded from it again (migrate-canary-data.ts), and a save of the process that is leaving
\* writes the old configuration anew.
CleanSlate ==
  Up /\ Mine \notin spoiled /\ Mine # "canary" => Held(Mine) \cap erased[Mine] = {}

\* The secrets of what was erased are gone too, but those that could not be deleted or
\* were set meanwhile; and a configuration has its secrets, unless a reset of the other
\* build with the same keychain has deleted them, or of a canary build that is then seeded
\* with them again (reset-app.ts, create-app-context.ts).
SecretsFollow ==
  /\ stage = "leaving" /\ Mine \notin spoiled => \A t \in cachedDoc :
       [service |-> Service(channel), key |-> t] \notin keychain \/ t \in addedLate
  /\ stage = "up" /\ Mine \notin spoiled => \A t \in cachedDoc :
       \/ [service |-> Service(channel), key |-> t] \in keychain
       \/ Service(t.by) # Service(channel)
       \/ \E e \in Names : [key |-> t, dir |-> e] \in deletedBy /\ (e # Mine \/ e = "canary")

DirsAreSound == EarlierDataIsThere /\ ChannelsApart /\ CleanSlate /\ SecretsFollow
=============================================================================

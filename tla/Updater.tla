------------------------------- MODULE Updater -------------------------------
(***************************************************************************)
(* The updater: the phase the adapter keeps over the native update engine, *)
(* the checks, downloads and installs that write it while they overlap,    *)
(* the poller, and the store of the window that follows by answers, pushes *)
(* and polling.  Versions, channels and the dismissal of a build are left  *)
(* out; the engine is external.                                            *)
(***************************************************************************)
EXTENDS Naturals

CONSTANTS
  MaxChecks,     \* bound: network checks
  MaxDownloads,  \* bound: downloads
  MaxReads       \* bound: snapshots the window asks for

VARIABLES
  phase,         \* raw.phase
  checks,        \* stage of each check: "none", "loading", "asking", "building", "done"
  origin,        \* who asked for it: "poll", "user" or "push"
  downloads,     \* stage of each download: "none", "loading", "running", "done"
  applying,      \* apply() is in flight
  stayed,        \* the last apply() came back and nothing was replaced
  quitting,      \* the application is going down to be replaced
  seen,          \* the phase in the window's store, "none" before the first
  awaited,         \* snapshots the window has asked for and not got
  coming,        \* snapshots on their way to the window
  reads,         \* snapshots asked for
  crossed,       \* history: something else of the updater crossed a download
  missed         \* history: a window that showed no download lost the answer that tells of it

updateVars == <<phase, checks, origin, downloads, applying, quitting, seen, awaited,
                coming, reads, crossed, stayed, missed>>

Phases == {"idle", "checking", "available", "up-to-date", "downloading", "downloaded",
           "applying", "error"}

UpdateInit ==
  /\ phase = "idle" /\ seen = "none" /\ awaited = 0 /\ coming = {} /\ reads = 0
  /\ checks = [c \in 1..MaxChecks |-> "none"]
  /\ origin = [c \in 1..MaxChecks |-> "none"]
  /\ downloads = [d \in 1..MaxDownloads |-> "none"]
  /\ applying = FALSE /\ quitting = FALSE /\ stayed = FALSE /\ crossed = FALSE /\ missed = FALSE

Checking(c) == checks[c] \in {"loading", "asking"}
Downloading(d) == downloads[d] \in {"loading", "running"}

\* A check is asked for; the settings and the channel are read first.
Begins(c, who) ==
  /\ checks[c] = "none" /\ \A b \in 1..MaxChecks : b < c => checks[b] # "none"
  /\ checks' = [checks EXCEPT ![c] = "loading"]
  /\ origin' = [origin EXCEPT ![c] = who]

\* tick: a cycle is skipped while a download or an install owns the phase.
Polls(c) ==
  /\ ~quitting /\ phase \notin {"downloading", "applying"}
  /\ Begins(c, "poll")
  /\ UNCHANGED <<phase, downloads, applying, quitting, seen, awaited, coming, reads,
                 crossed, stayed, missed>>

\* checkForUpdate, and setUpdateChannel within one channel.
UserChecks(c) ==
  /\ ~quitting /\ Begins(c, "user")
  /\ UNCHANGED <<phase, downloads, applying, quitting, seen, awaited, coming, reads,
                 crossed, stayed, missed>>

\* check(): the phase is "checking" whatever it was.
Asks(c) ==
  /\ ~quitting /\ checks[c] = "loading"
  /\ checks' = [checks EXCEPT ![c] = "asking"]
  /\ phase' = "checking"
  /\ crossed' = (crossed \/ \E d \in 1..MaxDownloads : Downloading(d))
  /\ UNCHANGED <<origin, downloads, applying, quitting, seen, awaited, coming, reads,
                 stayed, missed>>

AnswersSilently(c) ==
  /\ ~quitting /\ checks[c] = "asking"
  /\ checks' = [checks EXCEPT ![c] = "building"]
  /\ phase' \in {"available", "up-to-date", phase}
  /\ UNCHANGED <<origin, downloads, applying, quitting, seen, awaited, coming, reads,
                 crossed, stayed, missed>>

\* The feed answers, or cannot be reached: the phase is set whatever it was.
Answers(c) ==
  /\ ~quitting /\ checks[c] = "asking"
  /\ checks' = [checks EXCEPT ![c] = "building"]
  /\ phase' \in {"available", "up-to-date", "error"}
  /\ UNCHANGED <<origin, downloads, applying, quitting, seen, awaited, coming, reads,
                 crossed, stayed, missed>>

\* buildUpdateState reads the phase there is by now, for the push socket or the
\* caller, whom the answer may not reach.  A check asked for by the user also pushes, and a
\* push checks again.
Builds(c) ==
  /\ ~quitting /\ checks[c] = "building"
  /\ coming' \in {coming \union {phase}, coming}
  /\ LET again == {b \in 1..MaxChecks : checks[b] = "none" /\
                     \A a \in 1..MaxChecks : a < b => checks[a] # "none"}
         more == IF origin[c] = "user" THEN again ELSE {}
     IN /\ checks' = [b \in 1..MaxChecks |->
             IF b = c THEN "done" ELSE IF b \in more THEN "loading" ELSE checks[b]]
        /\ origin' = [b \in 1..MaxChecks |-> IF b \in more THEN "push" ELSE origin[b]]
  /\ UNCHANGED <<phase, downloads, applying, quitting, seen, awaited, reads,
                 crossed, stayed, missed>>

\* startDownload, for a window that shows an update: the phase is set at once,
\* and the window then asks for a snapshot, unless the answer to the call is lost.
UserDownloads(d, answered) ==
  /\ ~quitting /\ seen = "available"
  /\ downloads[d] = "none" /\ \A b \in 1..MaxDownloads : b < d => downloads[b] # "none"
  /\ downloads' = [downloads EXCEPT ![d] = "loading"]
  /\ phase' = "downloading"
  /\ IF answered THEN awaited' = awaited + 1 /\ UNCHANGED missed
     ELSE missed' = TRUE /\ UNCHANGED awaited
  /\ crossed' = (crossed \/ applying \/ coming # {} \/ (\E c \in 1..MaxChecks : Checking(c))
                         \/ \E b \in 1..MaxDownloads : Downloading(b))
  /\ UNCHANGED <<checks, origin, applying, quitting, seen, coming, reads, stayed>>

\* The engine is loaded and subscribed to, and reports status as it goes.
Reports(d) ==
  /\ ~quitting /\ Downloading(d)
  /\ downloads' = [downloads EXCEPT ![d] = "running"]
  /\ phase' = "downloading"
  /\ UNCHANGED <<checks, origin, applying, quitting, seen, awaited, coming, reads,
                 crossed, stayed, missed>>

\* The download is complete.
Completes(d) ==
  /\ ~quitting /\ downloads[d] = "running"
  /\ downloads' = [downloads EXCEPT ![d] = "done"]
  /\ phase' = "downloaded"
  /\ UNCHANGED <<checks, origin, applying, quitting, seen, awaited, coming, reads,
                 crossed, stayed, missed>>

\* The engine reports an error, which does not undo a staged update, or the
\* call itself fails, which does.
Fails(d) ==
  /\ ~quitting /\ Downloading(d)
  /\ downloads' = [downloads EXCEPT ![d] = "done"]
  /\ phase' \in {"error", IF phase = "downloaded" THEN phase ELSE "error"}
  /\ UNCHANGED <<checks, origin, applying, quitting, seen, awaited, coming, reads,
                 crossed, stayed, missed>>

\* apply(), for a window that shows a staged update.
UserApplies ==
  /\ ~quitting /\ ~applying /\ seen = "downloaded"
  /\ applying' = TRUE /\ stayed' = FALSE /\ phase' = "applying"
  /\ crossed' = (crossed \/ \E d \in 1..MaxDownloads : Downloading(d))
  /\ UNCHANGED <<checks, origin, downloads, quitting, seen, awaited, coming, reads, missed>>

\* The bundle is swapped and the application relaunched, or the install fails, or the engine
\* comes back with neither, and the phase is left as it is.
Applied ==
  /\ ~quitting /\ applying /\ applying' = FALSE
  /\ \/ quitting' = TRUE /\ UNCHANGED <<phase, stayed>>
     \/ phase' = "error" /\ UNCHANGED <<quitting, stayed>>
     \/ stayed' = TRUE /\ UNCHANGED <<phase, quitting>>
  /\ UNCHANGED <<checks, origin, downloads, seen, awaited, coming, reads, crossed, missed>>

\* While the window shows a download it asks for a snapshot every 800 ms.
Refreshes ==
  /\ ~quitting /\ seen = "downloading" /\ reads < MaxReads
  /\ reads' = reads + 1 /\ awaited' = awaited + 1
  /\ UNCHANGED <<phase, checks, origin, downloads, applying, quitting, seen, coming,
                 crossed, stayed, missed>>

\* getUpdateState: the snapshot is of the phase there is by now.  A read that fails is dropped:
\* a window that shows a download goes on asking, another does not.
Snapshot ==
  /\ ~quitting /\ awaited > 0 /\ awaited' = awaited - 1
  /\ \/ coming' = coming \union {phase} /\ UNCHANGED missed
     \/ missed' = (missed \/ seen # "downloading") /\ UNCHANGED coming
  /\ UNCHANGED <<phase, checks, origin, downloads, applying, quitting, seen, reads, crossed, stayed>>

\* Answers and pushes travel apart: the window adopts them in any order.
Adopts(p) ==
  /\ p \in coming /\ coming' = coming \ {p} /\ seen' = p
  /\ UNCHANGED <<phase, checks, origin, downloads, applying, quitting, awaited, reads,
                 crossed, stayed, missed>>

UpdateNext ==
  \/ \E c \in 1..MaxChecks : Polls(c) \/ UserChecks(c) \/ Asks(c) \/ Answers(c) \/ Builds(c)
  \/ \E d \in 1..MaxDownloads : \/ Reports(d) \/ Completes(d) \/ Fails(d)
                               \/ \E answered \in BOOLEAN : UserDownloads(d, answered)
  \/ UserApplies \/ Applied \/ Refreshes \/ Snapshot
  \/ \E p \in Phases : Adopts(p)

UpdateSpec == UpdateInit /\ [][UpdateNext]_updateVars

-----------------------------------------------------------------------------
UpdateTypeOK ==
  /\ phase \in Phases /\ seen \in Phases \union {"none"} /\ coming \subseteq Phases
  /\ checks \in [1..MaxChecks -> {"none", "loading", "asking", "building", "done"}]
  /\ origin \in [1..MaxChecks -> {"none", "poll", "user", "push"}]
  /\ downloads \in [1..MaxDownloads -> {"none", "loading", "running", "done"}]
  /\ applying \in BOOLEAN /\ quitting \in BOOLEAN /\ stayed \in BOOLEAN /\ missed \in BOOLEAN
  /\ reads \in 0..MaxReads /\ awaited \in 0..(MaxReads + MaxDownloads)

\* However checks, downloads and installs overlap, a phase that stands for work has work
\* behind it, but for the phase that an engine which came back without replacing the
\* application leaves standing (electrobun-updater.ts apply).
PhaseHasWork ==
  /\ phase = "checking" => \E c \in 1..MaxChecks : checks[c] = "asking"
  /\ phase = "downloading" => \E d \in 1..MaxDownloads : Downloading(d)
  /\ phase = "applying" => applying \/ quitting \/ stayed

\* A download that nothing else crosses is not overwritten, and the window shows it, or the
\* snapshot that says so is on its way or asked for, unless the answer to its start or to the
\* first read after it was lost, which nothing repeats (updateStore.ts download, refresh).
DownloadIsSeen ==
  /\ ~crossed /\ (\E d \in 1..MaxDownloads : Downloading(d))
  => /\ phase = "downloading"
     /\ awaited > 0 \/ "downloading" \in coming \/ seen = "downloading" \/ missed
=============================================================================

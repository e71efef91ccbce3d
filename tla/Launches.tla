------------------------------- MODULE Launches -------------------------------
(***************************************************************************)
(* How a harness gets its command.  A packaged application inherits a PATH   *)
(* without the user's own directories: the login shell is asked for its PATH  *)
(* at the start, off the thread that opens the window (main.ts,               *)
(* resolve-path.ts, path-env.ts), and a launch from the window or from the    *)
(* tray (tray.ts) waits for the answer; a resume and a change of model        *)
(* (create-app-context.ts) do not.  The command is looked up on the PATH of   *)
(* the moment (proc/src/adapters.ts), and is that of the harness or of the    *)
(* shim through which it speaks ACP (launch.ts).                              *)
(***************************************************************************)
EXTENDS Naturals, SequencesExt

CONSTANTS
  None,
  MaxStarted,    \* bound: launches, resumes and changes of model
  MaxEntries     \* bound: entries of the PATH a login shell prints

VARIABLES
  posix,         \* whether the platform has the well-known directories
  installed,     \* where each command is installed
  demo,          \* the harness for development is enabled
  answer,        \* what the login shell printed, None until it answers
  probe,         \* "none", "running" or "done"; started once
  probes,        \* how often a shell was started
  searchPath,    \* the PATH of the process
  menu,          \* the harnesses of the tray's menu, None before it is mounted
  mounting,      \* the registry's answer is in and the proxy is asked, None before
  launching,     \* launches under way: by whom, of what, by which route, and where
  results,       \* history: what each launch came to
  started        \* how many there were

launchVars == <<posix, installed, demo, answer, probe, probes, searchPath, menu, mounting, launching,
                results, started>>

Dirs == {"shellDir", "commonDir", "baseDir"}
\* The harnesses (builtin/index.ts): one with a shim of its own for ACP and one that speaks
\* it; a registry without that for development knows these two.
Harness ==
  [claude |-> [command |-> "claude", acp |-> "shim", rendersEnv |-> TRUE],
   gemini |-> [command |-> "gemini", acp |-> "own", rendersEnv |-> FALSE],
   demo   |-> [command |-> "true", acp |-> None, rendersEnv |-> FALSE]]
Programs == {"claude", "claude-agent-acp", "gemini", "true"}
Listed == {"claude", "gemini"} \cup IF demo THEN {"demo"} ELSE {}
\* The driver of ACP stands for every built-in harness, and a fake one for the other.
IsNative(h) == h \in Listed

LaunchesInit ==
  /\ posix \in BOOLEAN /\ demo \in BOOLEAN
  /\ installed \in [Programs -> SUBSET Dirs] /\ installed["true"] = {"baseDir"}
  /\ answer = None /\ probe = "none" /\ probes = 0
  /\ searchPath = <<"baseDir">>
  /\ menu = None /\ mounting = None
  /\ launching = {} /\ results = {} /\ started = 0

keepPath == <<posix, installed, demo, answer, probe, probes, searchPath>>
keepTray == <<menu, mounting>>

----------------------------------------------------------------------------
(* The PATH.                                                               *)

\* Without a shell, or when it fails or prints nothing between the sentinels, the answer is
\* empty and the well-known directories are what there is.
Common == IF posix THEN <<"commonDir">> ELSE <<>>
\* What is first stays: the additions come ahead of what was inherited.
KeepFirst(entries) ==
  LET merged[n \in 0..Len(entries)] ==
        IF n = 0 THEN <<>>
        ELSE IF Contains(merged[n - 1], entries[n]) THEN merged[n - 1]
        ELSE Append(merged[n - 1], entries[n])
  IN  merged[Len(entries)]
BehindBase(base, additions) == KeepFirst(base \o additions)
MergePathEntries(base, additions) == KeepFirst(additions \o base)
ResolveGuiPath(printed) == MergePathEntries(searchPath, printed \o Common)

\* enrichGuiPathAsync: whoever comes first starts the shell, the others wait for the same
\* promise.
ForksEach == probe' = (IF probe = "done" THEN "done" ELSE "running") /\ probes' = probes + 1
EnrichGuiPath ==
  IF probe = "none" THEN probe' = "running" /\ probes' = probes + 1
                    ELSE UNCHANGED <<probe, probes>>

StartProxy ==
  /\ probe = "none" /\ EnrichGuiPath
  /\ UNCHANGED <<posix, installed, demo, answer, searchPath, keepTray, launching, results, started>>

ShellAnswers ==
  /\ probe = "running" /\ probe' = "done"
  /\ \E printed \in SeqOf(Dirs, MaxEntries) :
       /\ answer' = printed
       /\ searchPath' = ResolveGuiPath(printed)
  /\ UNCHANGED <<posix, installed, demo, probes, keepTray, launching, results, started>>

\* Bun.which on the PATH of the process as it is.
Find(program) ==
  LET found == {i \in DOMAIN searchPath : searchPath[i] \in installed[program]} IN
    IF found = {} THEN None ELSE searchPath[CHOOSE i \in found : \A j \in found : i <= j]

----------------------------------------------------------------------------
(* The tray: its menu is made once, of what the registry held.              *)

MountTray ==
  /\ probe # "none" /\ menu = None /\ mounting = None /\ mounting' = Listed
  /\ UNCHANGED <<keepPath, menu, launching, results, started>>
TrayShown ==
  /\ mounting # None /\ menu = None /\ menu' = mounting
  /\ UNCHANGED <<keepPath, mounting, launching, results, started>>

----------------------------------------------------------------------------
(* A launch.                                                               *)

Begins(l) ==
  /\ started < MaxStarted /\ started' = started + 1
  /\ launching' = launching \cup {[l EXCEPT !.id = started + 1]}
Order(by, h, route, cwd, at) ==
  [id |-> 0, by |-> by, harness |-> h, route |-> route, cwd |-> cwd, at |-> at]

TrayLaunches(h) ==
  /\ menu # None /\ h \in menu
  /\ EnrichGuiPath /\ Begins(Order("tray", h, "direct", "", "path"))
  /\ UNCHANGED <<posix, installed, demo, answer, searchPath, keepTray, results>>
\* The window's launch is by the model that was chosen or remembered, or by none, and in the
\* folder that was chosen, or none.
WindowLaunches(h, route, cwd) ==
  /\ probe # "none" /\ h \in Listed
  /\ EnrichGuiPath /\ Begins(Order("window", h, route, cwd, "path"))
  /\ UNCHANGED <<posix, installed, demo, answer, searchPath, keepTray, results>>
\* A session of before is resumed, or a live one is given another model, at any time.
Resumes(h, route) ==
  /\ probe # "none" /\ h \in Listed /\ Begins(Order("resume", h, route, "folder", "list"))
  /\ UNCHANGED <<keepPath, keepTray, results>>
ChangesModel(h) ==
  /\ probe # "none" /\ h \in Listed /\ Begins(Order("model", h, "proxied", "folder", "list"))
  /\ UNCHANGED <<keepPath, keepTray, results>>

PathAwaited(l) ==
  /\ l.at = "path" /\ probe = "done"
  /\ launching' = (launching \ {l}) \cup {[l EXCEPT !.at = "list"]}
  /\ UNCHANGED <<keepPath, keepTray, results, started>>

\* The command of a launch: in ACP mode that of the shim when there is one, and the harness
\* need not be installed itself; a change of model renders the environment in native mode.
OwnCommand(l) == Harness[l.harness].command
Command(l) == IF l.by # "model" /\ Harness[l.harness].acp = "shim"
                THEN "claude-agent-acp" ELSE Harness[l.harness].command
Rendered(l) == IF l.route = "proxied" /\ Harness[l.harness].rendersEnv THEN "proxyEnv" ELSE "none"
Resolved(l) ==
  LET dir == Find(Command(l)) IN
    [by |-> l.by, harness |-> l.harness, route |-> l.route, probe |-> probe, dir |-> dir,
     env |-> IF dir = None THEN "none" ELSE Rendered(l), end |-> None]

\* The runner records the session of a launch in the project of its folder, and refuses one
\* without a folder; a resumed one has its record.
Ends(l, r) ==
  IF r.dir = None THEN {"unresolved"}
  ELSE IF l.by = "model" THEN {"rendered"}
  ELSE IF l.by # "resume" /\ l.cwd = "" THEN {"noFolder"}
  ELSE IF IsNative(l.harness) THEN {"runs", "startFailed"} ELSE {"noDriver"}

\* The harness is listed again, resolved, and given to the runner without a pause between.
\* What does not run is dropped by the tray, refused to the window, and finished as failed
\* by a resume; the tray brings up a window for what does.
Launch(l) ==
  /\ l.at = "list" /\ launching' = launching \ {l}
  /\ LET r == Resolved(l) IN
       \E end \in Ends(l, r) : results' = results \cup {[r EXCEPT !.end = end]}
  /\ UNCHANGED <<keepPath, keepTray, started>>

LaunchesNext ==
  \/ StartProxy \/ ShellAnswers \/ MountTray \/ TrayShown
  \/ \E h \in DOMAIN Harness : \/ TrayLaunches(h) \/ ChangesModel(h)
                               \/ \E r \in {"direct", "proxied"} :
                                    Resumes(h, r) \/ \E c \in {"", "folder"} : WindowLaunches(h, r, c)
  \/ \E l \in launching : PathAwaited(l) \/ Launch(l)

LaunchesSpec == LaunchesInit /\ [][LaunchesNext]_launchVars

----------------------------------------------------------------------------
LaunchesTypeOK ==
  /\ probe \in {"none", "running", "done"} /\ probes \in 0..1
  /\ (answer = None) = (probe # "done")
  /\ ToSet(searchPath) \subseteq Dirs
  /\ menu # None => menu = mounting
  /\ \A l \in launching : l.id \in 1..started /\ l.harness \in Listed

\* What the user's own terminal would run: the first directory of the shell's PATH that has
\* it, else one of the well-known ones, else one that was inherited.
AsInTerminal(program) ==
  LET at == {i \in DOMAIN answer : answer[i] \in installed[program]} IN
    CASE at # {} -> answer[CHOOSE i \in at : \A j \in at : i <= j]
      [] at = {} /\ posix /\ "commonDir" \in installed[program] -> "commonDir"
      [] at = {} /\ "baseDir" \in installed[program] /\ ~(posix /\ "commonDir" \in installed[program])
           -> "baseDir"
      [] OTHER -> None

\* A launch from the window or the tray runs what the user's terminal would, however early
\* it was asked for, and fails only when that finds nothing (resolve-path.ts, tray.ts).
LaunchesAsInTerminal ==
  \A r \in results : r.by \in {"tray", "window"} =>
    /\ r.probe = "done"
    /\ r.dir = AsInTerminal(IF Harness[r.harness].acp = "shim" THEN "claude-agent-acp"
                                                             ELSE Harness[r.harness].command)

\* One shell is asked for its PATH, and no directory is in the result twice (resolve-path.ts).
OneProbe == probes <= 1 /\ IsInjective(searchPath)

\* A session is proxied when that was asked for and the harness can be, and never otherwise;
\* and a shim is found whether or not its harness is installed (launch.ts).
RoutedAsAsked ==
  /\ \A r \in results : r.by # "model" /\ r.dir # None =>
       (r.env = "proxyEnv") = (r.route = "proxied" /\ Harness[r.harness].rendersEnv)
  /\ \A r \in results : r.by # "model" /\ r.probe = "done" /\ Harness[r.harness].acp = "shim"
       /\ AsInTerminal("claude-agent-acp") # None => r.dir # None

\* What the comment of mountTray says: a launch from the tray whose command is found opens a
\* session, unless the harness fails to start (tray.ts:36). The tray gives no folder, and a
\* session without one is refused (create-app-context.ts:440).
TrayOpensSession ==
  \A r \in results : r.by = "tray" /\ r.dir # None => r.end \in {"runs", "startFailed"}

LaunchesAreSound == LaunchesAsInTerminal /\ OneProbe /\ RoutedAsAsked
=============================================================================

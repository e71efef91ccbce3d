---------------------------- MODULE SessionLibrary ----------------------------
(***************************************************************************)
(* The library of sessions: the rows of one project and of its sessions      *)
(* (packages/projects, sessions, data-admin), the names that the user, the   *)
(* harness and a model give them (manager.ts, name-generator.ts), and the     *)
(* lists the window keeps of them (projectsStore.ts, useProjects.ts).        *)
(*                                                                         *)
(* A request reaches its handler in order, and what these handlers do is      *)
(* synchronous; replies, and the frames of the runner socket, travel apart.    *)
(* A name is known by who gave it.                                          *)
(***************************************************************************)
EXTENDS Naturals, Sequences, FiniteSets

CONSTANTS
  None,
  MaxSessions,  (* bound: sessions launched                                  *)
  MaxCalls,     (* bound: requests of the window                             *)
  MaxResumes,   (* bound: resumptions                                        *)
  MaxRestarts,  (* bound: restarts of the application                        *)
  MaxFrames     (* bound: names on their way to the window at once             *)

SessionIds == 1..MaxSessions

VARIABLES
  project,      (* the row of the project is there                           *)
  rows,         (* "none", "open" or "ended"                                 *)
  title,        (* the name in the row: who gave it, or None                  *)
  run,          (* "none", "live", or "resuming": doResume is suspended         *)
  hadName,      (* resuming: the row had a name when doResume read it           *)
  source,       (* nameSource, or "unset"                                     *)
  refinement,   (* an AI name on its way: "none", "asked" or "aborted"          *)
  projects,     (* the window's list of projects is loaded                    *)
  page,         (* its page of sessions, or None                              *)
  replies,      (* replies on their way: [kind, page]                         *)
  frames,       (* session-renamed frames on their way: <<session, name>>        *)
  launches, calls, resumes, restarts,
  named,        (* history: sessions whose last name is the user's             *)
  overtaken,    (* history: the user named one while its resume was suspended     *)
  lateNames,    (* history: AI names written after the run had ended            *)
  crossed,      (* history: the rows changed with a list or a name on its way      *)
  untold        (* history: the rows changed, the window was not told, and has        *)
                (* taken no current list since                                      *)

records == <<project, rows, title>>
naming == <<source, refinement, hadName>>
lists == <<projects, page>>
wires == <<replies, frames>>
bounds == <<launches, calls, resumes, restarts>>
libraryHistory == <<named, overtaken, lateNames, crossed, untold>>
libraryVars == <<records, run, naming, lists, wires, bounds, libraryHistory>>

Titles == {"first", "harness", "ai", "user"}
Listed == {s \in SessionIds : rows[s] # "none"}
Row(s, name) == [id |-> s, name |-> name]

LibraryInit ==
  /\ project = FALSE
  /\ rows = [s \in SessionIds |-> "none"] /\ title = [s \in SessionIds |-> None]
  /\ run = [s \in SessionIds |-> "none"] /\ hadName = [s \in SessionIds |-> FALSE]
  /\ source = [s \in SessionIds |-> "unset"]
  /\ refinement = [s \in SessionIds |-> "none"]
  /\ projects = FALSE /\ page = None /\ replies = {} /\ frames = <<>>
  /\ launches = 0 /\ calls = 0 /\ resumes = 0 /\ restarts = 0
  /\ named = {} /\ overtaken = {} /\ lateNames = {} /\ crossed = FALSE
  /\ untold = FALSE

-----------------------------------------------------------------------------
(* Helpers.  A reply that carries a page carries the rows of the moment.        *)

Reply(kind, data) == [kind |-> kind, page |-> data]
Query == {Row(s, title[s]) : s \in Listed}
Calls == calls < MaxCalls /\ calls' = calls + 1
Changed == crossed' = (crossed \/ \E r \in replies : r.kind \in {"sessions", "renamed"})

(* updateName: the row must be there.  A name of the manager's own is also told   *)
(* to the window.                                                           *)
Names(s, by, then) ==
  IF rows[s] = "none" THEN UNCHANGED <<title, frames, source, refinement, crossed, named>>
  ELSE /\ Len(frames) < MaxFrames
       /\ title' = [title EXCEPT ![s] = by]
       /\ frames' = Append(frames, <<s, by>>)
       /\ source' = [source EXCEPT ![s] = "auto"]
       /\ refinement' = [refinement EXCEPT ![s] = then]
       /\ named' = named
       /\ Changed

-----------------------------------------------------------------------------
(* The runs.                                                               *)

(* A new session: its project, if it has none, and its row.                      *)
NewRow(s, byUser, as) ==
  /\ launches < MaxSessions /\ launches' = s
  /\ rows' = [rows EXCEPT ![s] = as]
  /\ title' = [title EXCEPT ![s] = IF byUser THEN "user" ELSE None]
  /\ named' = IF byUser THEN named \cup {s} ELSE named
  /\ project' = TRUE
  /\ Changed

(* launch: projects.findOrCreateByPath, sessions.create, the agent.  The window  *)
(* fetches its lists again when it knows.                                    *)
Launches(byUser) ==
  LET s == launches + 1 IN
  /\ NewRow(s, byUser, "open")
  /\ run' = [run EXCEPT ![s] = "live"]
  /\ source' = [source EXCEPT ![s] = IF byUser THEN "user" ELSE "none"]
  /\ replies' = replies \cup {Reply("done", {})}
  /\ UNCHANGED <<refinement, hadName, lists, frames, calls, resumes, restarts, overtaken,
                 lateNames, untold>>
(* The driver refuses the agent: the row has been written, and is ended; and the window,   *)
(* which hears of a failure, fetches nothing.                                  *)
LaunchRefused(byUser) ==
  /\ NewRow(launches + 1, byUser, "ended") /\ untold' = TRUE
  /\ UNCHANGED <<run, naming, lists, wires, calls, resumes, restarts, overtaken, lateNames>>
(* The launch of the command line, in a process of its own, which never closes the row.    *)
CommandLaunches(byUser) ==
  /\ NewRow(launches + 1, byUser, "open") /\ untold' = TRUE
  /\ UNCHANGED <<run, naming, lists, wires, calls, resumes, restarts, overtaken, lateNames>>

(* The first turn of the user that says something names the session, and asks a   *)
(* model for a better name if one is set.                                    *)
UserTurn(s, modelSet) ==
  /\ run[s] = "live" /\ source[s] = "none"
  /\ Names(s, "first", IF modelSet THEN "asked" ELSE refinement[s])
  /\ UNCHANGED <<project, rows, run, hadName, lists, replies, bounds, overtaken, lateNames, untold>>

HarnessTitleWins(s) ==                            \* mutant: the user's name is no obstacle
  /\ run[s] = "live"
  /\ Names(s, "harness", refinement[s])
  /\ UNCHANGED <<project, rows, run, hadName, lists, replies, bounds, overtaken, lateNames, untold>>
(* A title of the harness, which comes when its root runner starts.              *)
HarnessTitle(s) ==
  /\ run[s] = "live" /\ source[s] # "user" /\ title[s] # "harness"
  /\ Names(s, "harness", refinement[s])
  /\ UNCHANGED <<project, rows, run, hadName, lists, replies, bounds, overtaken, lateNames, untold>>

(* The model answers, fails, times out, or was aborted.  Its name is taken only     *)
(* while the session goes by an automatic one.                                *)
RefinesRegardless(s, answered) ==                 \* mutant: whoever named it meanwhile
  /\ refinement[s] # "none"
  /\ IF answered /\ refinement[s] = "asked"
     THEN Names(s, "ai", "none")
     ELSE refinement' = [refinement EXCEPT ![s] = "none"]
          /\ UNCHANGED <<title, frames, source, named, crossed>>
  /\ UNCHANGED <<project, rows, run, hadName, lists, replies, bounds, overtaken, lateNames, untold>>
Refines(s, answered) ==
  /\ refinement[s] # "none"
  /\ IF answered /\ refinement[s] = "asked" /\ source[s] = "auto" /\ rows[s] # "none"
     THEN /\ Names(s, "ai", "none")
          /\ lateNames' = IF run[s] = "live" THEN lateNames ELSE lateNames \cup {s}
     ELSE /\ refinement' = [refinement EXCEPT ![s] = "none"]
          /\ UNCHANGED <<title, frames, source, named, crossed, lateNames>>
  /\ UNCHANGED <<project, rows, run, hadName, lists, replies, bounds, overtaken, untold>>

Aborts(s) == refinement' = [refinement EXCEPT ![s] = IF @ = "none" THEN @ ELSE "aborted"]

(* wireOnEvent: the root runner has finished.  close updates the row there is.      *)
RunEndsSilently(s) ==                             \* mutant: the refinement goes on
  /\ run[s] = "live" /\ run' = [run EXCEPT ![s] = "none"]
  /\ rows' = [rows EXCEPT ![s] = IF @ = "none" THEN @ ELSE "ended"]
  /\ UNCHANGED <<project, title, naming, lists, wires, bounds, libraryHistory>>
RunEnds(s) ==
  /\ run[s] = "live" /\ run' = [run EXCEPT ![s] = "none"]
  /\ rows' = [rows EXCEPT ![s] = IF @ = "none" THEN @ ELSE "ended"]
  /\ Aborts(s)
  /\ UNCHANGED <<project, title, source, hadName, lists, wires, bounds, libraryHistory>>

(* doResume reads the row and reopens it, waits, and starts the agent; a session      *)
(* that had a name by then keeps it.                                           *)
ResumeReads(s) ==
  /\ run[s] = "none" /\ rows[s] # "none"
  /\ resumes < MaxResumes /\ resumes' = resumes + 1
  /\ run' = [run EXCEPT ![s] = "resuming"]
  /\ rows' = [rows EXCEPT ![s] = "open"]
  /\ hadName' = [hadName EXCEPT ![s] = title[s] # None]
  /\ UNCHANGED <<project, title, source, refinement, lists, wires, launches, calls, restarts,
                 libraryHistory>>
ResumeStarts(s, started) ==
  /\ run[s] = "resuming"
  /\ IF started
     THEN /\ run' = [run EXCEPT ![s] = "live"]
          /\ source' = [source EXCEPT ![s] = IF hadName[s] THEN "user" ELSE "none"]
          /\ UNCHANGED <<rows, refinement>>
     ELSE /\ run' = [run EXCEPT ![s] = "none"]
          /\ rows' = [rows EXCEPT ![s] = IF @ = "none" THEN @ ELSE "ended"]
          /\ Aborts(s)
          /\ UNCHANGED source
  /\ hadName' = [hadName EXCEPT ![s] = FALSE]
  /\ UNCHANGED <<project, title, lists, wires, bounds, libraryHistory>>

(* The application restarts, and the window with it: reconcileOrphaned, for every open row,  *)
(* those that the command line has open too.                                       *)
AppRestarts ==
  /\ restarts < MaxRestarts /\ restarts' = restarts + 1
  /\ rows' = [s \in SessionIds |-> IF rows[s] = "open" THEN "ended" ELSE rows[s]]
  /\ run' = [s \in SessionIds |-> "none"] /\ hadName' = [s \in SessionIds |-> FALSE]
  /\ source' = [s \in SessionIds |-> "unset"]
  /\ refinement' = [s \in SessionIds |-> "none"]
  /\ projects' = FALSE /\ page' = None /\ replies' = {} /\ frames' = <<>> /\ untold' = FALSE
  /\ UNCHANGED <<project, title, launches, calls, resumes, named, overtaken, lateNames, crossed>>

-----------------------------------------------------------------------------
(* The window.                                                              *)

(* loadProjects, on mount and in invalidate; loadSessions, by the effect once there    *)
(* are projects and by loadMore.                                              *)
AsksProjects ==
  /\ ~projects /\ Calls
  /\ replies' = replies \cup {Reply("projects", {})}
  /\ UNCHANGED <<records, run, naming, lists, frames, launches, resumes, restarts, libraryHistory>>
AsksSessions ==
  /\ projects /\ Calls
  /\ replies' = replies \cup {Reply("sessions", Query)}
  /\ UNCHANGED <<records, run, naming, lists, frames, launches, resumes, restarts, libraryHistory>>

(* renameSession writes the name, then tells the manager, if it knows the session.      *)
UserRenames(s) ==
  /\ page # None /\ s \in {r.id : r \in page} /\ Calls
  /\ IF rows[s] = "none"
     THEN UNCHANGED <<title, source, replies, named, overtaken, crossed>>
     ELSE /\ title' = [title EXCEPT ![s] = "user"]
          /\ source' = IF source[s] = "unset" THEN source ELSE [source EXCEPT ![s] = "user"]
          /\ replies' = replies \cup {Reply("renamed", {Row(s, "user")})}
          /\ named' = named \cup {s}
          /\ overtaken' = IF run[s] = "resuming" /\ ~hadName[s] THEN overtaken \cup {s}
                          ELSE overtaken
          /\ crossed' = (crossed \/ frames # <<>> \/ \E r \in replies : r.kind = "sessions")
  /\ UNCHANGED <<project, rows, run, refinement, hadName, lists, frames, launches, resumes,
                 restarts, lateNames, untold>>

(* dataAdmin.deleteSession and deleteProject, in one transaction each.  Neither stops     *)
(* a run.                                                                     *)
Deletes(ss, whole) ==
  /\ ss # {} /\ Calls
  /\ rows' = [s \in SessionIds |-> IF s \in ss THEN "none" ELSE rows[s]]
  /\ title' = [s \in SessionIds |-> IF s \in ss THEN None ELSE title[s]]
  /\ project' = (project /\ ~whole)
  /\ named' = named \ ss
  /\ replies' = replies \cup {Reply("done", {})}
  /\ Changed
  /\ UNCHANGED <<run, naming, lists, frames, launches, resumes, restarts, overtaken, lateNames,
                 untold>>
UserDeletes(s) ==
  /\ page # None /\ s \in {r.id : r \in page} /\ rows[s] # "none"
  /\ Deletes({s}, FALSE)
UserDeletesProject ==
  /\ projects /\ project /\ Deletes(Listed, TRUE)

Patched(p, s, name) ==
  IF p = None THEN None ELSE {IF r.id = s THEN Row(s, name) ELSE r : r \in p}

ReceivesKeeping(r) ==                             \* mutant: nothing is fetched again
  /\ r \in replies /\ replies' = replies \ {r}
  /\ page' = IF r.kind = "sessions" THEN r.page ELSE page
  /\ projects' = (projects \/ r.kind = "projects")
  /\ UNCHANGED <<records, run, naming, frames, bounds, libraryHistory>>
(* A reply: a list is taken as it is; after a launch or a deletion everything is            *)
(* forgotten and asked for again (invalidate).                                   *)
Receives(r) ==
  /\ r \in replies
  /\ \/ /\ r.kind = "projects"
        /\ projects' = TRUE /\ replies' = replies \ {r} /\ UNCHANGED <<page, untold>>
     \/ /\ r.kind = "sessions"
        /\ page' = r.page /\ replies' = replies \ {r} /\ UNCHANGED projects
        /\ untold' = (untold /\ r.page # Query)
     \/ /\ r.kind = "renamed"
        /\ LET row == CHOOSE x \in r.page : TRUE IN page' = Patched(page, row.id, row.name)
        /\ replies' = replies \ {r} /\ UNCHANGED <<projects, untold>>
     \/ /\ r.kind = "done"
        /\ projects' = FALSE /\ page' = None
        /\ replies' = (replies \ {r}) \cup {Reply("projects", {})} /\ UNCHANGED untold
  /\ UNCHANGED <<records, run, naming, frames, bounds, named, overtaken, lateNames, crossed>>

(* A call that failed or was given up after 5 s, though it was carried out: the window keeps   *)
(* what it has, and asks for nothing.                                             *)
Misses(r) ==
  /\ r \in replies /\ replies' = replies \ {r}
  /\ untold' = (untold \/ r.kind \in {"done", "renamed"})
  /\ UNCHANGED <<records, run, naming, lists, frames, bounds, named, overtaken, lateNames, crossed>>

(* session-renamed: the cached row is patched in place.                                *)
FrameArrives ==
  /\ frames # <<>> /\ frames' = Tail(frames)
  /\ page' = Patched(page, Head(frames)[1], Head(frames)[2])
  /\ UNCHANGED <<records, run, naming, projects, replies, bounds, libraryHistory>>

LibraryNext ==
  \/ \E byUser \in BOOLEAN : Launches(byUser) \/ LaunchRefused(byUser) \/ CommandLaunches(byUser)
  \/ \E s \in SessionIds :
       \/ \E b \in BOOLEAN : UserTurn(s, b) \/ Refines(s, b) \/ ResumeStarts(s, b)
       \/ HarnessTitle(s) \/ RunEnds(s) \/ ResumeReads(s)
       \/ UserRenames(s) \/ UserDeletes(s)
  \/ AppRestarts
  \/ AsksProjects \/ AsksSessions \/ UserDeletesProject
  \/ \E r \in replies : Receives(r) \/ Misses(r)
  \/ FrameArrives

LibrarySpec == LibraryInit /\ [][LibraryNext]_libraryVars

-----------------------------------------------------------------------------
LibraryTypeOK ==
  /\ project \in BOOLEAN /\ projects \in BOOLEAN
  /\ rows \in [SessionIds -> {"none", "open", "ended"}]
  /\ title \in [SessionIds -> Titles \cup {None}]
  /\ run \in [SessionIds -> {"none", "live", "resuming"}]
  /\ hadName \in [SessionIds -> BOOLEAN]
  /\ source \in [SessionIds -> {"unset", "none", "auto", "user"}]
  /\ refinement \in [SessionIds -> {"none", "asked", "aborted"}]
  /\ launches \in 0..MaxSessions /\ calls \in 0..MaxCalls

(* A name the user gave stays until the user gives another, through titles of the          *)
(* harness, late answers of the model, resumptions and restarts; but a resume that         *)
(* read the row before the user named it takes the name for none (manager.ts:358).        *)
UserNameSticks == \A s \in named \ overtaken : title[s] = "user"

(* And the model names no session whose run is over: closing one aborts it.                *)
NoLateName == lateNames = {}

(* When nothing is on its way the page shows the rows and their names, and no row is         *)
(* without its project; unless the rows changed while a list or a name was on its way, or      *)
(* they changed and the window has not been told (a refused launch, one of the command line,  *)
(* an answer it gave up), and no list has set that right.                                 *)
ListsAreCurrent ==
  /\ Listed # {} => project
  /\ replies = {} /\ frames = <<>> /\ page # None /\ ~crossed /\ ~untold => page = Query

LibraryIsSound == UserNameSticks /\ NoLateName /\ ListsAreCurrent
===============================================================================

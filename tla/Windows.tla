-------------------------------- MODULE Windows --------------------------------
(***************************************************************************)
(* The windows of the application (window.ts): where one opens and how its  *)
(* geometry is kept (window-bounds.ts, window-bounds-io.ts), the flag that   *)
(* says one has the focus, and what may be loaded in it.  The tray opens     *)
(* more than one; each has its own debounce over the one configuration.      *)
(***************************************************************************)
EXTENDS Naturals, SequencesExt

CONSTANTS
  None,
  MaxWindows,    \* bound: windows opened
  MaxMoves,      \* bound: times the user moves or resizes one
  MaxSaves,      \* bound: other edits of the configuration
  MaxFocusTurns,      \* bound: changes of the focus
  MaxTrips       \* bound: navigations away from the page

VARIABLES
  windows,       \* "none", "loading" its geometry, or "open"
  frames,        \* where each window was opened
  config,        \* the configuration: the saved bounds, and how often it was edited else and saved
  pendingBounds, \* the geometry each debounce will save, and the move that has restarted it
  flushes,       \* saves of bounds under way: the bounds and the configuration loaded
  saving,        \* another edit under way: the configuration it was loaded from
  holder,        \* the window that has the focus, 0 for none
  focusEvents,   \* the events of it the process has not seen
  focused,       \* the flag
  external,      \* history: what was handed to the browser
  pages,         \* what each window shows
  moves, saves, turns, trips,   \* bounded counters
  lastMove,      \* history: the last geometry a window was given
  crossedSaves   \* history: two saves were made from the same configuration

windowVars == <<windows, frames, config, pendingBounds, flushes, saving, holder, focusEvents,
                focused, external, pages, moves, saves, turns, trips, lastMove, crossedSaves>>

WindowIds == 1..MaxWindows
\* Two geometries that sanitizeBounds accepts and one for all it refuses (not numbers, too
\* small, off the screens); None is a configuration without.
Geometries == {"here", "there", "unusable"}
DefaultBounds == "default"

WindowsInit ==
  /\ windows = [w \in WindowIds |-> "none"] /\ frames = [w \in WindowIds |-> None]
  /\ \E g \in Geometries \cup {None} : config = [bounds |-> g, edits |-> 0, revision |-> 0]
  /\ pendingBounds = [w \in WindowIds |-> None] /\ flushes = {} /\ saving = None
  /\ holder = 0 /\ focusEvents = <<>> /\ focused = TRUE
  /\ external = {} /\ pages = [w \in WindowIds |-> None]
  /\ moves = 0 /\ saves = 0 /\ turns = 0 /\ trips = 0
  /\ lastMove = None /\ crossedSaves = FALSE

keepFocus == <<holder, focusEvents, focused, turns>>
keepPages == <<external, pages, trips>>
keepBounds == <<config, pendingBounds, flushes, saving, moves, saves, lastMove, crossedSaves>>

----------------------------------------------------------------------------
(* Opening.                                                                *)

OpenWindow ==
  /\ \E w \in WindowIds : /\ windows[w] = "none" /\ \A v \in WindowIds : v < w => windows[v] # "none"
                    /\ windows' = [windows EXCEPT ![w] = "loading"]
  /\ UNCHANGED <<frames, keepFocus, keepPages, keepBounds>>

\* The saved bounds are used when they can be seen and used, else the default ones; so are
\* those of a configuration that cannot be loaded.
AnyBounds(g) == TRUE
Sane(g) == g \in {"here", "there"}
Frame(g) == IF g # None /\ Sane(g) THEN g ELSE DefaultBounds
BoundsLoaded(w) ==
  /\ windows[w] = "loading" /\ windows' = [windows EXCEPT ![w] = "open"]
  /\ \/ frames' = [frames EXCEPT ![w] = Frame(config.bounds)]
     \/ frames' = [frames EXCEPT ![w] = DefaultBounds]
  /\ pages' = [pages EXCEPT ![w] = "own"]
  /\ UNCHANGED <<external, trips, keepFocus, keepBounds>>

----------------------------------------------------------------------------
(* Moving and resizing.                                                    *)

Moves(w) ==
  /\ windows[w] = "open" /\ moves < MaxMoves /\ moves' = moves + 1
  /\ \E g \in Geometries :
       /\ pendingBounds' = [pendingBounds EXCEPT ![w] = [bounds |-> g, by |-> moves + 1]]
       /\ lastMove' = g
  /\ UNCHANGED <<windows, frames, config, flushes, saving, saves, crossedSaves, keepFocus, keepPages>>

\* The debounce restarted the longest ago is over: the configuration is loaded, or cannot be
\* and the bounds are lost.
Settles ==
  /\ \E w \in WindowIds :
       /\ pendingBounds[w] # None
       /\ \A v \in WindowIds : pendingBounds[v] # None => pendingBounds[w].by <= pendingBounds[v].by
       /\ pendingBounds' = [pendingBounds EXCEPT ![w] = None]
       /\ LET p == pendingBounds[w] IN
            \/ /\ flushes' = flushes \cup {[by |-> p.by, bounds |-> p.bounds, from |-> config]}
               /\ UNCHANGED lastMove
            \/ lastMove' = (IF p.by = moves THEN None ELSE lastMove) /\ UNCHANGED flushes
  /\ UNCHANGED <<windows, frames, config, saving, moves, saves, crossedSaves, keepFocus, keepPages>>

Crossed(from) == crossedSaves' = (crossedSaves \/ from.revision # config.revision)
Saved(document) == config' = [document EXCEPT !.revision = config.revision + 1]
SavesAlone(f) ==
  /\ f \in flushes /\ flushes' = flushes \ {f}
  /\ Saved([f.from EXCEPT !.bounds = f.bounds, !.edits = 0])
  /\ Crossed(f.from)
  /\ UNCHANGED <<windows, frames, pendingBounds, saving, moves, saves, lastMove, keepFocus,
                 keepPages>>
\* The bounds are put in the configuration as it was loaded, and it is saved.
SavesBounds(f) ==
  /\ f \in flushes /\ flushes' = flushes \ {f}
  /\ Saved([f.from EXCEPT !.bounds = f.bounds])
  /\ Crossed(f.from)
  /\ UNCHANGED <<windows, frames, pendingBounds, saving, moves, saves, lastMove, keepFocus,
                 keepPages>>
SaveFails(f) ==
  /\ f \in flushes /\ flushes' = flushes \ {f}
  /\ lastMove' = (IF f.by = moves THEN None ELSE lastMove)
  /\ UNCHANGED <<windows, frames, config, pendingBounds, saving, moves, saves, crossedSaves,
                 keepFocus, keepPages>>

\* Any other edit loads and saves the same document.
EditLoads ==
  /\ saving = None /\ saves < MaxSaves /\ saves' = saves + 1
  /\ saving' = config
  /\ UNCHANGED <<windows, frames, config, pendingBounds, flushes, moves, lastMove,
                 crossedSaves, keepFocus, keepPages>>
EditSaves ==
  /\ saving # None /\ saving' = None
  /\ Saved([saving EXCEPT !.edits = @ + 1])
  /\ Crossed(saving)
  /\ UNCHANGED <<windows, frames, pendingBounds, flushes, moves, saves, lastMove, keepFocus,
                 keepPages>>

----------------------------------------------------------------------------
(* The focus and the page.                                                 *)

\* The window that loses the focus hears of it before the one that gets it.
FocusMoves ==
  /\ turns < MaxFocusTurns /\ turns' = turns + 1
  /\ \E w \in {0} \cup {v \in WindowIds : windows[v] = "open"} :
       /\ w # holder /\ holder' = w
       /\ focusEvents' = focusEvents \o (IF holder = 0 THEN <<>> ELSE <<"blur">>)
                                     \o (IF w = 0 THEN <<>> ELSE <<"focus">>)
  /\ UNCHANGED <<windows, frames, focused, keepPages, keepBounds>>
FocusStays ==
  /\ focusEvents # <<>> /\ focusEvents' = Tail(focusEvents)
  /\ focused' = (focused \/ Head(focusEvents) = "focus")
  /\ UNCHANGED <<windows, frames, holder, turns, keepPages, keepBounds>>
FocusSeen ==
  /\ focusEvents # <<>> /\ focusEvents' = Tail(focusEvents)
  /\ focused' = (Head(focusEvents) = "focus")
  /\ UNCHANGED <<windows, frames, holder, turns, keepPages, keepBounds>>

\* A navigation goes where the last rule that matches it says; without a rule it goes ahead.
Targets == {"own", "otherView", "web", "file", "mailto"}
Matches(pattern, target) == pattern = "*" \/ pattern = target
AllowedFirst == <<[deny |-> FALSE, pattern |-> "own"], [deny |-> TRUE, pattern |-> "*"]>>
OriginLockRules == <<[deny |-> TRUE, pattern |-> "*"], [deny |-> FALSE, pattern |-> "own"]>>
Allowed(rules, target) ==
  LET matching == {i \in DOMAIN rules : Matches(rules[i].pattern, target)} IN
    \A i \in matching : (\A j \in matching : j <= i) => ~rules[i].deny

\* What is refused and of the web is opened in the browser.
Navigates(w, target) ==
  /\ windows[w] = "open" /\ trips < MaxTrips /\ trips' = trips + 1
  /\ pages' = [pages EXCEPT ![w] = IF Allowed(OriginLockRules, target) THEN target ELSE @]
  /\ external' = IF target = "web" THEN external \cup {target} ELSE external
  /\ UNCHANGED <<windows, frames, keepFocus, keepBounds>>
\* The watchdog respawns a page that has died: it is loaded again, by the same rules.
Reloads(w) ==
  /\ windows[w] = "open" /\ pages[w] # None
  /\ pages' = [pages EXCEPT ![w] = IF Allowed(OriginLockRules, "own") THEN "own" ELSE None]
  /\ UNCHANGED <<windows, frames, external, trips, keepFocus, keepBounds>>

WindowsNext ==
  \/ OpenWindow \/ Settles \/ EditLoads \/ EditSaves \/ FocusMoves \/ FocusSeen
  \/ \E w \in WindowIds : BoundsLoaded(w) \/ Moves(w) \/ Reloads(w) \/ \E t \in Targets : Navigates(w, t)
  \/ \E f \in flushes : SavesBounds(f) \/ SaveFails(f)

WindowsSpec == WindowsInit /\ [][WindowsNext]_windowVars

----------------------------------------------------------------------------
WindowsTypeOK ==
  /\ windows \in [WindowIds -> {"none", "loading", "open"}]
  /\ config.bounds \in Geometries \cup {None} /\ config.edits \in 0..MaxSaves
  /\ holder \in 0..MaxWindows /\ focused \in BOOLEAN
  /\ \A w \in WindowIds : pendingBounds[w] # None =>
       pendingBounds[w].bounds \in Geometries /\ pendingBounds[w].by \in 1..moves

\* A window opens where it can be used, on what was saved if that can; the last geometry
\* any window was given is the saved one once it has settled, and no other edit is undone
\* by it, unless two saves were made from the same document (window-bounds-io.ts).
BoundsAreKept ==
  /\ \A w \in WindowIds : frames[w] # None => frames[w] \in {"here", "there", DefaultBounds}
  /\ (\A w \in WindowIds : pendingBounds[w] = None) /\ flushes = {} /\ saving = None /\ ~crossedSaves =>
       /\ lastMove # None => config.bounds = lastMove
       /\ config.edits = saves

\* Once the events of the focus are seen, the flag says whether a window has it; before the
\* first of them one is taken to have it (window.ts).
FocusIsTold ==
  focusEvents = <<>> /\ turns > 0 => focused = (holder # 0)

\* A window shows the application's own page and nothing else, and the browser gets web
\* pages only (window.ts ORIGIN_LOCK_RULES).
PagesAreOwn ==
  /\ \A w \in WindowIds : windows[w] = "open" => pages[w] = "own"
  /\ external \subseteq {"web"}

WindowsAreSound == BoundsAreKept /\ FocusIsTold /\ PagesAreOwn
=============================================================================

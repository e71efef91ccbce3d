------------------------------ MODULE Terminals ------------------------------
(***************************************************************************)
(* The terminals of one session: the tabs of its terminal pane, the shells *)
(* the host runs for them, and the socket between the two.  Sessions share *)
(* nothing but the socket, since both sides key everything by session and  *)
(* tab.  Output, resizing, the height of the pane and the terminal widgets *)
(* are data and are left out.                                              *)
(***************************************************************************)
EXTENDS Naturals, SequencesExt

CONSTANTS
  MaxTabs,       \* bound: identifiers of tabs
  MaxClicks,     \* bound: panes and tabs opened, and keys typed
  MaxSpawns,     \* bound: shells the host starts
  MaxBreaks      \* bound: reloads of the page, failures of a spawn or a lookup

VARIABLES
  tabs,          \* the tabs of the pane, in order
  pane,          \* paneOpen
  exited,        \* tabs marked closed with an exit code
  told,          \* tabs the user was shown an error about
  opening,       \* awaited working directories: a new tab's, or 0 for the pane's
  listening,     \* tabs with an exit and an error listener
  toHost,        \* frames on their way to the host
  toView,        \* frames on their way to the page
  shells,        \* of each tab, the state of its entry in `live`
  deleted,       \* the session was deleted in this window
  linked,        \* the socket of the page: "connecting", "open" or "closed"
  tabIds, clicks, spawns, breaks,
  strays         \* history: shells asked for by a tab that was gone, or left by a reload

termVars == <<tabs, pane, exited, told, opening, listening, toHost, toView, shells,
              deleted, linked, tabIds, clicks, spawns, breaks, strays>>

TabIds == 1..MaxTabs

InPane(t) == \E i \in DOMAIN tabs : tabs[i] = t

TermInit ==
  /\ tabs = << >> /\ pane = FALSE /\ exited = {} /\ told = {}
  /\ opening = {} /\ listening = {} /\ toHost = << >> /\ toView = << >>
  /\ shells = [t \in TabIds |-> "none"]
  /\ deleted = FALSE /\ linked = "connecting" /\ tabIds = 0 /\ clicks = 0 /\ spawns = 0 /\ breaks = 0
  /\ strays = {}

\* `send` of the page: a frame waits in the outbox for the socket to open; one
\* sent to a socket that has closed waits for ever, the page never reconnects.
Send(frames) == toHost' = IF linked = "closed" THEN toHost ELSE toHost \o frames

\* `send` of the manager: a sink whose socket is closed drops the frame.
Answer(frame) == toView' = IF linked = "open" THEN Append(toView, frame) ELSE toView

Clicks == clicks < MaxClicks /\ clicks' = clicks + 1

AddTab == tabIds < MaxTabs /\ tabIds' = tabIds + 1 /\ tabs' = Append(tabs, tabIds + 1)

\* openPane: the store shows the pane, with a first tab if there is none, and
\* the working directory of the session is asked for.
OpenPane ==
  /\ Clicks /\ ~deleted /\ ~pane
  /\ IF tabs = << >> THEN AddTab ELSE UNCHANGED <<tabs, tabIds>>
  /\ pane' = TRUE /\ opening' = opening \union {0}
  /\ UNCHANGED <<exited, told, listening, toHost, toView, shells, deleted, linked,
                 spawns, breaks, strays>>

NewTab ==
  /\ Clicks /\ ~deleted /\ AddTab
  /\ pane' = TRUE /\ opening' = opening \union {tabIds + 1}
  /\ UNCHANGED <<exited, told, listening, toHost, toView, shells, deleted, linked,
                 spawns, breaks, strays>>

\* The tab an awaited working directory is for.  newTab keeps the one it made;
\* openPane takes the first tab there is by then.
Target(o) == IF o = 0 THEN IF tabs = << >> THEN {} ELSE {tabs[1]} ELSE {o}

\* The working directory is known: the frame is sent and the tab subscribed.
\* Nothing checks that a new tab is still there.
CwdResolves(o) ==
  /\ o \in opening /\ opening' = opening \ {o}
  /\ listening' = listening \union Target(o)
  /\ Send(IF Target(o) = {} THEN << >> ELSE <<<<"open", CHOOSE t \in Target(o) : TRUE>>>>)
  /\ strays' = strays \union {t \in Target(o) : ~InPane(t)}
  /\ UNCHANGED <<tabs, pane, exited, told, toView, shells, deleted, linked, tabIds, clicks,
                 spawns, breaks>>

\* No working directory: one toast, and no shell.
CwdFails(o) ==
  /\ breaks < MaxBreaks /\ breaks' = breaks + 1
  /\ o \in opening /\ opening' = opening \ {o}
  /\ told' = told \union (IF o = 0 THEN TabIds ELSE {o})
  /\ UNCHANGED <<tabs, pane, exited, listening, toHost, toView, shells, deleted,
                 linked, tabIds, clicks, spawns, strays>>

Without(t) == RemoveAt(tabs, CHOOSE i \in DOMAIN tabs : tabs[i] = t)

CloseTabSilently(t) ==
  /\ InPane(t)
  /\ listening' = listening \ {t}
  /\ tabs' = Without(t)
  /\ pane' = (pane /\ Without(t) # << >>)
  /\ UNCHANGED <<exited, told, opening, toHost, toView, shells, deleted, linked,
                 tabIds, clicks, spawns, breaks, strays>>

\* closeTab: term-close, the listeners go, then the tab; the last one takes the
\* pane with it.
CloseTab(t) ==
  /\ InPane(t)
  /\ Send(<<<<"close", t>>>>)
  /\ listening' = listening \ {t}
  /\ tabs' = Without(t)
  /\ pane' = (pane /\ Without(t) # << >>)
  /\ UNCHANGED <<exited, told, opening, toView, shells, deleted, linked, tabIds, clicks,
                 spawns, breaks, strays>>

\* closePane only hides the pane: shells go on in the background.
ClosePane ==
  /\ pane /\ pane' = FALSE
  /\ UNCHANGED <<tabs, exited, told, opening, listening, toHost, toView, shells,
                 deleted, linked, tabIds, clicks, spawns, breaks, strays>>

\* disposeTerminalSession, once the session is deleted: every tab is closed.
DisposeSession ==
  /\ ~deleted /\ deleted' = TRUE
  /\ Send([i \in DOMAIN tabs |-> <<"close", tabs[i]>>])
  /\ listening' = {t \in listening : ~InPane(t)}
  /\ tabs' = << >> /\ pane' = FALSE
  /\ UNCHANGED <<exited, told, opening, toView, shells, linked, tabIds, clicks, spawns,
                 breaks, strays>>

\* A key typed in a tab, here only for the error it may be answered with.
Types(t) ==
  /\ Clicks /\ InPane(t) /\ t \notin opening /\ toHost = << >>
  /\ Send(<<<<"input", t>>>>)
  /\ UNCHANGED <<tabs, pane, exited, told, opening, listening, toView, shells, deleted,
                 linked, tabIds, spawns, breaks, strays>>

\* The page is reloaded.  The tabs were only in its memory; the shells go on.
Reload ==
  /\ breaks < MaxBreaks /\ breaks' = breaks + 1
  /\ linked' = "connecting"
  /\ linked = "open" => toHost = << >>
  /\ tabs' = << >> /\ pane' \in BOOLEAN /\ exited' = {} /\ told' = {}
  /\ opening' = {} /\ listening' = {} /\ toHost' = << >> /\ toView' = << >>
  /\ deleted' = FALSE
  /\ strays' = 1..tabIds
  /\ UNCHANGED <<shells, tabIds, clicks, spawns>>

\* The socket opens: it becomes the sink of the manager, and the outbox is sent.
Connects ==
  /\ linked = "connecting" /\ linked' = "open"
  /\ UNCHANGED <<tabs, pane, exited, told, opening, listening, toHost, toView, shells,
                 deleted, tabIds, clicks, spawns, breaks, strays>>

\* The socket closes under a page that lives on, with the frames in it.
SocketCloses ==
  /\ breaks < MaxBreaks /\ breaks' = breaks + 1
  /\ linked = "open" /\ linked' = "closed"
  /\ toHost' = << >> /\ toView' = << >>
  /\ UNCHANGED <<tabs, pane, exited, told, opening, listening, shells, deleted, tabIds, clicks,
                 spawns, strays>>

\* term-open: a tab that has a live entry is already attached; else a shell is
\* spawned, or term-error says why not.
HostOpens(t) ==
  /\ IF shells[t] # "none"
     THEN UNCHANGED <<shells, toView, spawns, breaks>>
     ELSE \/ /\ spawns < MaxSpawns /\ spawns' = spawns + 1
             /\ shells' = [shells EXCEPT ![t] = "running"]
             /\ UNCHANGED <<toView, breaks>>
          \/ /\ breaks < MaxBreaks /\ breaks' = breaks + 1
             /\ Answer(<<"error", t>>)
             /\ UNCHANGED <<shells, spawns>>

\* term-close kills the shell; its entry stays until the exit is seen.
HostCloses(t) ==
  /\ shells' = [shells EXCEPT ![t] = IF @ = "running" THEN "killed" ELSE @]
  /\ UNCHANGED <<toView, spawns, breaks>>

HostTypes(t) ==
  /\ IF shells[t] = "none" THEN Answer(<<"error", t>>) ELSE UNCHANGED toView
  /\ UNCHANGED <<shells, spawns, breaks>>

\* handleInbound.
HostReceives ==
  /\ linked = "open" /\ toHost # << >> /\ toHost' = Tail(toHost)
  /\ LET t == Head(toHost)[2] IN
     \/ Head(toHost)[1] = "open" /\ HostOpens(t)
     \/ Head(toHost)[1] = "close" /\ HostCloses(t)
     \/ Head(toHost)[1] = "input" /\ HostTypes(t)
  /\ UNCHANGED <<tabs, pane, exited, told, opening, listening, deleted, linked, tabIds, clicks,
                 strays>>

ShellExitsUnseen(t) ==
  /\ shells[t] # "none"
  /\ shells' = [shells EXCEPT ![t] = "none"]
  /\ UNCHANGED <<tabs, pane, exited, told, opening, listening, toHost, toView, deleted,
                 linked, tabIds, clicks, spawns, breaks, strays>>

\* The shell has exited: its entry is deleted and the page is told.
ShellExits(t) ==
  /\ shells[t] # "none"
  /\ shells' = [shells EXCEPT ![t] = "none"]
  /\ Answer(<<"exited", t>>)
  /\ UNCHANGED <<tabs, pane, exited, told, opening, listening, toHost, deleted, linked,
                 tabIds, clicks, spawns, breaks, strays>>

\* `dispatch` of the page: a frame of a tab nobody listens to is dropped.
ViewReceives ==
  /\ toView # << >> /\ toView' = Tail(toView)
  /\ LET kind == Head(toView)[1]
         t == {Head(toView)[2]} \intersect listening
     IN /\ exited' = IF kind = "exited" THEN exited \union {u \in t : InPane(u)} ELSE exited
        /\ told' = IF kind = "error" THEN told \union t ELSE told
  /\ UNCHANGED <<tabs, pane, opening, listening, toHost, shells, deleted, linked, tabIds, clicks,
                 spawns, breaks, strays>>

TermNext ==
  \/ OpenPane \/ NewTab \/ ClosePane \/ DisposeSession \/ Reload
  \/ Connects \/ SocketCloses
  \/ \E o \in 0..MaxTabs : CwdResolves(o) \/ CwdFails(o)
  \/ \E t \in TabIds : CloseTab(t) \/ Types(t) \/ ShellExits(t)
  \/ HostReceives \/ ViewReceives

TermSpec == TermInit /\ [][TermNext]_termVars

-----------------------------------------------------------------------------
TermTypeOK ==
  /\ tabs \in Seq(TabIds) /\ pane \in BOOLEAN /\ exited \subseteq TabIds
  /\ told \subseteq TabIds /\ opening \subseteq 0..MaxTabs /\ listening \subseteq TabIds
  /\ shells \in [TabIds -> {"none", "running", "killed"}]
  /\ deleted \in BOOLEAN /\ linked \in {"connecting", "open", "closed"} /\ strays \subseteq TabIds
  /\ tabIds \in 0..MaxTabs /\ clicks \in 0..MaxClicks /\ spawns \in 0..MaxSpawns /\ breaks \in 0..MaxBreaks

AtRest == toHost = << >> /\ toView = << >> /\ opening = {} /\ linked = "open"

\* Once every frame has arrived, a shell still running is one the user can see
\* and close, unless its tab was closed while the working directory was looked
\* up, or the page was reloaded over it (useTerminal.ts, manager.ts).
ShellsHaveTabs ==
  AtRest => \A t \in TabIds : shells[t] = "running" => InPane(t) \/ t \in strays

\* Conversely a tab that looks alive is: it has a shell, or the user saw the
\* exit or an error about it.
TabsAreTruthful ==
  AtRest => \A t \in TabIds : InPane(t) => shells[t] # "none" \/ t \in exited \union told

TerminalsAgree == ShellsHaveTabs /\ TabsAreTruthful
=============================================================================

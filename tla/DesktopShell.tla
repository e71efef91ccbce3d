---------------------------- MODULE DesktopShell ----------------------------
(***************************************************************************)
(* The shell of the desktop application: the startup burst the window      *)
(* waits for, the gate that holds a quit back until the supervised         *)
(* children are stopped, and the watchdog that reloads a renderer whose    *)
(* runner socket stays closed.  The three share the process and little     *)
(* else: a reload needs the window, and the exit ends everything.          *)
(***************************************************************************)
EXTENDS Naturals

CONSTANTS
  MaxAttempts,   \* maxAttempts of the watchdog
  MaxSockets     \* bound: runner sockets the page opens

VARIABLES
  burst,         \* startProxy().ready: "loading", "persisting" or "over"
  proxyUp,       \* the proxy of the window is listening
  startCap,      \* the timer that bounds the wait for `ready`
  window,        \* openWindow has run
  gate,          \* the before-quit listener: "installing", "installed" or "missing"
  quit,          \* "no", "draining" or "exited"
  drain,         \* ctx.shutdown(): "none", "running" or "over"
  drainCap,      \* the timer that bounds the drain
  requits,       \* quits the gate has re-issued
  leaves,        \* history: why children may outlive the process
  page,          \* the renderer: "none", "live" or "dead"
  socket,        \* the page's open runner socket, or 0
  closing,       \* sockets closed whose close the host has not seen
  sockets,       \* sockets opened so far
  connected, timer, attempts,   \* the state of the watchdog
  gaveUp,        \* onGiveUp has run
  late,          \* history: a close was seen after a newer socket had opened
  reloadedLive   \* history: a page with an open socket was reloaded

startVars == <<burst, proxyUp, startCap, window>>
quitVars == <<gate, quit, drain, drainCap, requits, leaves>>
watchVars == <<page, socket, closing, sockets, connected, timer, attempts, gaveUp,
               late, reloadedLive>>
shellVars == <<startVars, quitVars, watchVars>>

ShellInit ==
  /\ burst = "loading" /\ proxyUp = FALSE /\ startCap = TRUE /\ window = FALSE
  /\ gate = "installing" /\ quit = "no" /\ drain = "none" /\ drainCap = FALSE
  /\ requits = 0 /\ leaves = {}
  /\ page = "none" /\ socket = 0 /\ closing = {} /\ sockets = 0
  /\ connected = FALSE /\ timer = "none" /\ attempts = 0 /\ gaveUp = FALSE
  /\ late = FALSE /\ reloadedLive = FALSE

Running == quit # "exited"

-----------------------------------------------------------------------------
(* main and startProxy.                                                    *)

\* The configuration is loaded and the proxy started, unless either fails: then
\* `ready` settles with no proxy.
BurstStarts ==
  /\ Running /\ burst = "loading"
  /\ \/ proxyUp' = TRUE /\ burst' = "persisting"
     \/ proxyUp' = FALSE /\ burst' = "over"
  /\ UNCHANGED <<startCap, window, quitVars, watchVars>>

\* The key of the proxy is written, or that write fails: both settle `ready`.
KeyPersisted ==
  /\ Running /\ burst = "persisting" /\ burst' = "over"
  /\ UNCHANGED <<proxyUp, startCap, window, quitVars, watchVars>>

\* awaitReadyWithCap settles once, by `ready` or by its timer, and the window
\* opens; a page is then loaded in it.
WindowOpens ==
  /\ Running /\ ~window
  /\ burst = "over" \/ startCap
  /\ startCap' = FALSE /\ window' = TRUE /\ page' = "live"
  /\ UNCHANGED <<burst, proxyUp, quitVars, socket, closing, sockets, connected, timer,
                 attempts, gaveUp, late, reloadedLive>>

-----------------------------------------------------------------------------
(* The quit gate.                                                          *)

\* mountQuitGate: the lazy import of the native module resolves or fails.
GateInstalls ==
  /\ Running /\ gate = "installing" /\ gate' \in {"installed", "missing"}
  /\ UNCHANGED <<startVars, quit, drain, drainCap, requits, leaves, watchVars>>

Exits == quit' = "exited" /\ drainCap' = FALSE

\* before-quit with the listener in place: the first quit is vetoed and starts
\* the drain under its timer; any other passes.
Gated ==
  IF quit = "draining"
  THEN Exits /\ UNCHANGED drain
  ELSE quit' = "draining" /\ drain' = "running" /\ drainCap' = TRUE

\* The user quits, by whichever of the ways that end in Utils.quit().
UserQuits ==
  /\ Running
  /\ IF gate = "installed" THEN Gated ELSE Exits /\ UNCHANGED drain
  /\ leaves' = leaves \union (IF gate # "installed" THEN {"ungated"}
                              ELSE IF quit = "draining" /\ drain # "over" THEN {"again"}
                              ELSE {})
  /\ UNCHANGED <<startVars, gate, requits, watchVars>>

FinishAgain == requits' = requits + 1 /\ UNCHANGED <<quit, drainCap>>

\* `finish`: settled once, it clears the timer and re-issues the quit.
Finish == requits' = requits + 1 /\ Exits

\* shutdown() resolves or rejects; both re-issue the quit.
DrainEnds ==
  /\ Running /\ drain = "running" /\ drain' = "over"
  /\ Finish
  /\ UNCHANGED <<startVars, gate, leaves, watchVars>>

\* The drain did not settle in time.
DrainCapFires ==
  /\ Running /\ drainCap
  /\ Finish
  /\ leaves' = leaves \union {"capped"}
  /\ UNCHANGED <<startVars, gate, drain, watchVars>>

-----------------------------------------------------------------------------
(* The renderer watchdog.                                                  *)

\* The page opens its runner socket: onConnect.
PageConnects ==
  /\ Running /\ page = "live" /\ socket = 0 /\ sockets < MaxSockets
  /\ sockets' = sockets + 1 /\ socket' = sockets + 1
  /\ connected' = TRUE /\ attempts' = 0 /\ timer' = "none"
  /\ UNCHANGED <<startVars, quitVars, page, closing, gaveUp, late, reloadedLive>>

\* The socket closes, with the page or without it; the host sees it later.
SocketEnds ==
  /\ Running /\ socket # 0
  /\ closing' = closing \union {socket} /\ socket' = 0
  /\ page' \in {page, "dead"}
  /\ UNCHANGED <<startVars, quitVars, sockets, connected, timer, attempts, gaveUp, late,
                 reloadedLive>>

HostSeesCloseTwice(s) ==
  /\ Running /\ s \in closing /\ closing' = closing \ {s}
  /\ late' = (late \/ socket # 0)
  /\ connected' = FALSE /\ timer' = IF ~connected THEN "none" ELSE "grace"
  /\ UNCHANGED <<startVars, quitVars, page, socket, sockets, attempts, gaveUp,
                 reloadedLive>>

\* onDisconnect does not know which socket has closed.
HostSeesClose(s) ==
  /\ Running /\ s \in closing /\ closing' = closing \ {s}
  /\ late' = (late \/ socket # 0)
  /\ IF ~connected /\ timer # "none"
     THEN UNCHANGED <<connected, timer>>
     ELSE connected' = FALSE /\ timer' = "grace"
  /\ UNCHANGED <<startVars, quitVars, page, socket, sockets, attempts, gaveUp,
                 reloadedLive>>

\* reload(): a fresh page replaces the old one, whose socket closes.
Reloads ==
  /\ page' = "live" /\ socket' = 0
  /\ closing' = IF socket = 0 THEN closing ELSE closing \union {socket}
  /\ reloadedLive' = (reloadedLive \/ socket # 0)

\* runCheck: the grace or the backoff is over.
TimerFires ==
  /\ Running /\ timer # "none"
  /\ IF connected THEN timer' = "none" /\ UNCHANGED <<attempts, gaveUp, page, socket, closing, reloadedLive>>
     ELSE IF attempts >= MaxAttempts
     THEN timer' = "none" /\ gaveUp' = TRUE /\ UNCHANGED <<attempts, page, socket, closing, reloadedLive>>
     ELSE /\ attempts' = attempts + 1 /\ timer' = "backoff"
          /\ IF window THEN Reloads ELSE UNCHANGED <<page, socket, closing, reloadedLive>>
          /\ UNCHANGED gaveUp
  /\ UNCHANGED <<startVars, quitVars, sockets, connected, late>>

ShellNext ==
  \/ BurstStarts \/ KeyPersisted \/ WindowOpens
  \/ GateInstalls \/ UserQuits \/ DrainEnds \/ DrainCapFires
  \/ PageConnects \/ SocketEnds \/ TimerFires
  \/ \E s \in 1..MaxSockets : HostSeesClose(s)

ShellSpec == ShellInit /\ [][ShellNext]_shellVars

-----------------------------------------------------------------------------
ShellTypeOK ==
  /\ burst \in {"loading", "persisting", "over"} /\ proxyUp \in BOOLEAN
  /\ startCap \in BOOLEAN /\ window \in BOOLEAN
  /\ gate \in {"installing", "installed", "missing"}
  /\ quit \in {"no", "draining", "exited"} /\ drain \in {"none", "running", "over"}
  /\ drainCap \in BOOLEAN /\ requits \in 0..1
  /\ page \in {"none", "live", "dead"} /\ socket \in 0..MaxSockets
  /\ closing \subseteq 1..MaxSockets /\ connected \in BOOLEAN
  /\ timer \in {"none", "grace", "backoff"} /\ attempts \in 0..MaxAttempts

\* A quit that passed the gate has drained the children, unless the user quit
\* again or the drain took too long; and a drain always has a timer to end it.
QuitDrains ==
  /\ quit = "exited" => drain = "over" \/ leaves # {}
  /\ quit = "draining" => drainCap

\* Once a renderer has been lost the watchdog has a timer, until it is back or
\* given up; and only a close seen out of order makes it reload a live page.
WatchdogWatches ==
  /\ ~connected /\ sockets > 0 /\ socket = 0 /\ closing = {} /\ ~gaveUp => timer # "none"
  /\ reloadedLive => late
=============================================================================

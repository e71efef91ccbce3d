---------------------------- MODULE Conversation ----------------------------
(***************************************************************************)
(* One session from the run manager's event log to what the window shows:    *)
(* the runner socket (clients.ts, runner-socket.ts), the client's fan-out      *)
(* (runnerClient.ts), the store of reduced runs (runViewStore.ts), the outbox  *)
(* of sends (outboxStore.ts) and the live view that drives them                *)
(* (RunDetail.tsx, app.tsx).  The socket drops, the window reloads, the whole   *)
(* application restarts.                                                   *)
(***************************************************************************)
EXTENDS Timeline, FiniteSets

CONSTANTS
  Sends,        (* clientSendIds, in the order they are made                 *)
  Chunks,       (* what an assistant message may be streamed in               *)
  MaxEvents,    (* bound: events the agent emits on its own                    *)
  MaxRoots,     (* bound: the first run and its resumptions                    *)
  MaxFaults     (* bound: drops, reloads, restarts, and views left            *)

ASSUME ConversationAssumption == Sends \subseteq Nat /\ MaxRoots \in Nat \ {0}

VARIABLES
  store,        (* run_events: the log of the session                        *)
  live,         (* the root runner of the live agent, or 0                     *)
  roots,        (* how many root runners there have been                      *)
  working,      (* turns the agent has been given and has not finished         *)
  queue,        (* resuming: the turns that wait for a resume, or None         *)
  resumes,      (* calls of doResume that are suspended                       *)
  sock,         (* "open" or "down"                                        *)
  ever,         (* everConnected                                           *)
  up, down,     (* frames on their way to the manager, to the window            *)
  buffer,       (* the client's frames that wait for the socket                *)
  view, busy,   (* runViewStore                                            *)
  entries,      (* the outbox, as localStorage has it                         *)
  timers,       (* sends whose acknowledgement is timed                       *)
  mounted,      (* the live view of the session is on display                  *)
  listening,    (* it has registered its per-session listener, for good         *)
  isOpen, skip, (* openSessionIds, skipAttachIds                              *)
  reattachDue,  (* the socket is back and the effect of app.tsx is due          *)
  watch,        (* the start watchdog: "armed", or it has "fired"              *)
  faults,
  made, given   (* history: sends made; sends the user took back               *)

server == <<store, live, roots, working, queue, resumes>>
net == <<sock, ever, up, down, buffer>>
shown == <<view, busy, watch>>
page == <<mounted, listening, isOpen, skip>>
outbox == <<entries, timers, made, given>>
convVars == <<server, net, shown, page, outbox, reattachDue, faults>>

Plain == <<"user", None>>                    \* the message of a send without an id
Started(r) == Event("runner-started", r, None, None)
Echo(r, s) == Event("user-text", r, <<"user", s>>, <<s>>)
TurnDone(r) == Event("turn-finished", r, None, <<>>)
TurnFailed(r) == Event("turn-finished", r, None, <<"error">>)    \* names no message
Finished(r, status) == Event("runner-finished", r, None, status)
AgentEvents(r) ==
  {Event("text-delta", r, <<"answer", r>>, <<c>>) : c \in Chunks}
    \cup {Event("tool-call-started", r, <<"call", r>>, <<>>)}

(* Right after a launch: the root runner has started, the live view has mounted *)
(* and attached.                                                           *)
ConvInit ==
  /\ store = <<Started(1)>>
  /\ live = 1 /\ roots = 1 /\ working = 0
  /\ queue = None /\ resumes = 0
  /\ sock = "open" /\ ever = TRUE
  /\ up = <<<<"attach">>>> /\ down = <<Started(1)>> /\ buffer = <<>>
  /\ view = NoRun /\ busy = FALSE
  /\ entries = [s \in Sends |-> "none"]
  /\ timers = {}
  /\ mounted = TRUE /\ listening = TRUE /\ isOpen = TRUE /\ skip = FALSE
  /\ reattachDue = FALSE
  /\ watch = "armed"
  /\ faults = 0
  /\ made = {} /\ given = {}

-----------------------------------------------------------------------------
(* The manager.  What it sends to a socket that is down is lost.               *)

Push(frames) == down' = IF sock = "open" THEN down \o frames ELSE down
Record(events) == store' = store \o events /\ Push(events)

OfTheAgent(e) ==
  e.type \in {"text-delta", "tool-call-started"} \/ \E r \in 1..MaxRoots : e = TurnFailed(r)
MayEmit == Cardinality({i \in DOMAIN store : OfTheAgent(store[i])}) < MaxEvents
AgentEmits(e) ==
  /\ live # 0
  /\ MayEmit
  /\ Record(<<e>>)
  /\ UNCHANGED <<live, roots, working, queue, resumes, sock, ever, up, buffer, shown, page,
                 outbox, reattachDue, faults>>

TurnEndsTwice(failed) ==                       \* mutant: both ends of a prompt are reported
  /\ live # 0 /\ working > 0
  /\ working' = working - 2
  /\ Record(<<TurnDone(live), TurnDone(live)>>)
  /\ UNCHANGED <<live, roots, queue, resumes, sock, ever, up, buffer, shown, page, outbox,
                 reattachDue, faults>>
TurnEnds(failed) ==
  /\ live # 0 /\ working > 0 /\ (failed => MayEmit)
  /\ working' = working - 1
  /\ Record(<<IF failed THEN TurnFailed(live) ELSE TurnDone(live)>>)
  /\ UNCHANGED <<live, roots, queue, resumes, sock, ever, up, buffer, shown, page, outbox,
                 reattachDue, faults>>

RunEnds ==
  /\ live # 0 /\ roots < MaxRoots
  /\ live' = 0
  /\ working' = 0
  /\ Record(<<Finished(live, "errored")>>)
  /\ UNCHANGED <<roots, queue, resumes, sock, ever, up, buffer, shown, page, outbox,
                 reattachDue, faults>>

(* handleInbound, for the commands that matter here.                         *)
Receives ==
  /\ up # <<>>
  /\ up' = Tail(up)
  /\ LET frame == Head(up) IN
     \/ /\ frame[1] = "attach"
        /\ Push(store)
        /\ UNCHANGED server
     \/ /\ frame[1] = "send" /\ live # 0
        /\ Record(<<Echo(live, frame[2])>>)
        /\ working' = working + 1
        /\ UNCHANGED <<live, roots, queue, resumes>>
     \/ /\ frame[1] = "send" /\ live = 0
        /\ queue' = Append(IF queue = None THEN <<>> ELSE queue, frame[2])
        /\ resumes' = IF queue = None THEN resumes + 1 ELSE resumes
        /\ UNCHANGED <<store, live, roots, working, down>>
     \/ /\ frame[1] = "interrupt"
        /\ queue' = None
        /\ UNCHANGED <<store, live, roots, working, resumes, down>>
  /\ UNCHANGED <<sock, ever, buffer, shown, page, outbox, reattachDue, faults>>

(* The end of doResume: the backlog is replayed, the queued turns are echoed,   *)
(* and the runtime announces the new root in a microtask, after all that.      *)
ResumeStarts ==
  LET r == roots + 1
      turns == IF queue = None THEN <<>> ELSE queue
      echoes == [i \in DOMAIN turns |-> Echo(r, turns[i])]
  IN /\ resumes > 0 /\ roots < MaxRoots
     /\ resumes' = resumes - 1
     /\ live' = r /\ roots' = r
     /\ working' = Len(turns)
     /\ queue' = None
     /\ store' = store \o echoes \o <<Started(r)>>
     /\ Push(store \o echoes \o <<Started(r)>>)
     /\ UNCHANGED <<sock, ever, up, buffer, shown, page, outbox, reattachDue, faults>>

(* The failure is shown, and not stored; the queued turns are dropped.          *)
ResumeFails ==
  /\ resumes > 0
  /\ resumes' = resumes - 1
  /\ queue' = None
  /\ Push(<<Finished(0, "errored")>>)
  /\ UNCHANGED <<store, live, roots, working, sock, ever, up, buffer, shown, page, outbox,
                 reattachDue, faults>>

-----------------------------------------------------------------------------
(* The window.                                                              *)

(* rawSend                                                                 *)
Frames(frames) ==
  IF sock = "open" THEN up' = up \o frames /\ UNCHANGED buffer
  ELSE buffer' = buffer \o frames /\ UNCHANGED up

(* reset of the session's slice.                                            *)
ResetView == view' = NoRun /\ busy' = FALSE

Present(run) ==
  {s \in Sends : \E i \in DOMAIN RootItems(run) :
                   Identity(RootItems(run)[i]) = <<"message", <<"user", s>>>>}
Confirmed(es, run) == [s \in Sends |-> IF s \in Present(run) THEN "none" ELSE es[s]]
DropSending(es) == [s \in Sends |-> IF es[s] = "sending" THEN "none" ELSE es[s]]  \* mutant
FailSending(es) == [s \in Sends |-> IF es[s] = "sending" THEN "failed" ELSE es[s]]

ApplyOnce(run, b, e) ==
  LET next == Reduce(run, e) IN <<next, NextBusy(b, e, next)>>

(* dispatch: the per-session listener, then the firehose of app.tsx; both apply  *)
(* the event.  The effect that reconciles the outbox follows.                 *)
Delivers ==
  /\ down # <<>>
  /\ down' = Tail(down)
  /\ LET e == Head(down)
         once == ApplyOnce(view, busy, e)
         last == IF listening THEN ApplyOnce(once[1], once[2], e) ELSE once
     IN /\ view' = last[1]
        /\ busy' = last[2]
        /\ watch' = IF last[1].root # None THEN "armed" ELSE watch
        /\ IF mounted
           THEN entries' = Confirmed(entries, last[1]) /\ timers' = timers \ Present(last[1])
           ELSE UNCHANGED <<entries, timers>>
  /\ UNCHANGED <<server, sock, ever, up, buffer, page, made, given, reattachDue, faults>>

(* handleSend: into the outbox first.  The composer needs a root to show.       *)
UserSends(s) ==
  /\ mounted /\ view.root # None
  /\ s \notin made /\ \A t \in Sends : t < s => t \in made
  /\ made' = made \cup {s}
  /\ entries' = [entries EXCEPT ![s] = "sending"]
  /\ timers' = timers \cup {s}
  /\ Frames(<<<<"send", s>>>>)
  /\ UNCHANGED <<server, sock, ever, down, shown, page, given, reattachDue, faults>>

AckTimeout(s) ==
  /\ s \in timers
  /\ timers' = timers \ {s}
  /\ entries' = [entries EXCEPT ![s] = IF @ = "none" THEN "none" ELSE "failed"]
  /\ UNCHANGED <<server, net, shown, page, made, given, reattachDue, faults>>

(* handleCancel and handleResend take a failed send out of the outbox; a resend  *)
(* then makes another send.                                                 *)
UserTakesBack(s) ==
  /\ mounted /\ view.root # None
  /\ entries[s] = "failed"
  /\ entries' = [entries EXCEPT ![s] = "none"]
  /\ timers' = timers \ {s}
  /\ given' = given \cup {s}
  /\ UNCHANGED <<server, net, shown, page, made, reattachDue, faults>>

UserInterrupts ==
  LET sending == {s \in Sends : entries[s] = "sending"} IN
  /\ mounted /\ view.root # None /\ busy
  /\ faults < MaxFaults /\ faults' = faults + 1
  /\ Frames(<<<<"interrupt">>>>)
  /\ entries' = [s \in Sends |-> IF s \in sending THEN "none" ELSE entries[s]]
  /\ timers' = timers \ sending
  /\ given' = given \cup sending
  /\ UNCHANGED <<server, sock, ever, down, shown, page, made, reattachDue>>

(* The socket closes: what was on its way is lost.  A reconnect the watchdog of  *)
(* useRunnerConnection forces does not report the loss.                       *)
Drops(reported) ==
  /\ sock = "open"
  /\ faults < MaxFaults /\ faults' = faults + 1
  /\ sock' = "down"
  /\ up' = <<>> /\ down' = <<>>
  /\ entries' = IF reported /\ mounted THEN FailSending(entries) ELSE entries
  /\ UNCHANGED <<server, ever, buffer, shown, page, timers, made, given, reattachDue>>

Reopens ==
  /\ sock = "down"
  /\ sock' = "open"
  /\ ever' = TRUE
  /\ up' = buffer /\ buffer' = <<>>
  /\ reattachDue' = ever
  /\ UNCHANGED <<server, down, shown, page, outbox, faults>>

ReattachesKeeping ==                            \* mutant: resets, and does not attach
  /\ reattachDue
  /\ reattachDue' = FALSE
  /\ IF isOpen THEN ResetView ELSE UNCHANGED <<view, busy>>
  /\ UNCHANGED <<server, net, watch, page, outbox, faults>>

(* The effect of app.tsx on reconnecting -> connected.                        *)
Reattaches ==
  /\ reattachDue
  /\ reattachDue' = FALSE
  /\ IF isOpen THEN ResetView /\ Frames(<<<<"attach">>>>)
     ELSE UNCHANGED <<view, busy, up, buffer>>
  /\ UNCHANGED <<server, sock, ever, down, watch, page, outbox, faults>>

(* The effects of a live view that mounts: listen, attach, hydrate, reconcile.   *)
MountUnhydrated(attaching) ==                   \* mutant: the outbox is not hydrated
  /\ mounted' = TRUE /\ listening' = TRUE
  /\ watch' = "armed"
  /\ IF attaching THEN Frames(<<<<"attach">>>>) ELSE UNCHANGED <<up, buffer>>
  /\ entries' = Confirmed(entries, view)
Mount(attaching) ==
  /\ mounted' = TRUE /\ listening' = TRUE
  /\ watch' = "armed"
  /\ IF attaching THEN Frames(<<<<"attach">>>>) ELSE UNCHANGED <<up, buffer>>
  /\ entries' = Confirmed(FailSending(entries), view)

Leaves ==
  /\ mounted
  /\ faults < MaxFaults /\ faults' = faults + 1
  /\ mounted' = FALSE
  /\ timers' = {}
  /\ UNCHANGED <<server, net, shown, listening, isOpen, skip, entries, made, given,
                 reattachDue>>

Comes ==
  /\ ~mounted /\ isOpen
  /\ Mount(~skip)
  /\ UNCHANGED <<server, sock, ever, down, view, busy, isOpen, skip, timers, made, given,
                 reattachDue, faults>>

(* onResumeSend: a send from the recorded conversation opens the live view.      *)
ResumesFromReplay ==
  /\ ~isOpen
  /\ isOpen' = TRUE /\ skip' = TRUE
  /\ mounted' = TRUE /\ listening' = TRUE
  /\ watch' = "armed"
  /\ Frames(<<<<"send", None>>>>)
  /\ entries' = Confirmed(FailSending(entries), view)
  /\ UNCHANGED <<server, sock, ever, down, view, busy, timers, made, given, reattachDue,
                 faults>>

(* useStartWatchdog: once, while there is no root to show; then the user may.    *)
StartWatchdog(retry) ==
  /\ mounted /\ view.root = None
  /\ IF retry THEN /\ watch = "fired" /\ watch' = "armed"
                   /\ faults < MaxFaults /\ faults' = faults + 1
              ELSE watch = "armed" /\ watch' = "fired" /\ UNCHANGED faults
  /\ ResetView
  /\ Frames(<<<<"attach">>>>)
  /\ UNCHANGED <<server, sock, ever, down, page, outbox, reattachDue>>

(* The window reloads, alone or because the application restarts: it keeps its   *)
(* localStorage and nothing else; a restart leaves no agent live.             *)
Reloads(restart) ==
  /\ faults < MaxFaults /\ faults' = faults + 1
  /\ roots < MaxRoots
  /\ sock' = "down" /\ ever' = FALSE
  /\ up' = <<>> /\ down' = <<>> /\ buffer' = <<>>
  /\ ResetView
  /\ watch' = "armed"
  /\ mounted' = FALSE /\ listening' = FALSE /\ isOpen' = FALSE /\ skip' = FALSE
  /\ timers' = {}
  /\ reattachDue' = FALSE
  /\ IF restart THEN live' = 0 /\ working' = 0 /\ queue' = None /\ resumes' = 0
                ELSE UNCHANGED <<live, working, queue, resumes>>
  /\ UNCHANGED <<store, roots, entries, made, given>>

ConvNext ==
  \/ \E e \in AgentEvents(live) : AgentEmits(e)
  \/ \E failed \in BOOLEAN : TurnEnds(failed)
  \/ RunEnds
  \/ Receives
  \/ ResumeStarts
  \/ ResumeFails
  \/ Delivers
  \/ \E s \in Sends : UserSends(s)
  \/ \E s \in Sends : AckTimeout(s)
  \/ \E s \in Sends : UserTakesBack(s)
  \/ UserInterrupts
  \/ \E reported \in BOOLEAN : Drops(reported)
  \/ Reopens
  \/ Reattaches
  \/ Leaves
  \/ Comes
  \/ ResumesFromReplay
  \/ \E retry \in BOOLEAN : StartWatchdog(retry)
  \/ \E restart \in BOOLEAN : Reloads(restart)

ConvSpec == ConvInit /\ [][ConvNext]_convVars

-----------------------------------------------------------------------------
ConvTypeOK ==
  /\ live \in 0..MaxRoots /\ roots \in 1..MaxRoots /\ live <= roots
  /\ working \in Nat /\ resumes \in Nat
  /\ sock \in {"open", "down"} /\ ever \in BOOLEAN
  /\ view.root \in 0..MaxRoots \cup {None}
  /\ DOMAIN view.runners \subseteq 1..MaxRoots
  /\ busy \in BOOLEAN
  /\ entries \in [Sends -> {"none", "sending", "failed"}]
  /\ timers \subseteq Sends /\ made \subseteq Sends /\ given \subseteq Sends
  /\ mounted \in BOOLEAN /\ listening \in BOOLEAN /\ isOpen \in BOOLEAN /\ skip \in BOOLEAN
  /\ reattachDue \in BOOLEAN /\ watch \in {"armed", "fired"}

StoredSends == {s \in Sends : \E i \in DOMAIN store : store[i].id = <<"user", s>>}

(* No turn vanishes: a send is in the outbox, where the user sees it, or in the  *)
(* log, unless the user took it back.  Drops, reloads and restarts included.    *)
NoTurnVanishes ==
  \A s \in made : entries[s] # "none" \/ s \in StoredSends \/ s \in given

(* A send on display that is still "sending" has its timer: it cannot stay so.   *)
NoSendHangs ==
  mounted => \A s \in Sends : entries[s] = "sending" => s \in timers

(* Whatever was replayed, and however often: no item that has an identity is shown   *)
(* twice.  The error of a turn has none, the adapter names no message in it: it gets   *)
(* a row each time it is applied, two when live and others with each replay.        *)
NothingShownTwice ==
  \A r \in DOMAIN view.runners :
    LET items == view.runners[r].items IN
    \A i, j \in DOMAIN items :
      HasIdentity(Identity(items[i])) /\ Identity(items[i]) = Identity(items[j]) => i = j

(* Nothing is on its way and the socket is up.                                *)
Quiet ==
  /\ sock = "open" /\ up = <<>> /\ down = <<>> /\ ~reattachDue
  /\ resumes = 0

(* Each run began when the one before it had ended: an interrupt during a resume  *)
(* lets a second resume begin, and the window waits for the turns of the first.    *)
RunsInTurn ==
  \A r \in 2..roots :
    \A i \in DOMAIN store : store[i] = Started(r) =>
      \E j \in 1..(i - 1) : store[j] = Finished(r - 1, "errored")

(* What an event of the log shows, and whether a view has it.                    *)
IsStart(e) == e.type = "runner-started"
StartOf(e, r) == IsStart(e) /\ e.runner = r
Shows(e) == e.type \in {"user-text", "text-delta", "tool-call-started"}
Key(e) == <<IF e.type = "tool-call-started" THEN "tool-call" ELSE "message", e.id>>
InView(run, e) ==
  /\ e.runner \in DOMAIN run.runners
  /\ \E i \in DOMAIN run.runners[e.runner].items :
       Identity(run.runners[e.runner].items[i]) = Key(e)

(* The echoes of the turns a resume flushes are logged before their runner starts.    *)
Early(i) == ~\E j \in 1..(i - 1) : StartOf(store[j], store[i].runner)

(* Then a live view that attached has every runner of the log, the last root is its   *)
(* root, it shows the item of every event of the log but those that came too early,   *)
(* and there is no typing indicator for turns that are over; or it has no root yet,   *)
(* and the watchdog sees to it.                                               *)
ViewCatchesUp ==
  Quiet /\ mounted /\ ~skip /\ view.root # None =>
    /\ \A i \in DOMAIN store :
         /\ IsStart(store[i]) => store[i].runner \in DOMAIN view.runners
         /\ IsStart(store[i]) /\ (\A j \in (i + 1)..Len(store) : ~IsStart(store[j])) =>
              view.root = store[i].runner
         /\ Shows(store[i]) /\ ~Early(i) => InView(view, store[i])
    /\ RunsInTurn /\ working = 0 /\ live # 0 => ~busy

(* agent-events/src/reduce.ts 157-159: a resumed root "re-points to the resumed root  *)
(* so the new turn renders under a runner that already holds the history".           *)
ResumedTurnIsShown ==
  Quiet /\ mounted /\ ~skip /\ view.root # None =>
    \A i \in DOMAIN store : store[i].type = "user-text" => InView(view, store[i])

(* runViewStore.ts 70-71: "live and replay produce identical state".            *)
LiveMatchesReplay ==
  Quiet /\ mounted /\ view.root # None => RootItems(view) = RootItems(Fold(store))
===============================================================================

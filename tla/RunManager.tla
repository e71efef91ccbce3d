------------------------------ MODULE RunManager ------------------------------
(***************************************************************************)
(* The run manager (packages/agent-driver/src/manager.ts) over the agent    *)
(* runtime (packages/driver-runtime/src/runtime.ts) and the session store   *)
(* (packages/sessions/src/store.ts): launching a run, sending turns to it,  *)
(* lazily resuming an ended one, interrupting, and the end of a run.        *)
(*                                                                         *)
(* The manager is single-threaded JavaScript: an action is everything that  *)
(* happens between two suspensions.  The suspensions are doResume's await   *)
(* of resolveResumeInput, the microtask that announces the root runner, and *)
(* the adapter's asynchronous start.                                       *)
(*                                                                         *)
(* An agent is one call of driver.start; it stands for the AgentSession     *)
(* returned and for its root runner.  It is named when doResume begins, so  *)
(* a suspended resume is an agent whose stage is "resolving".               *)
(***************************************************************************)
EXTENDS Naturals, Sequences, FiniteSets

CONSTANTS
  Sessions,       (* session ids                                            *)
  Agents,         (* driver starts, numbered in the order they are begun    *)
  Turns,          (* user turns, numbered in the order they are sent        *)
  Interrupt,      (* the command a run-interrupt forwards to the agent      *)
  NoAgent,        (* a key that is absent from the map `live`               *)
  NoSession,      (* the owner of an agent that was never begun             *)
  MaxInterrupts,  (* bound on the run-interrupts of a behaviour             *)
  MaxCrashes      (* bound on the exits of the desktop process              *)

ASSUME RunManagerAssumption ==
  /\ Agents \subseteq Nat
  /\ Turns \subseteq Nat
  /\ Interrupt \notin Turns
  /\ NoAgent \notin Agents
  /\ NoSession \notin Sessions
  /\ MaxInterrupts \in Nat
  /\ MaxCrashes \in Nat

VARIABLES
  row,         (* row[s]: the persisted session, "open" while endedAt is null *)
  live,        (* live[s]: the manager's map of live agents                   *)
  resuming,    (* the keys of the manager's map `resuming`                    *)
  queued,      (* queued[s]: the turns that map holds for s                   *)
  stage,       (* stage[a]: how far the start of agent a has come             *)
  owner,       (* owner[a]: the session agent a was started for               *)
  queue,       (* queue[a]: the runtime's queue, before the adapter is ready  *)
  handed,      (* handed[a]: the commands the adapter of a has been given     *)
  log,         (* log[s]: the canonical events persisted for s                *)
  sentTo,      (* sentTo[t]: history: the session turn t was sent to          *)
  discarded,   (* history: turns thrown away by an interrupt, an end, a crash *)
  orphaned,    (* history: sessions whose queue was interrupted mid-resume    *)
  interrupts,  (* run-interrupts so far                                       *)
  crashes,     (* process exits so far                                        *)
  up           (* whether the desktop process is running                      *)

vars == <<row, live, resuming, queued, stage, owner, queue, handed, log, sentTo,
          discarded, orphaned, interrupts, crashes, up>>

history  == <<sentTo, discarded, orphaned>>
counters == <<interrupts, crashes, up>>

-----------------------------------------------------------------------------
Commands == Turns \cup {Interrupt}
Stages   == {"unused", "resolving", "scheduled", "connecting", "ready", "over"}

(* The agents driver.start has returned and nothing has closed.             *)
Started == {"scheduled", "connecting", "ready"}
Working == Started \cup {"resolving"}

Events == [kind : {"started", "user", "finished"},
           runner : Agents,
           turn : Turns \cup {Interrupt}]

StartedEvent(a)  == [kind |-> "started", runner |-> a, turn |-> Interrupt]
FinishedEvent(a) == [kind |-> "finished", runner |-> a, turn |-> Interrupt]
UserEvent(a, t)  == [kind |-> "user", runner |-> a, turn |-> t]

Items(seq) == {seq[i] : i \in DOMAIN seq}

AgentsOf(s, stages) == {a \in Agents : owner[a] = s /\ stage[a] \in stages}

(* Agents and turns are numbered as they are used: the identity generator    *)
(* never returns an id twice.                                               *)
FreshAgent(a) ==
  stage[a] = "unused" /\ \A b \in Agents : stage[b] = "unused" => a <= b

FreshTurn(t) ==
  sentTo[t] = NoSession /\ \A u \in Turns : sentTo[u] = NoSession => t <= u

-----------------------------------------------------------------------------
Init ==
  /\ row = [s \in Sessions |-> "absent"]
  /\ live = [s \in Sessions |-> NoAgent]
  /\ resuming = {}
  /\ queued = [s \in Sessions |-> <<>>]
  /\ stage = [a \in Agents |-> "unused"]
  /\ owner = [a \in Agents |-> NoSession]
  /\ queue = [a \in Agents |-> <<>>]
  /\ handed = [a \in Agents |-> <<>>]
  /\ log = [s \in Sessions |-> <<>>]
  /\ sentTo = [t \in Turns |-> NoSession]
  /\ discarded = {}
  /\ orphaned = {}
  /\ interrupts = 0
  /\ crashes = 0
  /\ up = TRUE

-----------------------------------------------------------------------------
(* The session store and the manager's maps.                                *)

LeaveRowOpen(s) == UNCHANGED row     \* mutant: the row is never closed
CloseRow(s) == row' = [row EXCEPT ![s] = "ended"]

KeepHandle(s) == UNCHANGED live      \* mutant: live.delete(id) is forgotten
ForgetHandle(s) == live' = [live EXCEPT ![s] = NoAgent]

(* resuming.delete(id): the key and whatever the queue still held.           *)
KeepKey(s) ==       \* mutant: the queue is emptied, its key stays
  UNCHANGED resuming /\ queued' = [queued EXCEPT ![s] = <<>>]
KeepTurns(s) ==     \* mutant: the flushed turns stay in the queue
  resuming' = resuming \ {s} /\ UNCHANGED queued
ClearQueue(s) ==    \* mutant: the queue is replaced by no queue at all
  resuming' = resuming \ {s} /\ queued' = [queued EXCEPT ![s] = NoAgent]
DropQueue(s) ==
  /\ resuming' = resuming \ {s}
  /\ queued' = [queued EXCEPT ![s] = <<>>]

(* A run-send begins a resume when there is neither a live agent nor a queue. *)
AnySend(s) == live[s] = NoAgent      \* mutant: a queue is not looked for
BeginsResume(s) == live[s] = NoAgent /\ s \notin resuming

-----------------------------------------------------------------------------
(* The agent runtime.                                                       *)

(* runOrQueue: the adapter's handle takes the commands at once when it       *)
(* exists, and they wait in order when it does not.                         *)
AlwaysQueue(a, commands) ==   \* mutant: a ready adapter's handle is ignored
  queue' = [queue EXCEPT ![a] = @ \o commands] /\ UNCHANGED handed
PutFirst(a, commands) ==      \* mutant: the newest command goes to the front
  queue' = [queue EXCEPT ![a] = commands \o @] /\ UNCHANGED handed
RunOrQueue(a, commands) ==
  IF stage[a] = "ready"
  THEN /\ handed' = [handed EXCEPT ![a] = @ \o commands]
       /\ UNCHANGED queue
  ELSE /\ queue' = [queue EXCEPT ![a] = @ \o commands]
       /\ UNCHANGED handed

(* AgentSession.send for each turn: echo the user's turn as a canonical      *)
(* event, which wireOnEvent persists, then give it to the adapter.          *)
SendSilently(a, s, turns) ==   \* mutant: the turn is not echoed
  UNCHANGED log /\ RunOrQueue(a, turns)
SendAll(a, s, turns) ==
  /\ log' = [log EXCEPT ![s] = @ \o [i \in DOMAIN turns |-> UserEvent(a, turns[i])]]
  /\ RunOrQueue(a, turns)

(* The microtask driver.start schedules: announce the root runner, then call *)
(* the adapter's start.                                                     *)
AnnounceRoot(a) ==
  /\ stage[a] = "scheduled"
  /\ stage' = [stage EXCEPT ![a] = "connecting"]
  /\ log' = [log EXCEPT ![owner[a]] = Append(@, StartedEvent(a))]
  /\ UNCHANGED <<row, live, resuming, queued, owner, queue, handed, history,
                 counters>>

(* The adapter's start resolves: its handle drains the queue in order.       *)
AdapterReady(a) ==
  /\ stage[a] = "connecting"
  /\ stage' = [stage EXCEPT ![a] = "ready"]
  /\ handed' = [handed EXCEPT ![a] = @ \o queue[a]]
  /\ queue' = [queue EXCEPT ![a] = <<>>]
  /\ UNCHANGED <<row, live, resuming, queued, owner, log, history, counters>>

(* wireOnEvent on the root's runner-finished: persist it, close the session's *)
(* row, close the agent (which clears its queue) and drop the live handle.   *)
(* The handle is dropped by session id, whichever agent it belongs to.       *)
FinishRoot(a) ==
  LET s == owner[a] IN
  /\ log' = [log EXCEPT ![s] = Append(@, FinishedEvent(a))]
  /\ CloseRow(s)
  /\ stage' = [stage EXCEPT ![a] = "over"]
  /\ discarded' = discarded \cup (Items(queue[a]) \cap Turns)
  /\ queue' = [queue EXCEPT ![a] = <<>>]
  /\ ForgetHandle(s)
  /\ UNCHANGED <<resuming, queued, owner, handed, sentTo, orphaned, counters>>

(* The adapter's start rejects: the runtime reports the root as errored.     *)
AdapterFails(a) == stage[a] = "connecting" /\ FinishRoot(a)

(* A running adapter reports the end of its root runner.                     *)
RootFinishes(a) == stage[a] = "ready" /\ FinishRoot(a)

-----------------------------------------------------------------------------
(* launch                                                                   *)

Launch(s, a) ==
  /\ up
  /\ row[s] = "absent"
  /\ FreshAgent(a)
  /\ row' = [row EXCEPT ![s] = "open"]
  /\ owner' = [owner EXCEPT ![a] = s]
  /\ stage' = [stage EXCEPT ![a] = "scheduled"]
  /\ live' = [live EXCEPT ![s] = a]
  /\ UNCHANGED <<resuming, queued, queue, handed, log, history, counters>>

(* driver.start refuses: the row just created is closed with code 1.         *)
LaunchRefused(s, a) ==
  /\ up
  /\ row[s] = "absent"
  /\ FreshAgent(a)
  /\ CloseRow(s)
  /\ owner' = [owner EXCEPT ![a] = s]
  /\ stage' = [stage EXCEPT ![a] = "over"]
  /\ UNCHANGED <<live, resuming, queued, queue, handed, log, history, counters>>

-----------------------------------------------------------------------------
(* handleInbound: run-send                                                  *)

Sends(s, t) ==
  /\ up
  /\ FreshTurn(t)
  /\ sentTo' = [sentTo EXCEPT ![t] = s]

SendLive(s, t) ==
  /\ Sends(s, t)
  /\ live[s] # NoAgent
  /\ SendAll(live[s], s, <<t>>)
  /\ UNCHANGED <<row, live, resuming, queued, stage, owner, discarded, orphaned,
                 counters>>

(* resumeAndSend while the map already has a queue for the session.          *)
SendQueued(s, t) ==
  /\ Sends(s, t)
  /\ live[s] = NoAgent
  /\ s \in resuming
  /\ queued' = [queued EXCEPT ![s] = Append(@, t)]
  /\ UNCHANGED <<row, live, resuming, stage, owner, queue, handed, log,
                 discarded, orphaned, counters>>

(* resumeAndSend seeds the queue and doResume reopens the row, then suspends  *)
(* at resolveResumeInput.                                                   *)
SendResumes(s, t, a) ==
  /\ Sends(s, t)
  /\ BeginsResume(s)
  /\ row[s] # "absent"
  /\ FreshAgent(a)
  /\ resuming' = resuming \cup {s}
  /\ queued' = [queued EXCEPT ![s] = <<t>>]
  /\ row' = [row EXCEPT ![s] = "open"]
  /\ owner' = [owner EXCEPT ![a] = s]
  /\ stage' = [stage EXCEPT ![a] = "resolving"]
  /\ UNCHANGED <<live, queue, handed, log, discarded, orphaned, counters>>

(* A turn for a session the store does not have: the queue is dropped again. *)
SendUnknown(s, t) ==
  /\ Sends(s, t)
  /\ BeginsResume(s)
  /\ row[s] = "absent"
  /\ discarded' = discarded \cup {t}
  /\ UNCHANGED <<row, live, resuming, queued, stage, owner, queue, handed, log,
                 orphaned, counters>>

-----------------------------------------------------------------------------
(* doResume after resolveResumeInput                                        *)

ResumeStarts(a) ==
  LET s == owner[a] IN
  /\ stage[a] = "resolving"
  /\ stage' = [stage EXCEPT ![a] = "scheduled"]
  /\ live' = [live EXCEPT ![s] = a]
  /\ SendAll(a, s, queued[s])
  /\ DropQueue(s)
  /\ UNCHANGED <<row, owner, history, counters>>

(* driver.start refuses: the row is closed with code 1, the queue is dropped; *)
(* the error frame sent to the webview is not persisted.                    *)
ResumeRefused(a) ==
  LET s == owner[a] IN
  /\ stage[a] = "resolving"
  /\ stage' = [stage EXCEPT ![a] = "over"]
  /\ CloseRow(s)
  /\ discarded' = discarded \cup Items(queued[s])
  /\ DropQueue(s)
  /\ UNCHANGED <<live, owner, queue, handed, log, sentTo, orphaned, counters>>

-----------------------------------------------------------------------------
(* handleInbound: run-interrupt                                             *)

Interrupts == up /\ interrupts < MaxInterrupts /\ interrupts' = interrupts + 1

InterruptLive(s) ==
  /\ Interrupts
  /\ live[s] # NoAgent
  /\ discarded' = discarded \cup Items(queued[s])
  /\ DropQueue(s)
  /\ RunOrQueue(live[s], <<Interrupt>>)
  /\ UNCHANGED <<row, live, stage, owner, log, sentTo, orphaned, crashes, up>>

(* No live agent: only the queue is dropped.  A resume that is suspended     *)
(* stays suspended, and nothing records any more that it is under way.       *)
InterruptIdle(s) ==
  /\ Interrupts
  /\ live[s] = NoAgent
  /\ discarded' = discarded \cup Items(queued[s])
  /\ DropQueue(s)
  /\ orphaned' = IF AgentsOf(s, {"resolving"}) # {} THEN orphaned \cup {s}
                 ELSE orphaned
  /\ UNCHANGED <<row, live, stage, owner, queue, handed, log, sentTo, crashes, up>>

-----------------------------------------------------------------------------
(* The desktop process exits: everything in memory is lost, the rows and the *)
(* event log stay.  The next start marks the rows left open as ended.        *)

Waiting ==
  {t \in Turns : \/ \E s \in Sessions : t \in Items(queued[s])
                \/ \E a \in Agents : t \in Items(queue[a])}

Crash ==
  /\ up
  /\ crashes < MaxCrashes
  /\ crashes' = crashes + 1
  /\ up' = FALSE
  /\ live' = [s \in Sessions |-> NoAgent]
  /\ resuming' = {}
  /\ discarded' = discarded \cup Waiting
  /\ queued' = [s \in Sessions |-> <<>>]
  /\ stage' = [a \in Agents |-> IF stage[a] = "unused" THEN "unused" ELSE "over"]
  /\ queue' = [a \in Agents |-> <<>>]
  /\ orphaned' = {}
  /\ UNCHANGED <<row, owner, handed, log, sentTo, interrupts>>

Restart ==
  /\ ~up
  /\ up' = TRUE
  /\ row' = [s \in Sessions |-> IF row[s] = "open" THEN "ended" ELSE row[s]]
  /\ UNCHANGED <<live, resuming, queued, stage, owner, queue, handed, log,
                 history, interrupts, crashes>>

-----------------------------------------------------------------------------
Next ==
  \/ \E s \in Sessions, a \in Agents : Launch(s, a) \/ LaunchRefused(s, a)
  \/ \E s \in Sessions, t \in Turns :
       SendLive(s, t) \/ SendQueued(s, t) \/ SendUnknown(s, t)
  \/ \E s \in Sessions, t \in Turns, a \in Agents : SendResumes(s, t, a)
  \/ \E s \in Sessions : InterruptLive(s) \/ InterruptIdle(s)
  \/ \E a \in Agents :
       \/ ResumeStarts(a)
       \/ ResumeRefused(a)
       \/ AnnounceRoot(a)
       \/ AdapterReady(a)
       \/ AdapterFails(a)
       \/ RootFinishes(a)
  \/ Crash
  \/ Restart

(* resolveResumeInput settles and microtasks run.  The adapter's start awaits  *)
(* an external agent without a timeout (adapter.ts 95-116), so it may never   *)
(* resolve or reject.  The user, the end of a run and a crash are not fair.   *)
Fairness ==
  \A a \in Agents :
    /\ WF_vars(ResumeStarts(a) \/ ResumeRefused(a))
    /\ WF_vars(AnnounceRoot(a))

Spec == Init /\ [][Next]_vars
FairSpec == Spec /\ Fairness

-----------------------------------------------------------------------------
ControlTypeOK ==
  /\ row \in [Sessions -> {"absent", "open", "ended"}]
  /\ live \in [Sessions -> Agents \cup {NoAgent}]
  /\ resuming \subseteq Sessions
  /\ stage \in [Agents -> Stages]
  /\ owner \in [Agents -> Sessions \cup {NoSession}]
  /\ orphaned \subseteq Sessions
  /\ interrupts \in 0..MaxInterrupts
  /\ crashes \in 0..MaxCrashes
  /\ up \in BOOLEAN

TurnTypeOK ==
  /\ queued \in [Sessions -> Seq(Turns)]
  /\ queue \in [Agents -> Seq(Commands)]
  /\ handed \in [Agents -> Seq(Commands)]
  /\ log \in [Sessions -> Seq(Events)]
  /\ sentTo \in [Turns -> Sessions \cup {NoSession}]
  /\ discarded \subseteq Turns

(* The type of every variable.                                              *)
TypeOK == ControlTypeOK /\ TurnTypeOK

(* A session has at most one agent that is starting or running, unless an    *)
(* interrupt emptied its queue while a resume was suspended (manager.ts      *)
(* 395-407).                                                                *)
SingleAgent ==
  \A s \in Sessions \ orphaned :
    \A a, b \in AgentsOf(s, Working) : a = b

(* The manager's live handle is the one agent the session really has: no     *)
(* started agent is unreachable, and the handle never names a closed agent   *)
(* or another session's.                                                    *)
HandleIsTheAgent ==
  \A s \in Sessions :
    /\ live[s] # NoAgent => live[s] \in AgentsOf(s, Started)
    /\ s \notin orphaned => AgentsOf(s, Started) \subseteq {live[s]}

(* The persisted row says "running" exactly while the session has an agent,  *)
(* so reconcileOrphaned at the next start ends precisely the interrupted     *)
(* runs.                                                                    *)
RowTracksAgent ==
  up => \A s \in Sessions \ orphaned :
          (row[s] = "open") <=> (AgentsOf(s, Working) # {})

(* A queue in `resuming` always has a suspended resume that will flush it:    *)
(* a later run-send that finds the queue may rely on it.                     *)
QueueHasResume ==
  \A s \in resuming : live[s] = NoAgent /\ AgentsOf(s, {"resolving"}) # {}

(* A turn the user sent is in exactly one place: queued for a resume, in one  *)
(* runtime queue, given to one adapter, or thrown away by an interrupt, a    *)
(* refused start, an end or a crash; and an agent only ever sees turns of    *)
(* its own session.  A resume that loses its queue to another one, or a      *)
(* second flush of the same queue, would break it.                          *)
Places(t) ==
  ({"queued"} \X {s \in Sessions : t \in Items(queued[s])})
    \cup ({"queue"} \X {a \in Agents : t \in Items(queue[a])})
    \cup ({"handed"} \X {a \in Agents : t \in Items(handed[a])})
    \cup ({"discarded"} \X {d \in {0} : t \in discarded})

TurnsAccounted ==
  \A t \in Turns :
    /\ Cardinality(Places(t)) = IF sentTo[t] = NoSession THEN 0 ELSE 1
    /\ \A s \in Sessions : t \in Items(queued[s]) => sentTo[t] = s
    /\ \A a \in Agents :
         t \in Items(queue[a] \o handed[a]) => sentTo[t] = owner[a]

(* The harness gets a session's turns in the order the user sent them, each   *)
(* once, across the manager's resume queue and the runtime's queue.          *)
OrderKept ==
  \A a \in Agents :
    LET given == handed[a] \o queue[a]
    IN \A i, j \in DOMAIN given :
         i < j /\ {given[i], given[j]} \subseteq Turns => given[i] < given[j]

(* No turn reaches a harness, or waits for one, before its user event is      *)
(* persisted under that agent's root runner: what the agent was asked        *)
(* survives a crash (runtime.ts 142-159, manager.ts 172-189).                *)
PersistedFirst ==
  \A a \in Agents : \A c \in Items(handed[a] \o queue[a]) \cap Turns :
    UserEvent(a, c) \in Items(log[owner[a]])

(* The log of a run ends with its root's runner-finished: no turn is recorded *)
(* under an agent that is over, so a replayed transcript never shows a turn   *)
(* that nothing can answer.                                                 *)
NothingAfterFinish ==
  \A s \in Sessions : \A i, j \in DOMAIN log[s] :
    i < j /\ log[s][i].kind = "finished" => log[s][j].runner # log[s][i].runner

-----------------------------------------------------------------------------
(* What a user may rely on, whatever agents come and go (TurnDelivery).      *)
Fate(t) ==
  IF sentTo[t] = NoSession THEN "unsent"
  ELSE IF t \in discarded THEN "discarded"
  ELSE IF \E a \in Agents : t \in Items(handed[a]) THEN "handed"
  ELSE IF \E a \in Agents : stage[a] = "connecting" /\ t \in Items(queue[a]) THEN "entrusted"
  ELSE "waiting"

Delivery == INSTANCE TurnDelivery WITH fate <- [t \in Turns |-> Fate(t)]

(* No agent keeps the runtime waiting for its start for ever.                 *)
AgentsAnswer == \A a \in Agents : []<>(stage[a] # "connecting")

(* The manager delivers turns (manager.ts, resumeAndSend and doResume;        *)
(* runtime.ts, runOrQueue): what was handed over or thrown away stays so, no   *)
(* accepted turn waits for ever but with an agent whose start is never        *)
(* answered, and none at all if every start is.                              *)
DeliversTurns == Delivery!FairSpec /\ (AgentsAnswer => Delivery!AllSettle)

(* manager.ts 248-251: the sends that arrive while a resume is under way      *)
(* "pile onto the queue", which "serializes two rapid sends into ONE resume".*)
OneResume ==
  \A s \in Sessions : \A a, b \in AgentsOf(s, Working) : a = b
===============================================================================

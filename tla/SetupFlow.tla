------------------------------ MODULE SetupFlow ------------------------------
(***************************************************************************)
(* A provider's setup flow from end to end: the window's hook                *)
(* (useProviderFlow.ts, in ProvidersPage.tsx), the IPC handlers that relay   *)
(* its calls (apps/desktop/src/gui/ipc/handlers.ts) and the flow runner.     *)
(*                                                                         *)
(* A request reaches its handler at once, because the socket keeps the order  *)
(* of one renderer's requests; a reply takes any time, or is lost.          *)
(***************************************************************************)
EXTENDS FlowRunner

VARIABLES
  origins,      (* flowOrigins: the sessions the handlers answer for          *)
  saved,        (* flows whose provider record has been saved                *)
  reply,        (* reply[c]: the step call c replies with, or "none"          *)
  mounted,      (* the page, and with it the hook, is mounted                *)
  open,         (* the setup modal is open                                  *)
  generation,   (* generationRef; asked[c]: its value when call c was made    *)
  asked,
  session,      (* sessionRef                                               *)
  shown,        (* the step on display: stepRef                              *)
  timer,        (* the session the poll timer is for, or None                 *)
  lost          (* history: flows of which a reply was lost                  *)

handlers == <<origins, saved>>
hook == <<mounted, open, generation, session, shown, timer>>
vars == <<host, runner, calls, cancelled, faults, handlers, reply, asked, hook, lost>>

NextOf(S, c) == stage[c] = "unused" /\ \A d \in S : stage[d] = "unused" => c <= d
Forget(c) ==
  /\ reply' = [reply EXCEPT ![c] = None]
  /\ asked' = [asked EXCEPT ![c] = 0]
  /\ answer' = IF answer[c] \in Terminal \cup {"not-found"} THEN answer
               ELSE [answer EXCEPT ![c] = None]
Pending(f) == {c \in Calls : on[c] = f /\ stage[c] \notin {"unused", "over"}}

Init ==
  /\ RunnerInit
  /\ origins = {}
  /\ saved = {}
  /\ reply = [c \in Calls |-> None]
  /\ mounted = TRUE
  /\ open = FALSE
  /\ generation = 0
  /\ asked = [c \in Calls |-> 0]
  /\ session = None
  /\ shown = None
  /\ timer = None
  /\ lost = {}

-----------------------------------------------------------------------------
(* The handlers.                                                            *)

Reply(c, step) ==
  /\ stage' = [stage EXCEPT ![c] = "replied"]
  /\ reply' = [reply EXCEPT ![c] = step]
  /\ UNCHANGED <<on, answer>>

(* The runner has answered call c.  A failure, or an error step, is final.     *)
HandlerTakes(c) ==
  LET f == on[c] IN
  /\ stage[c] = "returned"
  /\ \/ /\ answer[c] \in {"form", "await"}
        /\ origins' = IF c = f THEN origins \cup {f} ELSE origins
        /\ Reply(c, answer[c])
        /\ UNCHANGED completions
     \/ /\ answer[c] = "open"
        /\ origins' = IF c = f THEN origins \cup {f} ELSE origins
        /\ stage' = [stage EXCEPT ![c] = "opening"]
        /\ UNCHANGED <<completions, reply, on, answer>>
     \/ /\ answer[c] = "done"
        /\ origins' = origins \ {f}
        /\ completions' = completions \ {f}
        /\ IF f \in completions
           THEN stage' = [stage EXCEPT ![c] = "saving"] /\ UNCHANGED <<reply, on, answer>>
           ELSE Reply(c, "error")
     \/ /\ answer[c] \in {"error", "told", "failed", "not-found"}
        /\ origins' = origins \ {f}
        /\ Reply(c, "error")
        /\ UNCHANGED completions
     \/ /\ answer[c] = "in-flight"
        /\ Reply(c, "none")
        /\ UNCHANGED <<origins, completions>>
  /\ UNCHANGED <<host, starting, sessions, deadlines, interrupted, abandoned,
                 inFlight, stepCount, home, cancelled, faults, saved, asked, hook, lost>>

(* openExternalGuarded: refused, or a step the schema of the window rejects,   *)
(* ends the session the window is about to forget.                          *)
Opens(c, opened) ==
  LET f == on[c] IN
  /\ stage[c] = "opening"
  /\ \/ opened /\ Reply(c, "open") /\ UNCHANGED <<origins, host, runner, cancelled>>
     \/ /\ ~opened
        /\ origins' = origins \ {f}
        /\ Cancel(f)
        /\ Reply(c, "error")
        /\ UNCHANGED <<enabled, offered, pid, starting, interrupted, inFlight,
                       stepCount, home>>
  /\ UNCHANGED <<faults, saved, asked, hook, lost>>

(* persistFlowCompletion: saved, and the save sweeps; or refused.             *)
Persists(c) ==
  /\ stage[c] = "saving"
  /\ \/ /\ saved' = saved \cup {on[c]}
        /\ Sweep(enabled)
        /\ Reply(c, "done")
     \/ Reply(c, "error") /\ UNCHANGED <<saved, child, runner, cancelled>>
  /\ UNCHANGED <<enabled, offered, pid, faults, origins, asked, hook, lost>>

-----------------------------------------------------------------------------
(* The hook and the page.                                                   *)

Asks(c) == asked' = [asked EXCEPT ![c] = generation']

(* cancelProviderFlow, for a session or for none.                            *)
CancelRemote(f) ==
  IF f \in origins
  THEN /\ origins' = origins \ {f}
       /\ Cancel(f)
       /\ UNCHANGED <<enabled, offered, pid, starting, interrupted, inFlight,
                      stepCount, home>>
  ELSE UNCHANGED <<origins, host, runner, cancelled>>

(* The action bar is behind the modal while a flow is on.                     *)
UserStarts(f) ==
  /\ mounted /\ ~open
  /\ NextOf(Flows, f)
  /\ open' = TRUE
  /\ generation' = generation + 1
  /\ Asks(f)
  /\ Start(f)
  /\ UNCHANGED <<handlers, reply, mounted, session, shown, timer, lost>>

UserCancels ==
  /\ mounted /\ open
  /\ open' = FALSE
  /\ generation' = generation + 1
  /\ session' = None
  /\ shown' = None
  /\ timer' = None
  /\ CancelRemote(session)
  /\ UNCHANGED <<calls, faults, saved, reply, asked, mounted, lost>>

(* advanceProviderFlow is refused for a session the handlers do not know.     *)
RequestStep(a, f, late) ==
  /\ NextOf(Advances, a)
  /\ IF f \in origins
     THEN Advance(a, f, late) /\ UNCHANGED reply
     ELSE /\ ~late
          /\ on' = [on EXCEPT ![a] = f]
          /\ stage' = [stage EXCEPT ![a] = "replied"]
          /\ reply' = [reply EXCEPT ![a] = "error"]
          /\ UNCHANGED <<answer, host, runner, cancelled, faults>>
  /\ UNCHANGED generation
  /\ Asks(a)
  /\ UNCHANGED <<handlers, mounted, open, session, shown, lost>>

(* Nothing stops a second click while the first is on its way.                *)
UserSubmits(a, late) ==
  /\ mounted /\ open /\ session # None
  /\ shown \in {"form", "open"}
  /\ RequestStep(a, session, late)
  /\ UNCHANGED timer

Polls(a, late) ==
  /\ timer # None
  /\ timer' = None
  /\ RequestStep(a, timer, late)

(* applyStep.  A done closes the modal through the page's effect, which also   *)
(* cancels a session that is no more.                                       *)
Apply(f, step) ==
  /\ \/ /\ step = "done" /\ mounted
        /\ open' = FALSE
        /\ generation' = generation + 1
        /\ shown' = None
     \/ /\ ~(step = "done" /\ mounted)
        /\ shown' = step
        /\ UNCHANGED <<open, generation>>
  /\ session' = IF step \in {"done", "error"} THEN None ELSE f
  /\ timer' = IF step = "await" THEN f ELSE None

(* A reply for another generation is stale; a stale start gives its session up. *)
ReceiveStaleLeaving(c) ==                       \* mutant: a stale start is just dropped
  /\ stage[c] = "replied"
  /\ stage' = [stage EXCEPT ![c] = "over"]
  /\ IF asked[c] # generation
     THEN UNCHANGED <<open, generation, session, shown, timer>>
     ELSE Apply(on[c], reply[c])
  /\ Forget(c)
  /\ UNCHANGED <<on, host, runner, cancelled, origins, faults, saved,
                 mounted, lost>>
Receive(c) ==
  LET f == on[c] IN
  /\ stage[c] = "replied"
  /\ stage' = [stage EXCEPT ![c] = "over"]
  /\ \/ /\ asked[c] # generation
        /\ IF c = f THEN CancelRemote(f) ELSE UNCHANGED <<origins, host, runner, cancelled>>
        /\ UNCHANGED <<open, generation, session, shown, timer>>
     \/ /\ asked[c] = generation /\ reply[c] = "none"
        /\ timer' = IF shown = "await" THEN f ELSE timer
        /\ UNCHANGED <<origins, host, runner, cancelled, open, generation, session, shown>>
     \/ /\ asked[c] = generation /\ reply[c] # "none"
        /\ Apply(f, reply[c])
        /\ UNCHANGED <<origins, host, runner, cancelled>>
  /\ Forget(c)
  /\ UNCHANGED <<on, faults, saved, mounted, lost>>

(* The reply is lost: a step's session is cancelled and forgotten, a start's    *)
(* is not even known.                                                       *)
Loses(c) ==
  LET f == on[c] IN
  /\ stage[c] = "replied"
  /\ Fault
  /\ lost' = lost \cup {f}
  /\ stage' = [stage EXCEPT ![c] = "over"]
  /\ IF asked[c] = generation /\ c # f
     THEN CancelRemote(f) /\ session' = None /\ timer' = None
     ELSE UNCHANGED <<origins, host, runner, cancelled, session, timer>>
  /\ Forget(c)
  /\ UNCHANGED <<on, saved, mounted, open, generation, shown>>

(* The user goes to another page: the effect's cleanup.                       *)
Unmounts ==
  /\ mounted
  /\ mounted' = FALSE
  /\ timer' = None
  /\ CancelRemote(session)
  /\ UNCHANGED <<calls, faults, saved, reply, asked, open, generation, session, shown,
                 lost>>

-----------------------------------------------------------------------------
rest == <<handlers, reply, asked, hook, lost>>
Kinds == Steps \cup {"failed"}

Main ==
  \/ \E f \in Flows : ChildReady(f) /\ UNCHANGED rest
  \/ \E f \in Flows : ChildFails(f) /\ UNCHANGED rest
  \/ \E f \in Flows : ChildCrashes(f) /\ UNCHANGED rest
  \/ \E f \in Flows : SpawnFails(f) /\ UNCHANGED rest
  \/ \E f \in Flows : OpenFlow(f) /\ UNCHANGED rest
  \/ \E f \in Flows, kind \in Kinds : Opened(f, kind) /\ UNCHANGED rest
  \/ \E f \in Flows : Expire(f) /\ UNCHANGED rest
  \/ \E a \in Advances : Verified(a) /\ UNCHANGED rest
  \/ \E a \in Advances, kind \in Kinds : Posted(a, kind) /\ UNCHANGED rest
  \/ \E c \in Calls : StopResolves(c) /\ UNCHANGED rest
  \/ SaveSettings /\ UNCHANGED rest
  \/ Refresh /\ UNCHANGED rest
  \/ \E c \in Calls : HandlerTakes(c)
  \/ \E c \in Calls, opened \in BOOLEAN : Opens(c, opened)
  \/ \E c \in Calls : Persists(c)

Window ==
  \/ \E f \in Flows : UserStarts(f)
  \/ UserCancels
  \/ \E a \in Advances, late \in BOOLEAN : UserSubmits(a, late)
  \/ \E a \in Advances, late \in BOOLEAN : Polls(a, late)
  \/ \E c \in Calls : Receive(c)
  \/ \E c \in Calls : Loses(c)
  \/ Unmounts

Next == Main \/ Window

(* A start settles, a call to the plugin has a time budget, a stop resolves,    *)
(* and timers fire: only the first and the last are needed here.             *)
Fairness ==
  \A f \in Flows :
    /\ WF_vars((ChildReady(f) \/ ChildFails(f)) /\ UNCHANGED rest)
    /\ WF_vars((SpawnFails(f) \/ OpenFlow(f)) /\ UNCHANGED rest)
    /\ WF_vars(Expire(f) /\ UNCHANGED rest)

Spec == Init /\ [][Next]_vars /\ Fairness

-----------------------------------------------------------------------------
TypeOK ==
  /\ RunnerTypeOK
  /\ origins \subseteq Flows /\ saved \subseteq Flows
  /\ reply \in [Calls -> Steps \cup {"none", None}]
  /\ mounted \in BOOLEAN /\ open \in BOOLEAN
  /\ generation \in Nat /\ asked \in [Calls -> Nat]
  /\ session \in Flows \cup {None} /\ timer \in Flows \cup {None}
  /\ shown \in Steps \cup {None}
  /\ lost \subseteq Flows

(* No child of a flow can outlive it (flow-runner.ts 194-205): while one runs,  *)
(* its start is still suspended or a deadline is armed for it, and an         *)
(* extension that is disabled everywhere has none.  The other way about, a    *)
(* live session is under a deadline and its child was stopped by nobody, the  *)
(* sweep of an unrelated save included.                                      *)
ChildHasAnOwner ==
  \A f \in Flows :
    /\ child[f] \in {"starting", "running"} =>
         f \in deadlines \/ stage[f] \in {"spawning", "spawned"}
    /\ child[f] = "running" => enabled \/ offered
    /\ f \in sessions => f \in deadlines
    /\ f \in Active => child[f] # "stopped"

(* A flow ends once, and the window is told why: one call at most gets a final  *)
(* answer, and a later one is answered not-found only when an earlier one got *)
(* it or the user gave the flow up (flow-runner.ts 454-468).                 *)
Ended(f) == {c \in Calls : on[c] = f /\ answer[c] \in Terminal}

EndsOnceAndSaysWhy ==
  \A f \in Flows :
    /\ Cardinality(Ended(f)) <= 1
    /\ (\E a \in Advances : on[a] = f /\ answer[a] = "not-found") =>
         Ended(f) # {} \/ f \in cancelled

(* A completion holds secrets: it stays in memory only while the call that     *)
(* produced it is on its way to take it, and what the user cancelled before   *)
(* that is never written to the keychain and the configuration.             *)
SecretsAreDrained ==
  /\ \A f \in completions :
       \E c \in Calls : /\ on[c] = f
                        /\ answer[c] = "done"
                        /\ stage[c] \in {"stopping", "returned"}
  /\ cancelled \cap saved = {}

(* The window can always reach what it started: a live session is the one the  *)
(* hook holds, or a reply about it is on its way, unless a reply was lost      *)
(* (useProviderFlow.ts 153-158).                                            *)
NoStrandedSession ==
  mounted => \A f \in sessions : f = session \/ Pending(f) # {} \/ f \in lost

(* The process of every flow stops in the end, whatever the user, the plugin   *)
(* and the window do: the deadline sees to it.                              *)
ChildrenStop ==
  \A f \in Flows :
    child[f] \in {"starting", "running"} ~> child[f] \in {"failed", "stopped"}

-----------------------------------------------------------------------------
(* useProviderFlow.ts 198-200: "Closing the modal (unmount) must stop a live   *)
(* flow instance".                                                          *)
UnmountStopsFlow ==
  ~mounted => \A f \in sessions : Pending(f) # {}
===============================================================================

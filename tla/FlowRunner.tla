------------------------------ MODULE FlowRunner ------------------------------
(***************************************************************************)
(* The flow runner (packages/provider-host/src/flow-runner.ts): it drives an *)
(* extension's setup flow on a child process of its own, one step at a time,  *)
(* and ends the flow and the child whatever happens to either.              *)
(*                                                                         *)
(* A flow is one call of `start`: it stands for its instance key and for the *)
(* session that call may mint.  The other calls are those of `advance`.      *)
(* The provider host is ProviderHost.tla's; here it is one child per key,    *)
(* which a stop kills at once.  An action runs between two suspensions.      *)
(***************************************************************************)
EXTENDS Naturals, FiniteSets

CONSTANTS
  Flows,        (* calls of start                                           *)
  Advances,     (* calls of advance                                         *)
  None,         (* no flow, no answer                                       *)
  MaxSteps,     (* FLOW_LIMITS.maxSteps                                     *)
  MaxFaults     (* bound on what befalls a flow from outside: children that   *)
                (*   exit, changes of the settings, replies that are lost     *)

Calls == Flows \cup Advances

VARIABLES
  enabled,      (* the extension is enabled in the saved configuration        *)
  offered,      (* the registries, as last refreshed, resolve it              *)
  child,        (* child[f]: the status of the flow's instance                *)
  pid,          (* pid[f]: which process that is, counted from 1              *)
  starting, sessions, completions, deadlines,  (* the runner's maps, by flow  *)
  interrupted,  (* interrupted[f], abandoned[f]: the cause the map records,    *)
  abandoned,    (*   or "no"                                                 *)
  inFlight,     (* sessions whose inFlight flag is set                       *)
  stepCount,    (* stepCount[f], home[f]: the session's count and its pid     *)
  home,
  stage,        (* stage[c]: where call c is suspended                       *)
  on,           (* on[c]: the flow it is about                               *)
  answer,       (* answer[c]: what the runner makes of it                     *)
  cancelled,    (* history: flows cancelled while the runner remembered them  *)
  faults        (* how much of the bound is used up                          *)

host == <<enabled, offered, child, pid>>
runner == <<starting, sessions, completions, deadlines, interrupted, abandoned,
            inFlight, stepCount, home>>
calls == <<stage, on, answer>>

-----------------------------------------------------------------------------
Children == {"none", "starting", "running", "failed", "stopped"}

(* What a plugin may answer: the kinds of step, a form standing for every kind *)
(* that waits for the user, or no step the client accepts (flow-client.ts).   *)
Live == {"form", "await", "open"}
Steps == Live \cup {"done", "error"}

(* The runner's own answers.  "told" is the error step that carries a recorded *)
(* message.                                                                 *)
Refusals == {"failed", "told", "not-found", "in-flight"}

(* The answers that end a flow.                                              *)
Terminal == {"done", "error", "failed", "told"}

(* A flow and a step of one are different calls, and None is neither a call nor  *)
(* an answer.  FLOW_LIMITS lets a flow make a first step at least.             *)
ASSUME FlowRunnerAssumption ==
  /\ Flows \cap Advances = {}
  /\ None \notin Calls /\ None \notin Steps \cup Refusals \cup {"none"}
  /\ MaxSteps \in Nat \ {0}
  /\ MaxFaults \in Nat

Stages == {"unused", "spawning", "spawned", "calling", "verifying", "posting",
           "stopping", "returned", "opening", "saving", "replied", "over"}

Active == starting \cup sessions
Remembered(f) == f \in sessions \cup completions \/ abandoned[f] # "no"
Fault == faults < MaxFaults /\ faults' = faults + 1

RunnerInit ==
  /\ enabled = TRUE
  /\ offered = TRUE
  /\ child = [f \in Flows |-> "none"]
  /\ pid = [f \in Flows |-> 0]
  /\ starting = {}
  /\ sessions = {}
  /\ completions = {}
  /\ deadlines = {}
  /\ interrupted = [f \in Flows |-> "no"]
  /\ abandoned = [f \in Flows |-> "no"]
  /\ inFlight = {}
  /\ stepCount = [f \in Flows |-> 0]
  /\ home = [f \in Flows |-> 0]
  /\ stage = [c \in Calls |-> "unused"]
  /\ on = [c \in Calls |-> None]
  /\ answer = [c \in Calls |-> None]
  /\ cancelled = {}
  /\ faults = 0

-----------------------------------------------------------------------------
(* The host's side: a child answers its probe, fails to start, or exits and is *)
(* restarted as another process.                                            *)
ChildReady(f) ==
  /\ child[f] = "starting"
  /\ offered
  /\ child' = [child EXCEPT ![f] = "running"]
  /\ pid' = [pid EXCEPT ![f] = @ + 1]
  /\ IF stage[f] = "spawning"
     THEN /\ stage' = [stage EXCEPT ![f] = "spawned"]
          /\ home' = [home EXCEPT ![f] = pid'[f]]
     ELSE UNCHANGED <<stage, home>>
  /\ UNCHANGED <<enabled, offered, starting, sessions, completions, deadlines,
                 interrupted, abandoned, inFlight, stepCount, on, answer,
                 cancelled, faults>>

ChildFails(f) ==
  /\ child[f] = "starting"
  /\ child' = [child EXCEPT ![f] = "failed"]
  /\ UNCHANGED <<enabled, offered, pid, runner, calls, cancelled, faults>>

ChildCrashes(f) ==
  /\ child[f] = "running"
  /\ Fault
  /\ child' = [child EXCEPT ![f] = "starting"]
  /\ UNCHANGED <<enabled, offered, pid, runner, calls, cancelled>>

Stopped(fs) == [f \in Flows |-> IF f \in fs /\ child[f] # "none"
                                THEN "stopped" ELSE child[f]]

-----------------------------------------------------------------------------
(* Helpers of the runner.                                                    *)

Return(c, a) ==
  /\ stage' = [stage EXCEPT ![c] = "returned"]
  /\ answer' = [answer EXCEPT ![c] = a]

(* end, and the await of host.stop in it; call c answers a afterwards.        *)
End(f) ==
  /\ sessions' = sessions \ {f}
  /\ deadlines' = deadlines \ {f}
  /\ child' = Stopped({f})

EndAnswering(c, f, a) ==
  /\ End(f)
  /\ stage' = [stage EXCEPT ![c] = "stopping"]
  /\ answer' = [answer EXCEPT ![c] = a]

(* gone: the recorded message, once, or not-found.                           *)
Gone(c, f) ==
  /\ Return(c, IF abandoned[f] = "no" THEN "not-found" ELSE "told")
  /\ abandoned' = [abandoned EXCEPT ![f] = "no"]

(* deliver: a done leaves its completion for the handler and ends the flow; an *)
(* error ends it; any other step goes back and the flow goes on.             *)
Deliver(c, f, kind) ==
  /\ completions' = IF kind = "done" THEN completions \cup {f} ELSE completions
  /\ IF kind \in {"done", "error"}
     THEN EndAnswering(c, f, kind)
     ELSE Return(c, kind) /\ sessions' = sessions \cup {f} /\ UNCHANGED <<deadlines, child>>

-----------------------------------------------------------------------------
(* start: the key is registered before the spawn.                            *)
StartUnregistered(f) ==                         \* mutant: registered after the spawn
  /\ stage[f] = "unused"
  /\ stage' = [stage EXCEPT ![f] = "spawning"]
  /\ on' = [on EXCEPT ![f] = f]
  /\ child' = [child EXCEPT ![f] = "starting"]
  /\ UNCHANGED <<enabled, offered, pid, sessions, starting, completions, deadlines,
                 interrupted, abandoned, inFlight, stepCount, home, answer,
                 cancelled, faults>>
Start(f) ==
  /\ stage[f] = "unused"
  /\ stage' = [stage EXCEPT ![f] = "spawning"]
  /\ on' = [on EXCEPT ![f] = f]
  /\ starting' = starting \cup {f}
  /\ child' = [child EXCEPT ![f] = "starting"]
  /\ UNCHANGED <<enabled, offered, pid, sessions, completions, deadlines,
                 interrupted, abandoned, inFlight, stepCount, home, answer,
                 cancelled, faults>>

(* resolveInterrupt: an opening call whose flow was killed in the meantime     *)
(* answers with the reason.  The key is no longer in `starting`.              *)
AnswersInterrupt(f) ==
  /\ interrupted[f] # "no"
  /\ interrupted' = [interrupted EXCEPT ![f] = "no"]
  /\ Return(f, IF interrupted[f] = "timeout" THEN "failed" ELSE "told")

SpawnFails(f) ==
  /\ stage[f] = "spawning"
  /\ child[f] \in {"failed", "stopped"}
  /\ starting' = starting \ {f}
  /\ \/ AnswersInterrupt(f)
     \/ /\ interrupted[f] = "no"
        /\ Return(f, "failed")
        /\ UNCHANGED interrupted
  /\ UNCHANGED <<host, sessions, completions, deadlines, abandoned, inFlight,
                 stepCount, home, on, cancelled, faults>>

(* The child is up: arm the deadline and ask the plugin for the first step.    *)
OpenUnarmed(f) ==                               \* mutant: no deadline is armed
  /\ stage[f] = "spawned"
  /\ stage' = [stage EXCEPT ![f] = "calling"]
  /\ UNCHANGED <<host, runner, on, answer, cancelled, faults>>
OpenFlow(f) ==
  /\ stage[f] = "spawned"
  /\ \/ AnswersInterrupt(f) /\ UNCHANGED deadlines
     \/ /\ interrupted[f] = "no"
        /\ deadlines' = deadlines \cup {f}
        /\ stage' = [stage EXCEPT ![f] = "calling"]
        /\ UNCHANGED <<interrupted, answer>>
  /\ UNCHANGED <<host, starting, sessions, completions, abandoned, inFlight,
                 stepCount, home, on, cancelled, faults>>

(* The plugin's first answer.  It may have left before a stop took effect.    *)
Opened(f, kind) ==
  /\ stage[f] = "calling"
  /\ \/ /\ AnswersInterrupt(f)
        /\ UNCHANGED <<child, starting, sessions, completions, deadlines, stepCount>>
     \/ /\ interrupted[f] = "no"
        /\ starting' = starting \ {f}
        /\ IF kind = "failed"
           THEN EndAnswering(f, f, "failed") /\ UNCHANGED <<completions, stepCount>>
           ELSE /\ stepCount' = [stepCount EXCEPT ![f] = 1]
                /\ Deliver(f, f, kind)
        /\ UNCHANGED interrupted
  /\ UNCHANGED <<enabled, offered, pid, abandoned, inFlight, home, on, cancelled,
                 faults>>

-----------------------------------------------------------------------------
PastCap(f) == stepCount[f] > MaxSteps           \* mutant: off by one
AtCap(f) == stepCount[f] >= MaxSteps

(* advance, until its first await.  `late` is the budget check, which an       *)
(* overdue timer leaves something to find.                                   *)
Advance(a, f, late) ==
  /\ stage[a] = "unused"
  /\ on' = [on EXCEPT ![a] = f]
  /\ \/ /\ f \notin sessions
        /\ Gone(a, f)
        /\ UNCHANGED <<child, sessions, deadlines, inFlight>>
     \/ /\ f \in sessions \cap inFlight
        /\ Return(a, "in-flight")
        /\ UNCHANGED <<child, sessions, deadlines, inFlight, abandoned>>
     \/ /\ f \in sessions \ inFlight
        /\ late \/ AtCap(f)
        /\ EndAnswering(a, f, "failed")
        /\ UNCHANGED <<inFlight, abandoned>>
     \/ /\ f \in sessions \ inFlight
        /\ ~late /\ ~AtCap(f)
        /\ inFlight' = inFlight \cup {f}
        /\ stage' = [stage EXCEPT ![a] = "verifying"]
        /\ UNCHANGED <<child, sessions, deadlines, abandoned, answer>>
  /\ UNCHANGED <<enabled, offered, pid, starting, completions, interrupted,
                 stepCount, home, cancelled, faults>>

(* verifyAddress has answered: the child must be the one the session started   *)
(* with, and the session must still be there.                               *)
Verified(a) ==
  LET f == on[a]
      same == child[f] = "running" /\ pid[f] = home[f]
  IN
  /\ stage[a] = "verifying"
  /\ inFlight' = IF f \in sessions /\ same THEN inFlight ELSE inFlight \ {f}
  /\ \/ /\ f \notin sessions
        /\ Gone(a, f)
        /\ UNCHANGED <<child, sessions, deadlines, stepCount>>
     \/ /\ f \in sessions /\ ~same
        /\ EndAnswering(a, f, "failed")
        /\ UNCHANGED <<abandoned, stepCount>>
     \/ /\ f \in sessions /\ same
        /\ stepCount' = [stepCount EXCEPT ![f] = @ + 1]
        /\ stage' = [stage EXCEPT ![a] = "posting"]
        /\ UNCHANGED <<child, sessions, deadlines, abandoned, answer>>
  /\ UNCHANGED <<enabled, offered, pid, starting, completions, interrupted, home, on,
                 cancelled, faults>>

(* The plugin's answer to a step, for a session that may have been ended.     *)
PostedBlindly(a, kind) ==                       \* mutant: a late answer is delivered
  LET f == on[a] IN
  /\ stage[a] = "posting"
  /\ inFlight' = inFlight \ {f}
  /\ IF kind = "failed"
     THEN EndAnswering(a, f, "failed") /\ UNCHANGED completions
     ELSE Deliver(a, f, kind)
  /\ UNCHANGED <<enabled, offered, pid, starting, interrupted, abandoned, stepCount,
                 home, on, cancelled, faults>>
Posted(a, kind) ==
  LET f == on[a] IN
  /\ stage[a] = "posting"
  /\ inFlight' = inFlight \ {f}
  /\ \/ /\ f \notin sessions
        /\ Gone(a, f)
        /\ UNCHANGED <<child, sessions, deadlines, completions>>
     \/ /\ f \in sessions
        /\ IF kind = "failed"
           THEN EndAnswering(a, f, "failed") /\ UNCHANGED completions
           ELSE Deliver(a, f, kind)
        /\ UNCHANGED abandoned
  /\ UNCHANGED <<enabled, offered, pid, starting, interrupted, stepCount, home, on,
                 cancelled, faults>>

(* host.stop has resolved: the call that ended the flow returns.              *)
StopResolves(c) ==
  /\ stage[c] = "stopping"
  /\ Return(c, answer[c])
  /\ UNCHANGED <<host, runner, on, cancelled, faults>>

-----------------------------------------------------------------------------
(* cancel.  It says nothing of the calls: its callers do.                    *)
CancelKeepsCompletion(f) ==                     \* mutant: the completion survives
  /\ UNCHANGED completions
  /\ abandoned' = [abandoned EXCEPT ![f] = "no"]
  /\ cancelled' = IF Remembered(f) THEN cancelled \cup {f} ELSE cancelled
  /\ IF f \in sessions THEN End(f) ELSE UNCHANGED <<sessions, deadlines, child>>
Cancel(f) ==
  /\ completions' = completions \ {f}
  /\ abandoned' = [abandoned EXCEPT ![f] = "no"]
  /\ cancelled' = IF Remembered(f) THEN cancelled \cup {f} ELSE cancelled
  /\ IF f \in sessions THEN End(f) ELSE UNCHANGED <<sessions, deadlines, child>>

(* expire: the deadline's timer.                                             *)
Expire(f) ==
  /\ f \in deadlines
  /\ deadlines' = deadlines \ {f}
  /\ sessions' = sessions \ {f}
  /\ completions' = IF f \in sessions THEN completions \ {f} ELSE completions
  /\ abandoned' = IF f \in sessions THEN [abandoned EXCEPT ![f] = "timeout"] ELSE abandoned
  /\ starting' = starting \ {f}
  /\ interrupted' = IF f \in starting THEN [interrupted EXCEPT ![f] = "timeout"] ELSE interrupted
  /\ child' = IF f \in Active THEN Stopped({f}) ELSE child
  /\ UNCHANGED <<enabled, offered, pid, inFlight, stepCount, home, calls, cancelled,
                 faults>>

(* retainConfiguredInstances (create-app-context.ts): the flows of a disabled  *)
(* extension are abandoned, those of an enabled one retained, and every other  *)
(* child is stopped.                                                        *)
Sweep(keep) ==
  LET dropped == IF keep THEN {} ELSE Active
      lost == dropped \cap sessions
      cut == dropped \cap starting
  IN
  /\ sessions' = sessions \ dropped
  /\ completions' = completions \ lost
  /\ abandoned' = [f \in Flows |-> IF f \in lost THEN "disabled" ELSE abandoned[f]]
  /\ starting' = starting \ dropped
  /\ interrupted' = [f \in Flows |-> IF f \in cut THEN "disabled" ELSE interrupted[f]]
  /\ deadlines' = deadlines \ dropped
  /\ child' = Stopped(Flows \ (Active \ dropped))
  /\ UNCHANGED <<pid, inFlight, stepCount, home, cancelled>>

(* A save of the configuration, which may enable or disable the extension, and *)
(* the refresh of the registries that follows one.                          *)
SaveSettings ==
  /\ Fault
  /\ enabled' \in BOOLEAN
  /\ Sweep(enabled')
  /\ UNCHANGED <<offered, calls>>

Refresh ==
  /\ offered # enabled
  /\ offered' = enabled
  /\ Sweep(enabled)
  /\ UNCHANGED <<enabled, faults, calls>>

(* The types of the runner's state.                                          *)
RunnerTypeOK ==
  /\ enabled \in BOOLEAN /\ offered \in BOOLEAN
  /\ child \in [Flows -> Children]
  /\ pid \in [Flows -> 0..(MaxFaults + 1)] /\ home \in [Flows -> 0..(MaxFaults + 1)]
  /\ starting \subseteq Flows /\ sessions \subseteq Flows /\ completions \subseteq Flows
  /\ deadlines \subseteq Flows /\ inFlight \subseteq Flows
  /\ interrupted \in [Flows -> {"no", "timeout", "disabled"}]
  /\ abandoned \in [Flows -> {"no", "timeout", "disabled"}]
  /\ stepCount \in [Flows -> 0..MaxSteps]
  /\ stage \in [Calls -> Stages]
  /\ on \in [Calls -> Flows \cup {None}]
  /\ answer \in [Calls -> Steps \cup Refusals \cup {None}]
  /\ cancelled \subseteq Flows
===============================================================================

----------------------------- MODULE ProviderHost -----------------------------
(***************************************************************************)
(* The provider host (packages/provider-host/src/host.ts): it supervises one *)
(* child process per instance key, starts it when a request asks for it,     *)
(* restarts it when it exits, and stops or forgets it on demand.             *)
(*                                                                         *)
(* An action is what the host does between two suspensions.  A start is one  *)
(* call of startOnce, by ensureRunning or by the restart of onExit; it is    *)
(* also the child that call spawns.  A record is one `Instance` object: it   *)
(* is named after the start that created it, because a suspended start keeps *)
(* the object it found even when the map has forgotten it.                   *)
(***************************************************************************)
EXTENDS Naturals, FiniteSets

CONSTANTS
  Keys,         (* instance keys                                            *)
  Starts,       (* calls of startOnce, numbered in the order they are made   *)
  None,         (* no record, no process, no start                           *)
  MaxRestarts,  (* deps.maxRestarts: consecutive crashes that are restarted  *)
  MaxEnsures,   (* bound on the calls of ensureRunning that start something  *)
  MaxExits,     (* bound on the children that exit on their own              *)
  MaxStops      (* bound on the calls of stop and retainOnly                 *)

ASSUME ProviderHostAssumption ==
  /\ Starts \subseteq Nat
  /\ None \notin Starts
  /\ {MaxRestarts, MaxEnsures, MaxExits, MaxStops} \subseteq Nat

Records == Starts

VARIABLES
  instances,    (* instances[k]: the map's record for k, or None              *)
  status,       (* status[r], generation[r], process[r], inflight[r] and      *)
  generation,   (*   restarts[r]: the fields of a record                      *)
  process,
  inflight,
  restarts,
  stage,        (* stage[c]: where start c is suspended                       *)
  keyOf,        (* keyOf[c], issued[c]: its arguments instanceKey, generation *)
  issued,
  record,       (* record[c]: the object it looked up                         *)
  cause,        (* cause[c]: whether ensureRunning or onExit made it          *)
  child,        (* child[c]: the process it spawned                           *)
  answered,     (* starts whose child has answered the probe with the token   *)
  retiring,     (* keys retainOnly has stopped and not yet deleted            *)
  raced,        (* history: keys asked for again while retainOnly, or a start *)
                (*   or a child of a forgotten record, was not done with them *)
  missed,       (* history: children whose exit onExit ignored while their    *)
                (*   start was still waiting for the probe                    *)
  calls         (* how much of each bound is used up                          *)

fields == <<status, generation, process, inflight, restarts>>
starts == <<stage, keyOf, issued, record, cause>>
vars == <<instances, fields, starts, child, answered, retiring, raced, missed, calls>>

-----------------------------------------------------------------------------
Statuses == {"stopped", "starting", "running", "failed"}

(* "sleeping": in the backoff of a restart.  "launching": reading the registry *)
(* or allocating a port.  "probing": in waitForReady.  "settled": returned,   *)
(* and the caller has not yet cleared `inflight`.                            *)
Stages == {"unused", "sleeping", "launching", "probing", "settled", "over"}

(* "exited": dead, and `exited` has not run its handler yet.                  *)
Children == {"none", "alive", "exited", "reported"}

StartsOf(k) == {c \in Starts : stage[c] # "unused" /\ keyOf[c] = k}

Fresh(c) ==
  stage[c] = "unused" /\ \A d \in Starts : stage[d] = "unused" => c <= d

(* What a forgotten record can still leave behind for its key.               *)
Leftovers(k) ==
  {c \in StartsOf(k) : stage[c] = "sleeping" \/ child[c] \in {"alive", "exited"}}

(* status(key), as the host's clients see it.                                *)
Status(k) == IF instances[k] = None THEN "stopped" ELSE status[instances[k]]

Init ==
  /\ instances = [k \in Keys |-> None]
  /\ status = [r \in Records |-> "stopped"]
  /\ generation = [r \in Records |-> 0]
  /\ process = [r \in Records |-> None]
  /\ inflight = [r \in Records |-> None]
  /\ restarts = [r \in Records |-> 0]
  /\ stage = [c \in Starts |-> "unused"]
  /\ keyOf = [c \in Starts |-> None]
  /\ issued = [c \in Starts |-> 0]
  /\ record = [c \in Starts |-> None]
  /\ cause = [c \in Starts |-> None]
  /\ child = [c \in Starts |-> "none"]
  /\ answered = {}
  /\ retiring = {}
  /\ raced = {}
  /\ missed = {}
  /\ calls = [ensures |-> 0, exits |-> 0, stops |-> 0]

-----------------------------------------------------------------------------
(* Helpers.                                                                 *)

SameGeneration(r, g) == status[r] # "starting"  \* mutant: generations not compared
NeverStale(r, g) == FALSE                       \* mutant: no start is ever stale
Stale(r, g) == generation[r] # g \/ status[r] # "starting"

Kill(c) ==
  child' = [d \in Starts |-> IF d = c /\ child[d] = "alive" THEN "exited" ELSE child[d]]

(* retainOnly is between two microtasks only: no timer, socket or exit of a   *)
(* child, each a task of its own, is handled before it goes on.              *)
NewTask == retiring = {}

(* A start that owns record r reports a failure; a stale one writes nothing. *)
FailSilently(r, g) == UNCHANGED status          \* mutant: the failure is not recorded
Fail(r, g) ==
  status' = IF Stale(r, g) THEN status ELSE [status EXCEPT ![r] = "failed"]

Uses(bound, max) ==
  calls[bound] < max /\ calls' = [calls EXCEPT ![bound] = @ + 1]

-----------------------------------------------------------------------------
(* ensureRunning, when it does not return the running child and does not     *)
(* join the start in flight: take or create the record, bump its generation   *)
(* and call startOnce, which runs until its first await.                     *)
StartAgain(k) ==                                \* mutant: `inflight` is not joined
  LET r == instances[k] IN
  r # None => ~(status[r] = "running" /\ process[r] # None)
Startable(k) ==
  LET r == instances[k] IN
  r # None => /\ ~(status[r] = "running" /\ process[r] # None)
              /\ inflight[r] = None

EnsureRunning(k, c) ==
  LET r == IF instances[k] = None THEN c ELSE instances[k] IN
  /\ Uses("ensures", MaxEnsures)
  /\ Fresh(c)
  /\ Startable(k)
  /\ instances' = [instances EXCEPT ![k] = r]
  /\ status' = [status EXCEPT ![r] = "starting"]
  /\ generation' = [generation EXCEPT ![r] = @ + 1]
  /\ inflight' = [inflight EXCEPT ![r] = c]
  /\ stage' = [stage EXCEPT ![c] = "launching"]
  /\ keyOf' = [keyOf EXCEPT ![c] = k]
  /\ issued' = [issued EXCEPT ![c] = generation'[r]]
  /\ record' = [record EXCEPT ![c] = r]
  /\ cause' = [cause EXCEPT ![c] = "ensure"]
  /\ raced' = IF k \in retiring \/ (instances[k] = None /\ Leftovers(k) # {})
              THEN raced \cup {k} ELSE raced
  /\ UNCHANGED <<process, restarts, child, answered, retiring, missed>>

-----------------------------------------------------------------------------
(* startOnce                                                                *)

Settle(c) == stage' = [stage EXCEPT ![c] = "settled"]

(* A restart wakes from its backoff and looks its key up again.               *)
Wake(c) ==
  LET r == instances[keyOf[c]] IN
  /\ NewTask
  /\ stage[c] = "sleeping"
  /\ IF r = None \/ (r # None /\ Stale(r, issued[c]))
     THEN Settle(c) /\ UNCHANGED record
     ELSE /\ stage' = [stage EXCEPT ![c] = "launching"]
          /\ record' = [record EXCEPT ![c] = r]
  /\ UNCHANGED <<instances, fields, keyOf, issued, cause, child, answered,
                 retiring, raced, missed, calls>>

(* The registry, the allocator or the spawner refuses.                       *)
LaunchFails(c) ==
  /\ NewTask
  /\ stage[c] = "launching"
  /\ Fail(record[c], issued[c])
  /\ Settle(c)
  /\ UNCHANGED <<instances, generation, process, inflight, restarts, keyOf, issued,
                 record, cause, child, answered, retiring, raced, missed, calls>>

(* The commit point: a stale start kills the child it has just spawned, and   *)
(* nothing watches that child.                                              *)
Spawn(c) ==
  /\ NewTask
  /\ stage[c] = "launching"
  /\ IF Stale(record[c], issued[c])
     THEN Settle(c) /\ UNCHANGED <<process, child>>
     ELSE /\ stage' = [stage EXCEPT ![c] = "probing"]
          /\ process' = [process EXCEPT ![record[c]] = c]
          /\ child' = [child EXCEPT ![c] = "alive"]
  /\ UNCHANGED <<instances, status, generation, inflight, restarts, keyOf, issued,
                 record, cause, answered, retiring, raced, missed, calls>>

(* waitForReady has got the answer.                                          *)
Ready(c) ==
  /\ NewTask
  /\ stage[c] = "probing"
  /\ c \in answered
  /\ Settle(c)
  /\ IF Stale(record[c], issued[c])
     THEN Kill(c) /\ UNCHANGED status
     ELSE status' = [status EXCEPT ![record[c]] = "running"] /\ UNCHANGED child
  /\ UNCHANGED <<instances, generation, process, inflight, restarts, keyOf, issued,
                 record, cause, answered, retiring, raced, missed, calls>>

(* waitForReady has run into its timeout.                                    *)
NotReady(c) ==
  /\ NewTask
  /\ stage[c] = "probing"
  /\ c \notin answered
  /\ Settle(c)
  /\ Fail(record[c], issued[c])
  /\ Kill(c)
  /\ UNCHANGED <<instances, generation, process, inflight, restarts, keyOf, issued,
                 record, cause, answered, retiring, raced, missed, calls>>

(* The caller clears `inflight` when it still holds this start: ensureRunning *)
(* in the record it has, a restart in the one the map has by then.           *)
Clear(c, r) == inflight' = [inflight EXCEPT ![r] = IF @ = c THEN None ELSE @]

ClearInflight(c) ==
  LET r == IF cause[c] = "ensure" THEN record[c] ELSE instances[keyOf[c]] IN
  /\ stage[c] = "settled"
  /\ stage' = [stage EXCEPT ![c] = "over"]
  /\ IF r = None THEN UNCHANGED inflight ELSE Clear(c, r)
  /\ UNCHANGED <<instances, status, generation, process, restarts, keyOf, issued,
                 record, cause, child, answered, retiring, raced, missed, calls>>

-----------------------------------------------------------------------------
(* The children.                                                            *)

Answers(c) ==
  /\ stage[c] = "probing"
  /\ child[c] = "alive"
  /\ c \notin answered
  /\ answered' = answered \cup {c}
  /\ UNCHANGED <<instances, fields, starts, child, retiring, raced, missed, calls>>

Exits(c) ==
  /\ child[c] = "alive"
  /\ Uses("exits", MaxExits)
  /\ child' = [child EXCEPT ![c] = "exited"]
  /\ UNCHANGED <<instances, fields, starts, answered, retiring, raced, missed>>

(* onExit: the exit counts only for the record the map has now, when it is    *)
(* running under the generation of the start that spawned the child.         *)
NeverCrash(c) == FALSE                          \* mutant: no handler on `exited`
AnyCrash(c) ==                                  \* mutant: whichever child it was
  instances[keyOf[c]] # None /\ Status(keyOf[c]) = "running"
IsCrash(c) ==
  LET r == instances[keyOf[c]] IN
  r # None /\ status[r] = "running" /\ generation[r] = issued[c]

Reported(c) ==
  NewTask /\ child[c] = "exited" /\ child' = [child EXCEPT ![c] = "reported"]

ExitIgnored(c) ==
  /\ Reported(c)
  /\ ~IsCrash(c)
  /\ missed' = IF stage[c] = "probing" THEN missed \cup {c} ELSE missed
  /\ UNCHANGED <<instances, fields, starts, answered, retiring, raced, calls>>

(* An instance that was ready for STABLE_UPTIME_MS starts with a full budget. *)
CrashesSoFar(r, stable) == IF stable THEN 0 ELSE restarts[r]

OneMore(r, stable) == CrashesSoFar(r, stable) > MaxRestarts     \* mutant
Exhausted(r, stable) == CrashesSoFar(r, stable) >= MaxRestarts

ExitExhausts(c, stable) ==
  LET r == instances[keyOf[c]] IN
  /\ Reported(c)
  /\ IsCrash(c)
  /\ Exhausted(r, stable)
  /\ restarts' = [restarts EXCEPT ![r] = CrashesSoFar(r, stable)]
  /\ status' = [status EXCEPT ![r] = "failed"]
  /\ process' = [process EXCEPT ![r] = None]
  /\ UNCHANGED <<instances, generation, inflight, starts, answered, retiring, raced,
                 missed, calls>>

ExitRestarts(c, stable, d) ==
  LET r == instances[keyOf[c]] IN
  /\ Reported(c)
  /\ IsCrash(c)
  /\ ~Exhausted(r, stable)
  /\ Fresh(d)
  /\ restarts' = [restarts EXCEPT ![r] = CrashesSoFar(r, stable) + 1]
  /\ status' = [status EXCEPT ![r] = "starting"]
  /\ process' = [process EXCEPT ![r] = None]
  /\ generation' = [generation EXCEPT ![r] = @ + 1]
  /\ inflight' = [inflight EXCEPT ![r] = d]
  /\ stage' = [stage EXCEPT ![d] = "sleeping"]
  /\ keyOf' = [keyOf EXCEPT ![d] = keyOf[c]]
  /\ issued' = [issued EXCEPT ![d] = generation'[r]]
  /\ cause' = [cause EXCEPT ![d] = "exit"]
  /\ UNCHANGED <<instances, record, answered, retiring, raced, missed, calls>>

-----------------------------------------------------------------------------
(* stop, which stopAll and stopAllFor call for key after key, and retainOnly. *)

StopInstance(k) ==
  LET r == instances[k] IN
  /\ Uses("stops", MaxStops)
  /\ r # None
  /\ status' = [status EXCEPT ![r] = "stopped"]
  /\ generation' = [generation EXCEPT ![r] = @ + 1]
  /\ inflight' = [inflight EXCEPT ![r] = None]
  /\ restarts' = [restarts EXCEPT ![r] = 0]
  /\ process' = [process EXCEPT ![r] = None]
  /\ Kill(process[r])
  /\ UNCHANGED <<instances, starts, answered, raced, missed>>

Stop(k) == StopInstance(k) /\ UNCHANGED retiring

(* retainOnly stops a key that is no longer wanted, is suspended by the await, *)
(* and then deletes whatever record the map holds for it.                    *)
Retire(k) == StopInstance(k) /\ k \notin retiring /\ retiring' = retiring \cup {k}

Forget(k) ==
  /\ k \in retiring
  /\ retiring' = retiring \ {k}
  /\ instances' = [instances EXCEPT ![k] = None]
  /\ UNCHANGED <<fields, starts, child, answered, raced, missed, calls>>

-----------------------------------------------------------------------------
Next ==
  \/ \E k \in Keys, c \in Starts : EnsureRunning(k, c)
  \/ \E c \in Starts :
       \/ Wake(c)
       \/ LaunchFails(c)
       \/ Spawn(c)
       \/ Ready(c)
       \/ NotReady(c)
       \/ ClearInflight(c)
       \/ Answers(c)
       \/ Exits(c)
       \/ ExitIgnored(c)
       \/ \E stable \in BOOLEAN :
            \/ ExitExhausts(c, stable)
            \/ \E d \in Starts : ExitRestarts(c, stable, d)
  \/ \E k \in Keys : Stop(k) \/ Retire(k) \/ Forget(k)

(* Timers fire, promises settle and the probe has a deadline.                *)
Fairness ==
  /\ \A c \in Starts :
       /\ WF_vars(Wake(c))
       /\ WF_vars(LaunchFails(c) \/ Spawn(c))
       /\ WF_vars(Ready(c) \/ NotReady(c))
       /\ WF_vars(ClearInflight(c))
       /\ WF_vars(ExitIgnored(c) \/ \E stable \in BOOLEAN :
                    ExitExhausts(c, stable) \/ \E d \in Starts : ExitRestarts(c, stable, d))
  /\ \A k \in Keys : WF_vars(Forget(k))

Spec == Init /\ [][Next]_vars
FairSpec == Spec /\ Fairness

-----------------------------------------------------------------------------
TypeOK ==
  /\ instances \in [Keys -> Records \cup {None}]
  /\ status \in [Records -> Statuses]
  /\ generation \in [Records -> Nat]
  /\ process \in [Records -> Starts \cup {None}]
  /\ inflight \in [Records -> Starts \cup {None}]
  /\ restarts \in [Records -> 0..MaxRestarts]
  /\ stage \in [Starts -> Stages]
  /\ keyOf \in [Starts -> Keys \cup {None}]
  /\ issued \in [Starts -> Nat]
  /\ record \in [Starts -> Records \cup {None}]
  /\ cause \in [Starts -> {"ensure", "exit", None}]
  /\ child \in [Starts -> Children]
  /\ answered \subseteq Starts
  /\ retiring \subseteq Keys
  /\ raced \subseteq Keys
  /\ missed \subseteq Starts
  /\ calls \in [{"ensures", "exits", "stops"} -> Nat]

(* One process per instance key (host.ts 162), and it is the one a stop would *)
(* kill: no child is alive that its key's record does not name.  It is only   *)
(* claimed of keys that were not asked for again in the middle of retainOnly  *)
(* or before what it left behind was gone.                                  *)
NoOrphanOf(k) ==
  \A c \in StartsOf(k) :
    child[c] = "alive" => instances[k] # None /\ process[instances[k]] = c

NoOrphan == \A k \in Keys \ raced : NoOrphanOf(k)

(* A key that is starting has exactly one start that can still commit, and it *)
(* is the one that concurrent callers of ensureRunning join.                 *)
OneStart ==
  \A k \in Keys \ raced :
    LET r == instances[k]
        able == {c \in StartsOf(k) : /\ ~Stale(r, issued[c])
                                     /\ \/ stage[c] = "sleeping"
                                        \/ /\ stage[c] \in {"launching", "probing"}
                                           /\ record[c] = r}
    IN r # None /\ status[r] = "starting" =>
         able = {inflight[r]}

(* A key that is running has a child whose exit is still to be handled, so    *)
(* that a crash is restarted, unless the exit came while the start was       *)
(* waiting for a probe that had been answered (host.ts 317-319, 377).        *)
RunningIsWatched ==
  \A k \in Keys \ raced :
    Status(k) = "running" =>
      LET c == process[instances[k]]
      IN c # None /\ (child[c] \in {"alive", "exited"} \/ c \in missed)

(* A stop is final: only a later ensureRunning, with a generation of its own, *)
(* takes a stopped instance out of that state.                              *)
StopHolds ==
  \A r \in Records :
    status[r] = "stopped" /\ status'[r] # "stopped" =>
      status'[r] = "starting" /\ \E c \in Starts : Fresh(c) /\ inflight'[r] = c
StopIsFinal == [][StopHolds]_vars

(* A start that a stop or a newer start has superseded leaves its record as it *)
(* is: it never makes it running or failed.                                 *)
SupersededWritesNothing ==
  \A c \in Starts :
    stage[c] \in {"launching", "probing"} /\ stage'[c] = "settled"
      /\ issued[c] # generation[record[c]] =>
        /\ UNCHANGED <<fields, instances>>
        /\ child'[c] # "alive"
StaleStartsAreInert == [][SupersededWritesNothing]_vars

(* The exit of a child other than the instance's own changes no instance: a   *)
(* child that was killed, and dies when its successor is already running, is  *)
(* not the successor's crash (host.ts 378).                                 *)
ForeignExitIgnored(k) ==
  \A c \in StartsOf(k) :
    child[c] = "exited" /\ child'[c] = "reported" =>
      LET r == instances[k] IN
      r # None /\ process[r] # c => UNCHANGED fields
CrashesAreItsOwn == [][\A k \in Keys \ raced : ForeignExitIgnored(k)]_vars

(* A key that is starting does not stay so: its start commits, fails or is    *)
(* superseded, as long as timers fire and awaited calls settle.              *)
StartsSettle ==
  \A k \in Keys : (Status(k) = "starting" /\ k \notin raced) ~>
                    (Status(k) # "starting" \/ k \in raced)

-----------------------------------------------------------------------------
(* host.ts 378: "A child from a superseded generation dying is not this       *)
(* instance's crash", whether or not retainOnly has forgotten the key since.  *)
NeverAnothersCrash == [][\A k \in Keys : ForeignExitIgnored(k)]_vars

(* host.ts 317-319: the exit handler is attached before the probe "so a child *)
(* that dies mid-probe is still observed".                                  *)
CrashIsSeen ==
  \A k \in Keys : Status(k) = "running" => child[process[instances[k]]] # "reported"
===============================================================================

-------------------------- MODULE ProviderHostProofs --------------------------
(***************************************************************************)
(* Proofs about the provider host, for any keys, starts and bounds.           *)
(***************************************************************************)
EXTENDS ProviderHost, TLAPS

-----------------------------------------------------------------------------
(***************************************************************************)
(* The inductive invariant.  Shape relates the starts, the records they made  *)
(* and the children they spawned; KeyInv says of one key that was not raced   *)
(* which of its starts may still write to its record, and who has the child.  *)
(***************************************************************************)

(* A start that was never asked for has left no trace.                        *)
UnusedIsBlank ==
  \A c \in Starts : stage[c] = "unused" =>
    /\ child[c] = "none" /\ record[c] = None /\ status[c] = "stopped"

(* A start that was asked for has a key.                                      *)
StartsHaveKeys == \A c \in Starts : stage[c] # "unused" => keyOf[c] \in Keys

(* A start that got as far as a launch works for a record of its own key.     *)
StartsHaveRecords ==
  \A c \in Starts :
    /\ stage[c] = "sleeping" => cause[c] = "exit"
    /\ stage[c] \in {"launching", "probing"} => record[c] # None
    /\ stage[c] = "settled" /\ cause[c] = "ensure" => record[c] # None
    /\ child[c] # "none" => stage[c] \in {"probing", "settled", "over"} /\ record[c] # None
    /\ record[c] # None => record[c] \in StartsOf(keyOf[c])

(* The map gives a key a record of that key, and only such a record retires.  *)
MapIsOfKeys ==
  /\ \A k \in Keys : instances[k] # None => instances[k] \in StartsOf(k)
  /\ \A k \in retiring : instances[k] # None

(* A record names a child of its own key.                                     *)
ProcessesAreOfKeys ==
  \A s \in Starts : process[s] # None =>
    stage[s] # "unused" /\ process[s] \in StartsOf(keyOf[s])

Shape ==
  UnusedIsBlank /\ StartsHaveKeys /\ StartsHaveRecords /\ MapIsOfKeys /\ ProcessesAreOfKeys

(* The starts numbered by the generations of the record the map has.          *)
Members(k) == {c \in StartsOf(k) : stage[c] = "sleeping" \/ record[c] = instances[k]}

(* The starts that can still write to the record the map has.                 *)
Able(k) ==
  {c \in StartsOf(k) :
     /\ issued[c] = generation[instances[k]]
     /\ \/ stage[c] = "sleeping"
        \/ stage[c] \in {"launching", "probing"} /\ record[c] = instances[k]}

(* No start of a forgotten record can write to it.                            *)
ForgottenIsStopped(k) ==
  \A s \in StartsOf(k) : s # instances[k] => status[s] = "stopped"

(* No two starts of a record have one generation.                             *)
GenerationsApart(k) ==
  instances[k] # None =>
    \A c, d \in Members(k) : /\ issued[c] <= generation[instances[k]]
                             /\ issued[c] = issued[d] => c = d

(* A child that is alive, or whose exit is not handled, was spawned for that record. *)
NoLeftovers(k) ==
  instances[k] # None =>
    \A c \in StartsOf(k) : child[c] \in {"alive", "exited"} => record[c] = instances[k]

(* An alive child is the one its record names, starting or running.           *)
AliveIsNamed(k) ==
  \A c \in StartsOf(k) : child[c] = "alive" =>
    /\ instances[k] # None
    /\ process[instances[k]] = c
    /\ issued[c] = generation[instances[k]]
    /\ \/ stage[c] = "probing" /\ status[instances[k]] = "starting"
       \/ stage[c] \in {"settled", "over"} /\ status[instances[k]] = "running"

(* A record that is starting waits for a start that can settle it.            *)
StartingHasStart(k) ==
  instances[k] # None /\ status[instances[k]] = "starting" =>
    inflight[instances[k]] \in Able(k)

(* The child's exit is still to be handled, or was missed during a probe.     *)
Watched(c) == child[c] \in {"alive", "exited"} \/ c \in missed

(* The start that is probing probes the child the record names.               *)
ProbedIsNamed(k) ==
  \A c \in StartsOf(k) :
    /\ stage[c] = "probing" /\ record[c] = instances[k]
    /\ issued[c] = generation[instances[k]] /\ status[instances[k]] = "starting"
    => process[instances[k]] = c /\ Watched(c)

(* A running record names a child whose exit is still to be handled.          *)
RunningHasChild(k) ==
  instances[k] # None /\ status[instances[k]] = "running" =>
    \E c \in StartsOf(k) :
      /\ process[instances[k]] = c /\ record[c] = instances[k]
      /\ issued[c] = generation[instances[k]]
      /\ stage[c] \in {"settled", "over"} /\ Watched(c)

(* A record that is being retired is stopped to the end of its removal.       *)
RetiringIsStopped(k) == k \in retiring => status[instances[k]] = "stopped"

KeyInv(k) ==
  /\ ForgottenIsStopped(k)
  /\ GenerationsApart(k)
  /\ NoLeftovers(k)
  /\ AliveIsNamed(k)
  /\ StartingHasStart(k)
  /\ ProbedIsNamed(k)
  /\ RunningHasChild(k)
  /\ RetiringIsStopped(k)

(* A removal that raced a start leaves a key of which nothing is claimed.     *)
HostInv == TypeOK /\ Shape /\ \A k \in Keys \ raced : KeyInv(k)

(* Before the first start there is nothing to relate.                         *)
LEMMA HostInvInit == Init => HostInv
<1> SUFFICES ASSUME Init PROVE HostInv
  OBVIOUS
<1>1. TypeOK
  BY ProviderHostAssumption
  DEF Init, TypeOK, Records, Statuses, Stages, Children
<1>2. Shape
  BY ProviderHostAssumption
  DEF Init, Shape, UnusedIsBlank, StartsHaveKeys, StartsHaveRecords, MapIsOfKeys,
      ProcessesAreOfKeys, StartsOf, Records
<1>3. ASSUME NEW k \in Keys \ raced PROVE KeyInv(k)
  BY <1>3, ProviderHostAssumption
  DEF Init, KeyInv, ForgottenIsStopped, GenerationsApart, NoLeftovers, AliveIsNamed,
      StartingHasStart, ProbedIsNamed, RunningHasChild, RetiringIsStopped, StartsOf,
      Members, Records
<1> QED
  BY <1>1, <1>2, <1>3 DEF HostInv

-----------------------------------------------------------------------------
(* Type correctness.                                                          *)

(* An exit that counts as a crash is that of a start of the record the map has. *)
LEMMA CrashedKey ==
  ASSUME TypeOK, Shape, NEW c \in Starts, IsCrash(c), child[c] = "exited"
  PROVE  keyOf[c] \in Keys /\ instances[keyOf[c]] \in Starts /\ stage[c] # "unused"
<1>1. stage[c] # "unused"
  BY DEF Shape, UnusedIsBlank
<1> QED
  BY <1>1 DEF Shape, StartsHaveKeys, TypeOK, Records, IsCrash

(* Every step keeps the types.                                                *)
LEMMA TypeInductive ==
  ASSUME TypeOK, Shape, [Next]_vars
  PROVE  TypeOK'
<1> USE ProviderHostAssumption
    DEF TypeOK, Records, Statuses, Stages, Children, fields, starts
<1>a. ASSUME NEW b \in {"ensures", "exits", "stops"}, NEW max \in Nat, Uses(b, max)
      PROVE calls' \in [{"ensures", "exits", "stops"} -> Nat]
  BY <1>a DEF Uses
<1>1. ASSUME NEW k \in Keys, NEW c \in Starts, EnsureRunning(k, c) PROVE TypeOK'
  <2>1. calls' \in [{"ensures", "exits", "stops"} -> Nat]
    BY <1>1, <1>a DEF EnsureRunning
  <2>2. PICK r \in Starts : r = IF instances[k] = None THEN c ELSE instances[k]
    OBVIOUS
  <2>3. /\ instances' = [instances EXCEPT ![k] = r]
        /\ status' = [status EXCEPT ![r] = "starting"]
        /\ generation' = [generation EXCEPT ![r] = @ + 1]
        /\ inflight' = [inflight EXCEPT ![r] = c]
        /\ stage' = [stage EXCEPT ![c] = "launching"]
        /\ keyOf' = [keyOf EXCEPT ![c] = k]
        /\ issued' = [issued EXCEPT ![c] = generation'[r]]
        /\ record' = [record EXCEPT ![c] = r]
        /\ cause' = [cause EXCEPT ![c] = "ensure"]
        /\ raced' \subseteq raced \cup {k}
        /\ UNCHANGED <<process, restarts, child, answered, retiring, missed>>
    BY <1>1, <2>2 DEF EnsureRunning
  <2>4. generation' \in [Starts -> Nat]
    <3>1. generation' = [generation EXCEPT ![r] = @ + 1]
      BY <2>3
    <3> QED
      BY ONLY generation \in [Starts -> Nat], r \in Starts, <3>1
  <2>5. /\ instances' \in [Keys -> Starts \cup {None}]
        /\ status' \in [Starts -> {"stopped", "starting", "running", "failed"}]
        /\ inflight' \in [Starts -> Starts \cup {None}]
    BY <2>3
  <2>6. /\ stage' \in [Starts -> {"unused", "sleeping", "launching", "probing", "settled", "over"}]
        /\ keyOf' \in [Starts -> Keys \cup {None}]
        /\ record' \in [Starts -> Starts \cup {None}]
        /\ cause' \in [Starts -> {"ensure", "exit", None}]
    BY <2>3
  <2>7. issued' \in [Starts -> Nat]
    BY <2>3, <2>4
  <2>8. raced' \subseteq Keys
    BY <2>3
  <2> QED
    BY <2>1, <2>3, <2>4, <2>5, <2>6, <2>7, <2>8
<1>2. ASSUME NEW c \in Starts, Wake(c) PROVE TypeOK'
  <2>1. instances[keyOf[c]] \in Starts \cup {None}
    BY <1>2 DEF Wake, Shape, StartsHaveKeys
  <2> QED
    BY <1>2, <2>1 DEF Wake, Settle
<1>3. ASSUME NEW c \in Starts, LaunchFails(c) PROVE TypeOK'
  BY <1>3 DEF LaunchFails, Fail, Settle
<1>4. ASSUME NEW c \in Starts, Spawn(c) PROVE TypeOK'
  BY <1>4 DEF Spawn, Settle
<1>5. ASSUME NEW c \in Starts, Ready(c) PROVE TypeOK'
  BY <1>5 DEF Ready, Settle, Kill
<1>6. ASSUME NEW c \in Starts, NotReady(c) PROVE TypeOK'
  BY <1>6 DEF NotReady, Settle, Kill, Fail
<1>7. ASSUME NEW c \in Starts, ClearInflight(c) PROVE TypeOK'
  BY <1>7 DEF ClearInflight, Clear
<1>8. ASSUME NEW c \in Starts, Answers(c) \/ ExitIgnored(c) PROVE TypeOK'
  BY <1>8 DEF Answers, ExitIgnored, Reported
<1>9. ASSUME NEW c \in Starts, Exits(c) PROVE TypeOK'
  <2>1. calls' \in [{"ensures", "exits", "stops"} -> Nat]
    BY <1>9, <1>a DEF Exits
  <2> QED
    BY <1>9, <2>1 DEF Exits
<1>10. ASSUME NEW c \in Starts, NEW stable \in BOOLEAN, ExitExhausts(c, stable)
       PROVE TypeOK'
  <2>1. PICK r \in Starts : r = instances[keyOf[c]]
    BY <1>10, CrashedKey DEF ExitExhausts, Reported
  <2>2. CrashesSoFar(r, stable) \in 0..MaxRestarts
    BY DEF CrashesSoFar
  <2>3. /\ restarts' = [restarts EXCEPT ![r] = CrashesSoFar(r, stable)]
        /\ status' = [status EXCEPT ![r] = "failed"]
        /\ process' = [process EXCEPT ![r] = None]
        /\ child' = [child EXCEPT ![c] = "reported"]
        /\ UNCHANGED <<instances, generation, inflight, starts, answered, retiring,
                       raced, missed, calls>>
    BY <1>10, <2>1 DEF ExitExhausts, Reported
  <2> QED
    BY <2>2, <2>3
<1>11. ASSUME NEW c \in Starts, NEW stable \in BOOLEAN, NEW d \in Starts,
              ExitRestarts(c, stable, d)
       PROVE TypeOK'
  <2>1. PICK r \in Starts : r = instances[keyOf[c]] /\ keyOf[c] \in Keys
    BY <1>11, CrashedKey DEF ExitRestarts, Reported
  <2>2. /\ CrashesSoFar(r, stable) + 1 \in 0..MaxRestarts
        /\ restarts' = [restarts EXCEPT ![r] = CrashesSoFar(r, stable) + 1]
    BY <1>11, <2>1 DEF ExitRestarts, Exhausted, CrashesSoFar
  <2>3. /\ status' = [status EXCEPT ![r] = "starting"]
        /\ process' = [process EXCEPT ![r] = None]
        /\ generation' = [generation EXCEPT ![r] = @ + 1]
        /\ inflight' = [inflight EXCEPT ![r] = d]
        /\ stage' = [stage EXCEPT ![d] = "sleeping"]
        /\ keyOf' = [keyOf EXCEPT ![d] = keyOf[c]]
        /\ issued' = [issued EXCEPT ![d] = generation'[r]]
        /\ cause' = [cause EXCEPT ![d] = "exit"]
        /\ child' = [child EXCEPT ![c] = "reported"]
        /\ UNCHANGED <<instances, record, answered, retiring, raced, missed, calls>>
    BY <1>11, <2>1 DEF ExitRestarts, Reported
  <2>4. generation' \in [Starts -> Nat]
    BY <2>3
  <2> QED
    BY <2>1, <2>2, <2>3, <2>4
<1>12. ASSUME NEW k \in Keys, Stop(k) \/ Retire(k) PROVE TypeOK'
  <2>1. calls' \in [{"ensures", "exits", "stops"} -> Nat]
    BY <1>12, <1>a DEF Stop, Retire, StopInstance
  <2>2. PICK r \in Starts : r = instances[k]
    BY <1>12 DEF Stop, Retire, StopInstance
  <2>3. /\ status' = [status EXCEPT ![r] = "stopped"]
        /\ generation' = [generation EXCEPT ![r] = @ + 1]
        /\ inflight' = [inflight EXCEPT ![r] = None]
        /\ restarts' = [restarts EXCEPT ![r] = 0]
        /\ process' = [process EXCEPT ![r] = None]
        /\ Kill(process[r])
        /\ retiring' \subseteq retiring \cup {k}
        /\ UNCHANGED <<instances, starts, answered, raced, missed>>
    BY <1>12, <2>2 DEF Stop, Retire, StopInstance
  <2>4. child' \in [Starts -> Children]
    BY <2>3 DEF Kill
  <2>5. restarts' \in [Starts -> 0..MaxRestarts] /\ generation' \in [Starts -> Nat]
    BY <2>3
  <2>6. /\ status' \in [Starts -> {"stopped", "starting", "running", "failed"}]
        /\ inflight' \in [Starts -> Starts \cup {None}]
        /\ process' \in [Starts -> Starts \cup {None}]
    BY <2>3
  <2> QED
    BY <2>1, <2>3, <2>4, <2>5, <2>6
<1>13. ASSUME NEW k \in Keys, Forget(k) PROVE TypeOK'
  BY <1>13 DEF Forget
<1>14. CASE UNCHANGED vars
  BY <1>14 DEF vars
<1> QED
  BY <1>1, <1>2, <1>3, <1>4, <1>5, <1>6, <1>7, <1>8, <1>9, <1>10, <1>11, <1>12, <1>13,
     <1>14 DEF Next

-----------------------------------------------------------------------------
(* The effects of the actions that take a record of the map, with the record  *)
(* named.                                                                     *)

(* A start that is asked for writes to one record of its key, new or old.     *)
LEMMA EnsureEffect ==
  ASSUME TypeOK, NEW k \in Keys, NEW c \in Starts, EnsureRunning(k, c)
  PROVE  \E r \in Starts :
           /\ r = IF instances[k] = None THEN c ELSE instances[k]
           /\ stage[c] = "unused"
           /\ instances' = [instances EXCEPT ![k] = r]
           /\ status' = [status EXCEPT ![r] = "starting"]
           /\ generation' = [generation EXCEPT ![r] = @ + 1]
           /\ inflight' = [inflight EXCEPT ![r] = c]
           /\ stage' = [stage EXCEPT ![c] = "launching"]
           /\ keyOf' = [keyOf EXCEPT ![c] = k]
           /\ issued' = [issued EXCEPT ![c] = generation[r] + 1]
           /\ record' = [record EXCEPT ![c] = r]
           /\ cause' = [cause EXCEPT ![c] = "ensure"]
           /\ raced' = IF k \in retiring \/ (instances[k] = None /\ Leftovers(k) # {})
                       THEN raced \cup {k} ELSE raced
           /\ instances[k] # None =>
                ~(status[r] = "running" /\ process[r] # None) /\ inflight[r] = None
           /\ UNCHANGED <<process, restarts, child, answered, retiring, missed>>
<1>1. PICK r \in Starts : r = IF instances[k] = None THEN c ELSE instances[k]
  BY DEF TypeOK, Records
<1>2. generation' = [generation EXCEPT ![r] = @ + 1]
  BY <1>1 DEF EnsureRunning
<1>3. generation'[r] = generation[r] + 1
  BY <1>2 DEF TypeOK, Records
<1> QED
  BY <1>1, <1>2, <1>3 DEF EnsureRunning, Fresh, Startable

(* A restart passes the crashed record on to one new start.                   *)
LEMMA RestartEffect ==
  ASSUME TypeOK, Shape, NEW c \in Starts, NEW stable \in BOOLEAN, NEW d \in Starts,
         ExitRestarts(c, stable, d)
  PROVE  \E k \in Keys, r \in Starts :
           /\ k = keyOf[c] /\ r = instances[k]
           /\ c \in StartsOf(k)
           /\ status[r] = "running" /\ issued[c] = generation[r]
           /\ child[c] = "exited" /\ stage[d] = "unused"
           /\ status' = [status EXCEPT ![r] = "starting"]
           /\ process' = [process EXCEPT ![r] = None]
           /\ generation' = [generation EXCEPT ![r] = @ + 1]
           /\ inflight' = [inflight EXCEPT ![r] = d]
           /\ stage' = [stage EXCEPT ![d] = "sleeping"]
           /\ keyOf' = [keyOf EXCEPT ![d] = k]
           /\ issued' = [issued EXCEPT ![d] = generation[r] + 1]
           /\ cause' = [cause EXCEPT ![d] = "exit"]
           /\ child' = [child EXCEPT ![c] = "reported"]
           /\ UNCHANGED <<instances, record, answered, retiring, raced, missed, calls>>
<1>1. PICK k \in Keys, r \in Starts : k = keyOf[c] /\ r = instances[k] /\ c \in StartsOf(k)
  BY CrashedKey DEF ExitRestarts, Reported, StartsOf
<1>2. generation' = [generation EXCEPT ![r] = @ + 1]
  BY <1>1 DEF ExitRestarts
<1>3. generation'[r] = generation[r] + 1
  BY <1>2 DEF TypeOK, Records
<1> QED
  BY <1>1, <1>2, <1>3 DEF ExitRestarts, Reported, IsCrash, Fresh

(* An exhausted budget fails one record that was running.                     *)
LEMMA ExhaustEffect ==
  ASSUME TypeOK, Shape, NEW c \in Starts, NEW stable \in BOOLEAN, ExitExhausts(c, stable)
  PROVE  \E k \in Keys, r \in Starts :
           /\ k = keyOf[c] /\ r = instances[k]
           /\ c \in StartsOf(k)
           /\ status[r] = "running" /\ issued[c] = generation[r]
           /\ child[c] = "exited"
           /\ status' = [status EXCEPT ![r] = "failed"]
           /\ process' = [process EXCEPT ![r] = None]
           /\ child' = [child EXCEPT ![c] = "reported"]
           /\ UNCHANGED <<instances, generation, inflight, starts, answered, retiring,
                          raced, missed, calls>>
<1>1. PICK k \in Keys, r \in Starts : k = keyOf[c] /\ r = instances[k] /\ c \in StartsOf(k)
  BY CrashedKey DEF ExitExhausts, Reported, StartsOf
<1> QED
  BY <1>1 DEF ExitExhausts, Reported, IsCrash

(* A stop or a retirement stops one record and kills its child.               *)
LEMMA StopEffect ==
  ASSUME TypeOK, NEW k \in Keys, Stop(k) \/ Retire(k)
  PROVE  \E r \in Starts :
           /\ r = instances[k]
           /\ status' = [status EXCEPT ![r] = "stopped"]
           /\ generation' = [generation EXCEPT ![r] = @ + 1]
           /\ inflight' = [inflight EXCEPT ![r] = None]
           /\ process' = [process EXCEPT ![r] = None]
           /\ Kill(process[r])
           /\ retiring \subseteq retiring' /\ retiring' \subseteq retiring \cup {k}
           /\ UNCHANGED <<instances, starts, answered, raced, missed>>
<1>1. PICK r \in Starts : r = instances[k]
  BY DEF Stop, Retire, StopInstance, TypeOK, Records
<1> QED
  BY <1>1 DEF Stop, Retire, StopInstance

-----------------------------------------------------------------------------
(* The shape of the state.                                                    *)

(* Every step keeps starts, records and children in their places.             *)
LEMMA ShapeInductive ==
  ASSUME TypeOK, Shape, [Next]_vars
  PROVE  Shape'
<1> USE ProviderHostAssumption
<1>t. /\ status \in [Starts -> Statuses] /\ generation \in [Starts -> Nat]
      /\ instances \in [Keys -> Starts \cup {None}] /\ stage \in [Starts -> Stages]
      /\ keyOf \in [Starts -> Keys \cup {None}] /\ record \in [Starts -> Starts \cup {None}]
      /\ cause \in [Starts -> {"ensure", "exit", None}] /\ child \in [Starts -> Children]
      /\ inflight \in [Starts -> Starts \cup {None}] /\ retiring \subseteq Keys
      /\ process \in [Starts -> Starts \cup {None}]
  BY DEF TypeOK, Records
<1>1. ASSUME NEW k \in Keys, NEW c \in Starts, EnsureRunning(k, c) PROVE Shape'
  <2>1. PICK r \in Starts :
           /\ r = IF instances[k] = None THEN c ELSE instances[k]
           /\ stage[c] = "unused"
           /\ instances' = [instances EXCEPT ![k] = r]
           /\ status' = [status EXCEPT ![r] = "starting"]
           /\ stage' = [stage EXCEPT ![c] = "launching"]
           /\ keyOf' = [keyOf EXCEPT ![c] = k]
           /\ record' = [record EXCEPT ![c] = r]
           /\ cause' = [cause EXCEPT ![c] = "ensure"]
           /\ UNCHANGED <<process, child, retiring>>
    BY <1>1, EnsureEffect
  <2>2. /\ stage'[r] # "unused" /\ keyOf'[r] = k
        /\ stage'[c] = "launching" /\ keyOf'[c] = k /\ record'[c] = r
        /\ \A d \in Starts : d # c =>
             stage'[d] = stage[d] /\ keyOf'[d] = keyOf[d] /\ record'[d] = record[d]
             /\ cause'[d] = cause[d]
        /\ \A d \in Starts : d # r => status'[d] = status[d]
        /\ instances'[k] = r /\ \A j \in Keys : j # k => instances'[j] = instances[j]
    BY <2>1, <1>t DEF Shape, MapIsOfKeys, StartsOf
  <2>3. UnusedIsBlank' /\ StartsHaveKeys'
    BY <2>1, <2>2, <1>t DEF Shape, UnusedIsBlank, StartsHaveKeys
  <2>4. StartsHaveRecords'
    BY <2>1, <2>2, <1>t DEF Shape, UnusedIsBlank, StartsHaveRecords, StartsOf
  <2>5. MapIsOfKeys'
    BY <2>1, <2>2, <1>t DEF Shape, MapIsOfKeys, StartsOf
  <2>6. ProcessesAreOfKeys'
    BY <2>1, <2>2, <1>t DEF Shape, ProcessesAreOfKeys, StartsOf
  <2> QED
    BY <2>3, <2>4, <2>5, <2>6 DEF Shape
<1>2. ASSUME NEW c \in Starts, Wake(c) PROVE Shape'
  <2>1. PICK st \in {"settled", "launching"} :
           /\ stage[c] = "sleeping" /\ stage' = [stage EXCEPT ![c] = st]
           /\ \/ st = "settled" /\ UNCHANGED record
              \/ /\ st = "launching" /\ instances[keyOf[c]] # None
                 /\ record' = [record EXCEPT ![c] = instances[keyOf[c]]]
           /\ UNCHANGED <<instances, status, process, keyOf, cause, child, retiring>>
    BY <1>2 DEF Wake, Settle, fields
  <2>2. /\ keyOf[c] \in Keys /\ cause[c] # "ensure" => cause'[c] # "ensure"
        /\ \A d \in Starts : (stage'[d] = "unused") = (stage[d] = "unused")
        /\ \A k \in Keys : StartsOf(k)' = StartsOf(k)
    BY <2>1, <1>t DEF Shape, StartsHaveKeys, StartsOf
  <2>3. UnusedIsBlank' /\ StartsHaveKeys'
    BY <2>1, <2>2, <1>t DEF Shape, UnusedIsBlank, StartsHaveKeys
  <2>4. StartsHaveRecords'
    BY <2>1, <2>2, <1>t
    DEF Shape, UnusedIsBlank, StartsHaveRecords, StartsHaveKeys, MapIsOfKeys, StartsOf
  <2>5. MapIsOfKeys' /\ ProcessesAreOfKeys'
    BY <2>1, <2>2, <1>t DEF Shape, MapIsOfKeys, ProcessesAreOfKeys, StartsHaveKeys, StartsOf
  <2> QED
    BY <2>3, <2>4, <2>5 DEF Shape
<1>s. ASSUME NEW c \in Starts, NEW st \in {"settled", "over", "probing"},
             stage[c] \in {"launching", "probing", "settled"},
             st # "over" => stage[c] # "settled",
             stage' = [stage EXCEPT ![c] = st],
             UNCHANGED <<instances, keyOf, record, cause, retiring>>,
             \A d \in Starts : stage[d] = "unused" =>
               child'[d] = child[d] /\ status'[d] = status[d],
             \A d \in Starts : child'[d] # "none" =>
               child[d] # "none" \/ (d = c /\ st = "probing"),
             \A d \in Starts : process'[d] # process[d] =>
               process'[d] = None \/ (process'[d] = c /\ d = record[c])
      PROVE  Shape'
  <2>1. /\ \A d \in Starts : (stage'[d] = "unused") = (stage[d] = "unused")
        /\ \A k : StartsOf(k)' = StartsOf(k)
    BY <1>s, <1>t DEF StartsOf
  <2>2. UnusedIsBlank' /\ StartsHaveKeys' /\ MapIsOfKeys'
    BY <1>s, <2>1, <1>t DEF Shape, UnusedIsBlank, StartsHaveKeys, MapIsOfKeys
  <2>3. StartsHaveRecords'
    BY <1>s, <2>1, <1>t DEF Shape, StartsHaveRecords
  <2>4. record[c] = None \/ keyOf[record[c]] = keyOf[c]
    BY <1>t DEF Shape, StartsHaveRecords, StartsOf
  <2>5. ProcessesAreOfKeys'
    BY <1>s, <2>1, <2>4, <1>t DEF Shape, ProcessesAreOfKeys, StartsHaveRecords, StartsOf
  <2> QED
    BY <2>2, <2>3, <2>5 DEF Shape
<1>3. ASSUME NEW c \in Starts, LaunchFails(c) PROVE Shape'
  <2>1. record[c] # None /\ stage[record[c]] # "unused"
    BY <1>3, <1>t DEF LaunchFails, Shape, StartsHaveRecords, StartsOf
  <2> QED
    BY <1>3, <1>s, <1>t, <2>1 DEF LaunchFails, Fail, Settle
<1>4. ASSUME NEW c \in Starts, Spawn(c) PROVE Shape'
  <2>1. record[c] # None /\ stage[record[c]] # "unused"
    BY <1>4, <1>t DEF Spawn, Shape, StartsHaveRecords, StartsOf
  <2>2. CASE Stale(record[c], issued[c])
    BY <1>4, <2>2, <1>s, <1>t, <2>1 DEF Spawn, Settle
  <2>3. CASE ~Stale(record[c], issued[c])
    BY <1>4, <2>3, <1>s, <1>t, <2>1 DEF Spawn
  <2> QED
    BY <2>2, <2>3
<1>5. ASSUME NEW c \in Starts, Ready(c) PROVE Shape'
  <2>1. record[c] # None /\ stage[record[c]] # "unused"
    BY <1>5, <1>t DEF Ready, Shape, StartsHaveRecords, StartsOf
  <2> QED
    BY <1>5, <1>s, <1>t, <2>1 DEF Ready, Settle, Kill
<1>6. ASSUME NEW c \in Starts, NotReady(c) PROVE Shape'
  <2>1. record[c] # None /\ stage[record[c]] # "unused"
    BY <1>6, <1>t DEF NotReady, Shape, StartsHaveRecords, StartsOf
  <2> QED
    BY <1>6, <1>s, <1>t, <2>1 DEF NotReady, Settle, Kill, Fail
<1>7. ASSUME NEW c \in Starts, ClearInflight(c) PROVE Shape'
  BY <1>7, <1>s, <1>t DEF ClearInflight
<1>o. ASSUME UNCHANGED <<stage, keyOf, record, cause>>,
             retiring' \subseteq Keys,
             \A k \in Keys : instances'[k] # instances[k] => instances'[k] = None,
             \A k \in retiring' : instances'[k] # None,
             \A d \in Starts : stage[d] = "unused" => status'[d] = status[d],
             \A d \in Starts : (child'[d] = "none") = (child[d] = "none"),
             \A d \in Starts : process'[d] # process[d] => process'[d] = None
      PROVE  Shape'
  <2>1. \A k : StartsOf(k)' = StartsOf(k)
    BY <1>o DEF StartsOf
  <2>2. UnusedIsBlank' /\ StartsHaveKeys' /\ MapIsOfKeys'
    BY <1>o, <2>1, <1>t DEF Shape, UnusedIsBlank, StartsHaveKeys, MapIsOfKeys
  <2>3. StartsHaveRecords'
    BY <1>o, <2>1, <1>t DEF Shape, StartsHaveRecords
  <2>4. ProcessesAreOfKeys'
    BY <1>o, <2>1, <1>t DEF Shape, ProcessesAreOfKeys
  <2> QED
    BY <2>2, <2>3, <2>4 DEF Shape
<1>m. \A k \in retiring : instances[k] # None
  BY DEF Shape, MapIsOfKeys
<1>8. ASSUME NEW c \in Starts, Answers(c) \/ ExitIgnored(c) \/ Exits(c) PROVE Shape'
  BY <1>8, <1>o, <1>m, <1>t DEF Answers, ExitIgnored, Reported, Exits, fields, starts
<1>9. ASSUME NEW c \in Starts, NEW stable \in BOOLEAN, ExitExhausts(c, stable)
      PROVE Shape'
  <2>1. PICK k \in Keys, r \in Starts :
           /\ k = keyOf[c] /\ r = instances[k]
           /\ c \in StartsOf(k)
           /\ status[r] = "running" /\ issued[c] = generation[r]
           /\ child[c] = "exited"
           /\ status' = [status EXCEPT ![r] = "failed"]
           /\ process' = [process EXCEPT ![r] = None]
           /\ child' = [child EXCEPT ![c] = "reported"]
           /\ UNCHANGED <<instances, generation, inflight, starts, answered, retiring,
                          raced, missed, calls>>
    BY <1>9, ExhaustEffect
  <2>2. stage[r] # "unused"
    BY <2>1 DEF Shape, UnusedIsBlank
  <2> QED
    BY <2>1, <2>2, <1>o, <1>m, <1>t DEF starts
<1>10. ASSUME NEW c \in Starts, NEW stable \in BOOLEAN, NEW d \in Starts,
              ExitRestarts(c, stable, d)
       PROVE Shape'
  <2>1. PICK k \in Keys, r \in Starts :
           /\ k = keyOf[c] /\ r = instances[k]
           /\ c \in StartsOf(k)
           /\ status[r] = "running" /\ issued[c] = generation[r]
           /\ child[c] = "exited" /\ stage[d] = "unused"
           /\ status' = [status EXCEPT ![r] = "starting"]
           /\ process' = [process EXCEPT ![r] = None]
           /\ generation' = [generation EXCEPT ![r] = @ + 1]
           /\ inflight' = [inflight EXCEPT ![r] = d]
           /\ stage' = [stage EXCEPT ![d] = "sleeping"]
           /\ keyOf' = [keyOf EXCEPT ![d] = k]
           /\ issued' = [issued EXCEPT ![d] = generation[r] + 1]
           /\ cause' = [cause EXCEPT ![d] = "exit"]
           /\ child' = [child EXCEPT ![c] = "reported"]
           /\ UNCHANGED <<instances, record, answered, retiring, raced, missed, calls>>
    BY <1>10, RestartEffect
  <2>2. /\ stage[r] # "unused"
        /\ stage'[d] = "sleeping" /\ keyOf'[d] = k /\ cause'[d] = "exit"
        /\ child[d] = "none" /\ record[d] = None
        /\ \A e \in Starts : e # d =>
             stage'[e] = stage[e] /\ keyOf'[e] = keyOf[e] /\ cause'[e] = cause[e]
    BY <2>1, <1>t DEF Shape, UnusedIsBlank
  <2>3. UnusedIsBlank' /\ StartsHaveKeys'
    BY <2>1, <2>2, <1>t DEF Shape, UnusedIsBlank, StartsHaveKeys
  <2>4. StartsHaveRecords'
    BY <2>1, <2>2, <1>t DEF Shape, UnusedIsBlank, StartsHaveRecords, StartsOf
  <2>5. MapIsOfKeys'
    BY <2>1, <2>2, <1>t DEF Shape, MapIsOfKeys, StartsOf
  <2>6. ProcessesAreOfKeys'
    BY <2>1, <2>2, <1>t DEF Shape, ProcessesAreOfKeys, StartsOf
  <2> QED
    BY <2>3, <2>4, <2>5, <2>6 DEF Shape
<1>11. ASSUME NEW k \in Keys, Stop(k) \/ Retire(k) PROVE Shape'
  <2>1. PICK r \in Starts :
           /\ r = instances[k]
           /\ status' = [status EXCEPT ![r] = "stopped"]
           /\ generation' = [generation EXCEPT ![r] = @ + 1]
           /\ inflight' = [inflight EXCEPT ![r] = None]
           /\ process' = [process EXCEPT ![r] = None]
           /\ Kill(process[r])
           /\ retiring \subseteq retiring' /\ retiring' \subseteq retiring \cup {k}
           /\ UNCHANGED <<instances, starts, answered, raced, missed>>
    BY <1>11, StopEffect
  <2>2. stage[r] # "unused" /\ instances[k] # None
    BY <2>1, <1>t DEF Shape, MapIsOfKeys, StartsOf
  <2>3. \A d \in Starts : (child'[d] = "none") = (child[d] = "none")
    BY <2>1, <1>t DEF Kill
  <2> QED
    BY <2>1, <2>2, <2>3, <1>o, <1>m, <1>t DEF starts
<1>12. ASSUME NEW k \in Keys, Forget(k) PROVE Shape'
  BY <1>12, <1>o, <1>m, <1>t DEF Forget, fields, starts
<1>13. CASE UNCHANGED vars
  BY <1>13, <1>o, <1>m, <1>t DEF vars, fields, starts
<1> QED
  BY <1>1, <1>2, <1>3, <1>4, <1>5, <1>6, <1>7, <1>8, <1>9, <1>10, <1>11, <1>12, <1>13
  DEF Next

-----------------------------------------------------------------------------
(* What follows from the invariant of a key in one state.                     *)

(* A start that is still on its way, or the child of one, has the generation  *)
(* to itself.                                                                 *)
LEMMA OnlyOneCurrent ==
  ASSUME NEW k \in Keys, KeyInv(k), instances[k] # None,
         NEW c \in Members(k), NEW d \in Members(k),
         issued[c] = generation[instances[k]], issued[d] = generation[instances[k]]
  PROVE  c = d
BY DEF KeyInv, GenerationsApart

(* An alive child belongs to the one start whose generation the record has.   *)
LEMMA AliveIsCurrent ==
  ASSUME NEW k \in Keys, KeyInv(k), NEW c \in Members(k),
         instances[k] # None => issued[c] = generation[instances[k]],
         NEW d \in StartsOf(k), child[d] = "alive"
  PROVE  d = c
<1>1. instances[k] # None /\ issued[d] = generation[instances[k]]
  BY DEF KeyInv, AliveIsNamed
<1>2. d \in Members(k)
  BY <1>1 DEF KeyInv, NoLeftovers, Members
<1> QED
  BY <1>1, <1>2, OnlyOneCurrent

(* A start that is not stale works for the record the map has.                *)
LEMMA OwnersRecord ==
  ASSUME Shape, NEW k \in Keys, KeyInv(k), NEW c \in StartsOf(k), record[c] # None,
         status[record[c]] # "stopped"
  PROVE  record[c] = instances[k]
BY DEF Shape, StartsHaveRecords, KeyInv, ForgottenIsStopped, StartsOf

(* A crash is that of the child the record names: it was alive to the end.    *)
LEMMA CrashedIsProcess ==
  ASSUME NEW k \in Keys, KeyInv(k), NEW c \in StartsOf(k), child[c] = "exited", IsCrash(c)
  PROVE  /\ process[instances[k]] = c
         /\ \A d \in StartsOf(k) : child[d] # "alive"
<1>1. /\ instances[k] # None /\ status[instances[k]] = "running"
      /\ issued[c] = generation[instances[k]]
  BY DEF IsCrash, StartsOf
<1>2. c \in Members(k)
  BY <1>1 DEF KeyInv, NoLeftovers, Members
<1>3. PICK w \in StartsOf(k) :
        /\ process[instances[k]] = w /\ record[w] = instances[k]
        /\ issued[w] = generation[instances[k]]
  BY <1>1 DEF KeyInv, RunningHasChild
<1>4. w = c
  BY <1>1, <1>2, <1>3, OnlyOneCurrent DEF Members
<1>5. ASSUME NEW d \in StartsOf(k), child[d] = "alive" PROVE FALSE
  <2>1. d = c
    BY <1>1, <1>2, <1>5, AliveIsCurrent
  <2> QED
    BY <1>5, <2>1
<1> QED
  BY <1>3, <1>4, <1>5

-----------------------------------------------------------------------------
(* A step on one key leaves the others alone.                                 *)

Same(c) ==
  /\ stage'[c] = stage[c] /\ keyOf'[c] = keyOf[c] /\ issued'[c] = issued[c]
  /\ record'[c] = record[c] /\ child'[c] = child[c] /\ status'[c] = status[c]
  /\ generation'[c] = generation[c] /\ process'[c] = process[c] /\ inflight'[c] = inflight[c]

Only(k) ==
  /\ \A j \in Keys \ {k} : instances'[j] = instances[j] /\ (j \in retiring' => j \in retiring)
  /\ \A c \in Starts :
       Same(c) \/ (c \in StartsOf(k)' /\ (c \in StartsOf(k) \/ stage[c] = "unused"))
  /\ missed \subseteq missed'

(* A step on one key leaves what KeyInv says of the others.                   *)
LEMMA Elsewhere ==
  ASSUME Shape, NEW k, Only(k), NEW j \in Keys \ {k}, KeyInv(j)
  PROVE  KeyInv(j)'
<1>1. /\ instances'[j] = instances[j]
      /\ j \in retiring' => j \in retiring
      /\ missed \subseteq missed'
  BY DEF Only
<1>2. StartsOf(j)' = StartsOf(j) /\ \A c \in StartsOf(j) : Same(c)
  BY DEF Only, Same, StartsOf
<1>3. instances[j] # None => instances[j] \in StartsOf(j)
  BY DEF Shape, MapIsOfKeys
<1>4. Members(j)' = Members(j) /\ \A c \in StartsOf(j) : Watched(c) => Watched(c)'
  BY <1>1, <1>2 DEF Members, Same, Watched
<1>5. instances[j] # None => Able(j)' = Able(j)
  BY <1>1, <1>2, <1>3 DEF Able, Same
<1>6. ForgottenIsStopped(j)' /\ NoLeftovers(j)' /\ AliveIsNamed(j)' /\ RetiringIsStopped(j)'
  BY <1>1, <1>2, <1>3
  DEF KeyInv, ForgottenIsStopped, NoLeftovers, AliveIsNamed, RetiringIsStopped, Same,
      Shape, MapIsOfKeys
<1>7. GenerationsApart(j)' /\ StartingHasStart(j)'
  <2>1. Members(j) \subseteq StartsOf(j)
    BY DEF Members
  <2> QED
    BY <1>1, <1>2, <1>3, <1>4, <1>5, <2>1
    DEF KeyInv, GenerationsApart, StartingHasStart, Same
<1>8. ProbedIsNamed(j)'
  <2> SUFFICES ASSUME NEW c \in StartsOf(j),
                      (/\ stage[c] = "probing" /\ record[c] = instances[j]
                       /\ issued[c] = generation[instances[j]]
                       /\ status[instances[j]] = "starting")'
               PROVE  (process[instances[j]] = c /\ Watched(c))'
    BY <1>2 DEF ProbedIsNamed
  <2>1. Same(c) /\ Same(instances[j])
    BY <1>2, <1>3, <1>1 DEF Shape, StartsHaveRecords, Same, StartsOf
  <2> QED
    BY <1>1, <1>4, <2>1 DEF KeyInv, ProbedIsNamed, Same
<1>9. RunningHasChild(j)'
  <2> SUFFICES ASSUME (instances[j] # None /\ status[instances[j]] = "running")'
               PROVE  RunningHasChild(j)'
    BY DEF RunningHasChild
  <2>1. Same(instances[j])
    BY <1>1, <1>2, <1>3
  <2>2. PICK c \in StartsOf(j) :
          /\ process[instances[j]] = c /\ record[c] = instances[j]
          /\ issued[c] = generation[instances[j]]
          /\ stage[c] \in {"settled", "over"} /\ Watched(c)
    BY <1>1, <2>1 DEF KeyInv, RunningHasChild, Same
  <2>3. Same(c) /\ Watched(c)'
    BY <1>2, <1>4, <2>2
  <2> QED
    BY <1>1, <1>2, <2>1, <2>2, <2>3 DEF RunningHasChild, Same
<1> QED
  BY <1>6, <1>7, <1>8, <1>9 DEF KeyInv

-----------------------------------------------------------------------------
(* The steps of one key.                                                      *)

(* Asking for a start keeps KeyInv of its key.                                *)
LEMMA EnsureStep ==
  ASSUME TypeOK, Shape, NEW k \in Keys, NEW c \in Starts, EnsureRunning(k, c),
         k \notin raced', KeyInv(k)
  PROVE  KeyInv(k)'
<1>1. PICK r \in Starts :
           /\ r = IF instances[k] = None THEN c ELSE instances[k]
           /\ stage[c] = "unused"
           /\ instances' = [instances EXCEPT ![k] = r]
           /\ status' = [status EXCEPT ![r] = "starting"]
           /\ generation' = [generation EXCEPT ![r] = @ + 1]
           /\ inflight' = [inflight EXCEPT ![r] = c]
           /\ stage' = [stage EXCEPT ![c] = "launching"]
           /\ keyOf' = [keyOf EXCEPT ![c] = k]
           /\ issued' = [issued EXCEPT ![c] = generation[r] + 1]
           /\ record' = [record EXCEPT ![c] = r]
           /\ cause' = [cause EXCEPT ![c] = "ensure"]
           /\ raced' = IF k \in retiring \/ (instances[k] = None /\ Leftovers(k) # {})
                       THEN raced \cup {k} ELSE raced
           /\ instances[k] # None =>
                ~(status[r] = "running" /\ process[r] # None) /\ inflight[r] = None
           /\ UNCHANGED <<process, restarts, child, answered, retiring, missed>>
  BY ONLY TypeOK, EnsureRunning(k, c), EnsureEffect
<1> USE ProviderHostAssumption
<1>2. /\ instances'[k] = r /\ r # None
      /\ status'[r] = "starting" /\ generation'[r] = generation[r] + 1
      /\ generation[r] \in Nat /\ inflight'[r] = c
      /\ stage'[c] = "launching" /\ issued'[c] = generation[r] + 1 /\ record'[c] = r
      /\ StartsOf(k)' = StartsOf(k) \cup {c} /\ c \notin StartsOf(k)
      /\ child' = child /\ process' = process /\ child[c] = "none"
      /\ \A d \in Starts : d # r => status'[d] = status[d]
      /\ \A d \in StartsOf(k) : stage'[d] = stage[d] /\ issued'[d] = issued[d]
                                /\ record'[d] = record[d] /\ issued[d] \in Nat
  <2>1. /\ instances \in [Keys -> Starts \cup {None}] /\ status \in [Starts -> Statuses]
        /\ generation \in [Starts -> Nat] /\ inflight \in [Starts -> Starts \cup {None}]
        /\ stage \in [Starts -> Stages] /\ keyOf \in [Starts -> Keys \cup {None}]
        /\ issued \in [Starts -> Nat] /\ record \in [Starts -> Starts \cup {None}]
    BY DEF TypeOK, Records
  <2>2. child[c] = "none"
    BY <1>1 DEF Shape, UnusedIsBlank
  <2> QED
    BY <1>1, <2>1, <2>2 DEF StartsOf
<1>3. k \notin retiring /\ (instances[k] = None => Leftovers(k) = {})
  BY <1>1
<1>4. instances[k] # None => r = instances[k] /\ status[r] \notin {"starting", "running"}
  <2>1. ASSUME instances[k] # None, status[r] = "starting" PROVE FALSE
    BY <1>1, <2>1 DEF KeyInv, StartingHasStart, Able, StartsOf
  <2>2. ASSUME instances[k] # None, status[r] = "running" PROVE FALSE
    BY <1>1, <2>2 DEF KeyInv, RunningHasChild, StartsOf
  <2> QED
    BY <1>1, <2>1, <2>2
<1>5. \A d \in StartsOf(k) : child[d] # "alive"
  <2>1. CASE instances[k] = None
    BY <1>3, <2>1 DEF Leftovers
  <2>2. CASE instances[k] # None
    BY <1>4, <2>2 DEF KeyInv, AliveIsNamed
  <2> QED
    BY <2>1, <2>2
<1>6. \A d \in StartsOf(k) : d \in Members(k)' =>
        instances[k] # None /\ d \in Members(k)
  <2> SUFFICES ASSUME NEW d \in StartsOf(k), d \in Members(k)'
               PROVE  instances[k] # None /\ d \in Members(k)
    OBVIOUS
  <2>1. stage[d] = "sleeping" \/ record[d] = r
    BY <1>2 DEF Members
  <2>2. CASE instances[k] = None
    <3>1. record[d] = c
      BY <1>1, <1>3, <2>1, <2>2 DEF Leftovers
    <3>2. d \in Starts /\ keyOf[d] = k /\ c # None
      BY DEF StartsOf
    <3>3. record[d] \in StartsOf(k)
      BY <3>1, <3>2 DEF Shape, StartsHaveRecords
    <3> QED
      BY <1>2, <3>1, <3>3
  <2>3. CASE instances[k] # None
    BY <1>1, <2>1, <2>3 DEF Members
  <2> QED
    BY <2>2, <2>3
<1>7. \A d \in StartsOf(k) : d \in Members(k)' => issued[d] <= generation[r]
  BY <1>1, <1>6 DEF KeyInv, GenerationsApart
<1>8. ForgottenIsStopped(k)'
  <2> SUFFICES ASSUME NEW d \in StartsOf(k)', d # r PROVE status'[d] = "stopped"
    BY <1>2 DEF ForgottenIsStopped
  <2>1. d \in Starts /\ status'[d] = status[d] /\ d # instances[k]
    BY <1>1, <1>2 DEF StartsOf
  <2>2. CASE d = c
    BY <1>1, <2>1, <2>2 DEF Shape, UnusedIsBlank
  <2>3. CASE d # c
    BY <1>2, <2>1, <2>3 DEF KeyInv, ForgottenIsStopped
  <2> QED
    BY <2>2, <2>3
<1>9. GenerationsApart(k)'
  <2> SUFFICES ASSUME NEW d \in Members(k)', NEW e \in Members(k)'
               PROVE  /\ issued'[d] <= generation'[r]
                      /\ issued'[d] = issued'[e] => d = e
    BY <1>2 DEF GenerationsApart
  <2>1. d \in StartsOf(k) \cup {c} /\ e \in StartsOf(k) \cup {c}
    BY <1>2 DEF Members
  <2>2. CASE d = c \/ e = c
    BY <1>2, <1>7, <2>1, <2>2
  <2>3. CASE d # c /\ e # c
    <3>1. d \in Members(k) /\ e \in Members(k) /\ instances[k] # None /\ r = instances[k]
      BY <1>1, <1>6, <2>1, <2>3
    <3> QED
      BY <1>2, <2>1, <2>3, <3>1 DEF KeyInv, GenerationsApart
  <2> QED
    BY <2>2, <2>3
<1>10. NoLeftovers(k)'
  <2>1. CASE instances[k] = None
    BY <1>2, <1>3, <2>1 DEF NoLeftovers, Leftovers
  <2>2. CASE instances[k] # None
    BY <1>2, <1>4, <2>2 DEF KeyInv, NoLeftovers
  <2> QED
    BY <2>1, <2>2
<1>11. AliveIsNamed(k)' /\ RunningHasChild(k)'
  BY <1>2, <1>5 DEF AliveIsNamed, RunningHasChild
<1>12. StartingHasStart(k)'
  BY <1>2 DEF StartingHasStart, Able
<1>13. ProbedIsNamed(k)'
  <2> SUFFICES ASSUME NEW d \in StartsOf(k)', stage'[d] = "probing", record'[d] = r,
                      issued'[d] = generation'[r]
               PROVE  FALSE
    BY <1>2 DEF ProbedIsNamed
  <2>1. d \in StartsOf(k) /\ d \in Members(k)'
    BY <1>2 DEF Members
  <2> QED
    BY <1>2, <1>7, <2>1
<1>14. RetiringIsStopped(k)'
  BY <1>1, <1>3 DEF RetiringIsStopped
<1> QED
  BY <1>8, <1>9, <1>10, <1>11, <1>12, <1>13, <1>14 DEF KeyInv

(* A start that the record has passed by only goes to its end.                *)
LEMMA StaleStep ==
  ASSUME TypeOK, Shape, NEW k \in Keys, KeyInv(k), NEW c \in StartsOf(k),
         NEW st \in {"settled", "over"},
         stage' = [stage EXCEPT ![c] = st],
         stage[c] \in {"sleeping", "launching", "probing", "settled"},
         c \notin Able(k) \/ instances[k] = None \/ status[instances[k]] # "starting",
         stage[c] # "settled" => child[c] # "alive",
         UNCHANGED <<instances, status, generation, process, keyOf, issued, record, child,
                     retiring, missed>>,
         instances[k] # None => inflight'[instances[k]] = inflight[instances[k]]
  PROVE  KeyInv(k)'
<1>1. /\ StartsOf(k)' = StartsOf(k) /\ c \in Starts /\ keyOf[c] = k
      /\ stage'[c] = st
      /\ \A d \in StartsOf(k) : d # c => stage'[d] = stage[d]
  BY DEF StartsOf, TypeOK
<1>2. Members(k)' \subseteq Members(k)
  BY <1>1 DEF Members
<1>3. ForgottenIsStopped(k)' /\ NoLeftovers(k)' /\ RetiringIsStopped(k)'
  BY <1>1 DEF KeyInv, ForgottenIsStopped, NoLeftovers, RetiringIsStopped
<1>4. GenerationsApart(k)'
  BY <1>2 DEF KeyInv, GenerationsApart
<1>5. AliveIsNamed(k)'
  BY <1>1 DEF KeyInv, AliveIsNamed
<1>6. StartingHasStart(k)'
  BY <1>1 DEF KeyInv, StartingHasStart, Able
<1>7. ProbedIsNamed(k)' /\ RunningHasChild(k)'
  BY <1>1 DEF KeyInv, ProbedIsNamed, RunningHasChild, Watched
<1> QED
  BY <1>3, <1>4, <1>5, <1>6, <1>7 DEF KeyInv

(* The end of a back-off keeps KeyInv of its key.                             *)
LEMMA WakeStep ==
  ASSUME TypeOK, Shape, NEW k \in Keys, NEW c \in StartsOf(k), Wake(c), KeyInv(k)
  PROVE  KeyInv(k)'
<1> USE ProviderHostAssumption
<1>1. /\ c \in Starts /\ keyOf[c] = k /\ stage[c] = "sleeping"
      /\ instances[k] \in Starts \cup {None}
  BY DEF Wake, StartsOf, TypeOK, Records
<1>2. child[c] # "alive"
  BY <1>1 DEF KeyInv, AliveIsNamed
<1>3. CASE instances[k] = None \/ Stale(instances[k], issued[c])
  <2>1. /\ stage' = [stage EXCEPT ![c] = "settled"]
        /\ UNCHANGED <<instances, status, generation, process, inflight, keyOf, issued,
                       record, child, retiring, missed>>
    BY <1>1, <1>3 DEF Wake, Settle, fields
  <2>2. c \notin Able(k) \/ instances[k] = None \/ status[instances[k]] # "starting"
    BY <1>3 DEF Stale, Able
  <2> QED
    BY <1>1, <1>2, <2>1, <2>2, StaleStep
<1>4. CASE instances[k] # None /\ ~Stale(instances[k], issued[c])
  <2>1. /\ stage' = [stage EXCEPT ![c] = "launching"]
        /\ record' = [record EXCEPT ![c] = instances[k]]
        /\ UNCHANGED <<instances, status, generation, process, inflight, keyOf, issued,
                       child, retiring, missed>>
    BY <1>1, <1>4 DEF Wake, fields
  <2>2. /\ StartsOf(k)' = StartsOf(k) /\ stage'[c] = "launching"
        /\ record'[c] = instances[k]
        /\ \A d \in StartsOf(k) : d # c => stage'[d] = stage[d] /\ record'[d] = record[d]
        /\ status[instances[k]] = "starting"
    BY <1>1, <1>4, <2>1 DEF StartsOf, TypeOK, Records, Stale
  <2>3. Members(k)' \subseteq Members(k)
    BY <1>1, <2>1, <2>2 DEF Members
  <2>4. ForgottenIsStopped(k)' /\ NoLeftovers(k)' /\ RetiringIsStopped(k)'
    BY <2>1, <2>2 DEF KeyInv, ForgottenIsStopped, NoLeftovers, RetiringIsStopped
  <2>5. GenerationsApart(k)'
    BY <2>1, <2>3 DEF KeyInv, GenerationsApart
  <2>6. AliveIsNamed(k)' /\ RunningHasChild(k)'
    BY <1>2, <2>1, <2>2 DEF KeyInv, AliveIsNamed, RunningHasChild
  <2>7. StartingHasStart(k)'
    BY <2>1, <2>2 DEF KeyInv, StartingHasStart, Able
  <2>8. ProbedIsNamed(k)'
    BY <2>1, <2>2 DEF KeyInv, ProbedIsNamed, Watched
  <2> QED
    BY <2>4, <2>5, <2>6, <2>7, <2>8 DEF KeyInv
<1> QED
  BY <1>3, <1>4

(* Of the record that is starting, the start that may still commit is the only *)
(* one on its way, and no other child of the key is alive.                    *)
LEMMA CommittingIsAlone ==
  ASSUME TypeOK, Shape, NEW k \in Keys, KeyInv(k), NEW c \in StartsOf(k),
         stage[c] \in {"launching", "probing"}, ~Stale(record[c], issued[c])
  PROVE  /\ instances[k] # None /\ record[c] = instances[k]
         /\ status[instances[k]] = "starting"
         /\ issued[c] = generation[instances[k]]
         /\ c \in Members(k)
         /\ \A d \in Members(k) : issued[d] = generation[instances[k]] => d = c
         /\ \A d \in StartsOf(k) : child[d] = "alive" => d = c
<1>1. record[c] # None /\ status[record[c]] = "starting" /\ issued[c] = generation[record[c]]
  BY DEF Shape, StartsHaveRecords, StartsOf, Stale
<1>2. record[c] = instances[k]
  BY <1>1, OwnersRecord
<1>3. c \in Members(k)
  BY <1>2 DEF Members
<1> QED
  BY <1>1, <1>2, <1>3, OnlyOneCurrent, AliveIsCurrent

(* A start the record has passed by has no child left.                        *)
LEMMA StaleIsDead ==
  ASSUME Shape, NEW k \in Keys, KeyInv(k), NEW c \in StartsOf(k),
         stage[c] \in {"launching", "probing"}, Stale(record[c], issued[c])
  PROVE  child[c] # "alive" /\
         (c \notin Able(k) \/ instances[k] = None \/ status[instances[k]] # "starting")
<1>1. ASSUME child[c] = "alive" PROVE FALSE
  <2>1. /\ instances[k] # None /\ record[c] = instances[k]
        /\ issued[c] = generation[instances[k]] /\ status[instances[k]] = "starting"
    BY <1>1 DEF KeyInv, AliveIsNamed, NoLeftovers
  <2> QED
    BY <2>1 DEF Stale
<1> QED
  BY <1>1 DEF Able, Stale

(* A start that still owns its record ends: it failed, or it is running.      *)
LEMMA CommitStep ==
  ASSUME TypeOK, Shape, NEW k \in Keys, KeyInv(k), NEW c \in StartsOf(k),
         stage[c] \in {"launching", "probing"}, ~Stale(record[c], issued[c]),
         stage' = [stage EXCEPT ![c] = "settled"],
         NEW st \in {"failed", "running"},
         status' = [status EXCEPT ![record[c]] = st],
         st = "failed" => Kill(c) \/ (UNCHANGED child /\ stage[c] = "launching"),
         st = "running" => UNCHANGED child /\ stage[c] = "probing",
         k \notin retiring,
         UNCHANGED <<instances, generation, process, keyOf, issued, record, retiring, missed>>
  PROVE  KeyInv(k)'
<1> USE ProviderHostAssumption
<1> DEFINE i == instances[k]
<1>1. /\ i # None /\ record[c] = i /\ status[i] = "starting" /\ issued[c] = generation[i]
      /\ c \in Members(k)
      /\ \A d \in Members(k) : issued[d] = generation[i] => d = c
      /\ \A d \in StartsOf(k) : child[d] = "alive" => d = c
  BY CommittingIsAlone
<1>2. /\ StartsOf(k)' = StartsOf(k) /\ c \in Starts /\ i' = i /\ i \in Starts
      /\ stage'[c] = "settled" /\ status'[i] = st
      /\ \A d \in StartsOf(k) : d # c => stage'[d] = stage[d]
      /\ \A d \in Starts : d # i => status'[d] = status[d]
  BY <1>1 DEF StartsOf, TypeOK, Records
<1>3. \A d \in StartsOf(k) :
        /\ child'[d] \in {"alive", "exited"} <=> child[d] \in {"alive", "exited"}
        /\ child'[d] = "alive" => child[d] = "alive"
        /\ child'[d] = "alive" => st = "running"
  <2>1. stage[c] = "launching" => child[c] # "alive"
    BY <1>1 DEF KeyInv, AliveIsNamed
  <2> QED
    BY <1>1, <2>1 DEF Kill, StartsOf, TypeOK
<1>4. Members(k)' = Members(k)
  BY <1>1, <1>2 DEF Members
<1>5. ForgottenIsStopped(k)' /\ RetiringIsStopped(k)'
  BY <1>2 DEF KeyInv, ForgottenIsStopped, RetiringIsStopped, StartsOf
<1>6. NoLeftovers(k)' /\ GenerationsApart(k)'
  BY <1>2, <1>3, <1>4 DEF KeyInv, NoLeftovers, GenerationsApart
<1>7. AliveIsNamed(k)'
  BY <1>1, <1>2, <1>3 DEF KeyInv, AliveIsNamed
<1>8. StartingHasStart(k)' /\ ProbedIsNamed(k)'
  BY <1>2 DEF StartingHasStart, ProbedIsNamed
<1>9. RunningHasChild(k)'
  <2>1. CASE st = "failed"
    BY <1>2, <2>1 DEF RunningHasChild
  <2>2. CASE st = "running"
    <3>1. process[i] = c /\ Watched(c)
      BY <1>1, <2>2 DEF KeyInv, ProbedIsNamed
    <3> QED
      BY <1>1, <1>2, <2>2, <3>1 DEF RunningHasChild, Watched
  <2> QED
    BY <2>1, <2>2
<1> QED
  BY <1>5, <1>6, <1>7, <1>8, <1>9 DEF KeyInv

(* A launch that fails keeps KeyInv of its key.                               *)
LEMMA LaunchStep ==
  ASSUME TypeOK, Shape, NEW k \in Keys, NEW c \in StartsOf(k),
         LaunchFails(c) \/ Ready(c) \/ NotReady(c), KeyInv(k)
  PROVE  KeyInv(k)'
<1>1. /\ stage[c] \in {"launching", "probing"} /\ k \notin retiring
      /\ stage' = [stage EXCEPT ![c] = "settled"]
      /\ UNCHANGED <<instances, generation, process, inflight, keyOf, issued, record,
                     retiring, missed>>
  BY DEF LaunchFails, Ready, NotReady, Settle, NewTask
<1>2. CASE Stale(record[c], issued[c])
  <2>1. /\ child[c] # "alive"
        /\ c \notin Able(k) \/ instances[k] = None \/ status[instances[k]] # "starting"
    BY <1>1, <1>2, StaleIsDead
  <2>2. UNCHANGED status
    BY <1>2 DEF LaunchFails, Ready, NotReady, Fail
  <2>3. Kill(c) => UNCHANGED child
    BY <2>1 DEF Kill, TypeOK
  <2>4. UNCHANGED child
    BY <1>2, <2>3 DEF LaunchFails, Ready, NotReady
  <2> QED
    BY <1>1, <2>1, <2>2, <2>4, StaleStep
<1>3. CASE ~Stale(record[c], issued[c])
  <2>1. CASE LaunchFails(c)
    BY <1>1, <1>3, <2>1, CommitStep DEF LaunchFails, Fail
  <2>2. CASE Ready(c)
    BY <1>1, <1>3, <2>2, CommitStep DEF Ready
  <2>3. CASE NotReady(c)
    BY <1>1, <1>3, <2>3, CommitStep DEF NotReady, Fail
  <2> QED
    BY <2>1, <2>2, <2>3
<1> QED
  BY <1>2, <1>3

(* A launch that yields a child keeps KeyInv of its key.                      *)
LEMMA SpawnStep ==
  ASSUME TypeOK, Shape, NEW k \in Keys, NEW c \in StartsOf(k), Spawn(c), KeyInv(k)
  PROVE  KeyInv(k)'
<1> USE ProviderHostAssumption
<1>1. /\ stage[c] = "launching"
      /\ UNCHANGED <<instances, status, generation, inflight, keyOf, issued, record,
                     retiring, missed>>
  BY DEF Spawn
<1>2. CASE Stale(record[c], issued[c])
  <2>1. /\ child[c] # "alive"
        /\ c \notin Able(k) \/ instances[k] = None \/ status[instances[k]] # "starting"
    BY <1>1, <1>2, StaleIsDead
  <2>2. stage' = [stage EXCEPT ![c] = "settled"] /\ UNCHANGED <<process, child>>
    BY <1>2 DEF Spawn, Settle
  <2> QED
    BY <1>1, <2>1, <2>2, StaleStep
<1>3. CASE ~Stale(record[c], issued[c])
  <2> DEFINE i == instances[k]
  <2>1. /\ i # None /\ record[c] = i /\ status[i] = "starting"
        /\ issued[c] = generation[i]
        /\ c \in Members(k)
        /\ \A d \in Members(k) : issued[d] = generation[i] => d = c
        /\ \A d \in StartsOf(k) : child[d] = "alive" => d = c
    BY <1>1, <1>3, CommittingIsAlone
  <2>2. /\ stage' = [stage EXCEPT ![c] = "probing"]
        /\ process' = [process EXCEPT ![i] = c]
        /\ child' = [child EXCEPT ![c] = "alive"]
    BY <1>3, <2>1 DEF Spawn
  <2>3. /\ StartsOf(k)' = StartsOf(k) /\ c \in Starts /\ i' = i /\ i \in Starts
        /\ stage'[c] = "probing" /\ process'[i] = c /\ child'[c] = "alive"
        /\ \A d \in StartsOf(k) : d # c => stage'[d] = stage[d] /\ child'[d] = child[d]
    BY <1>1, <2>1, <2>2 DEF StartsOf, TypeOK, Records
  <2>4. Members(k)' = Members(k)
    BY <1>1, <2>1, <2>3 DEF Members
  <2>5. ForgottenIsStopped(k)' /\ RetiringIsStopped(k)'
    BY <1>1, <2>3 DEF KeyInv, ForgottenIsStopped, RetiringIsStopped
  <2>6. NoLeftovers(k)' /\ GenerationsApart(k)'
    BY <1>1, <2>1, <2>3, <2>4 DEF KeyInv, NoLeftovers, GenerationsApart
  <2>7. AliveIsNamed(k)'
    BY <1>1, <2>1, <2>3 DEF AliveIsNamed
  <2>8. StartingHasStart(k)'
    BY <1>1, <2>1, <2>3 DEF KeyInv, StartingHasStart, Able
  <2>9. ProbedIsNamed(k)'
    <3> SUFFICES ASSUME NEW d \in StartsOf(k), stage'[d] = "probing", record[d] = i,
                        issued[d] = generation[i]
                 PROVE  d = c
      BY <1>1, <2>3 DEF ProbedIsNamed, Watched
    <3> QED
      BY <2>1 DEF Members
  <2>10. RunningHasChild(k)'
    BY <1>1, <2>1, <2>3 DEF RunningHasChild
  <2> QED
    BY <2>5, <2>6, <2>7, <2>8, <2>9, <2>10 DEF KeyInv
<1> QED
  BY <1>2, <1>3

(* The end of a start's promise keeps KeyInv of its key.                      *)
LEMMA ClearStep ==
  ASSUME TypeOK, Shape, NEW k \in Keys, NEW c \in StartsOf(k), ClearInflight(c), KeyInv(k)
  PROVE  KeyInv(k)'
<1>1. /\ stage[c] = "settled" /\ stage' = [stage EXCEPT ![c] = "over"]
      /\ UNCHANGED <<instances, status, generation, process, keyOf, issued, record, child,
                     retiring, missed>>
      /\ \A r \in Starts : inflight'[r] # inflight[r] => inflight[r] = c
  BY DEF ClearInflight, Clear, TypeOK, Records
<1>2. c \notin Able(k)
  BY <1>1 DEF Able
<1>3. CASE instances[k] = None \/ status[instances[k]] # "starting"
  <2>1. StartsOf(k)' = StartsOf(k) /\ Members(k)' = Members(k)
        /\ \A d \in StartsOf(k) : stage'[d] # stage[d] =>
             stage[d] = "settled" /\ stage'[d] = "over"
    BY <1>1 DEF StartsOf, Members, TypeOK
  <2>2. ForgottenIsStopped(k)' /\ NoLeftovers(k)' /\ RetiringIsStopped(k)'
    BY <1>1, <2>1 DEF KeyInv, ForgottenIsStopped, NoLeftovers, RetiringIsStopped
  <2>3. GenerationsApart(k)'
    BY <1>1, <2>1 DEF KeyInv, GenerationsApart
  <2>4. StartingHasStart(k)'
    BY <1>1, <1>3 DEF StartingHasStart
  <2>5. ProbedIsNamed(k)'
    BY <1>1, <1>3, <2>1 DEF KeyInv, ProbedIsNamed, Watched
  <2>6. AliveIsNamed(k)' /\ RunningHasChild(k)'
    BY <1>1, <2>1 DEF KeyInv, AliveIsNamed, RunningHasChild, Watched
  <2> QED
    BY <2>2, <2>3, <2>4, <2>5, <2>6 DEF KeyInv
<1>4. CASE instances[k] # None /\ status[instances[k]] = "starting"
  <2>1. inflight'[instances[k]] = inflight[instances[k]]
    BY <1>1, <1>2, <1>4 DEF KeyInv, StartingHasStart, TypeOK, Records
  <2> QED
    BY <1>1, <1>2, <2>1, StaleStep
<1> QED
  BY <1>3, <1>4

(* A child answers, dies, or dies unnoticed.                                  *)
LEMMA ChildStep ==
  ASSUME TypeOK, Shape, NEW k \in Keys, NEW c \in StartsOf(k), KeyInv(k),
         Answers(c) \/ Exits(c) \/ ExitIgnored(c)
  PROVE  KeyInv(k)'
<1>1. /\ UNCHANGED <<instances, status, generation, process, inflight, stage, keyOf, issued,
                     record, retiring>>
      /\ missed \subseteq missed'
  BY DEF Answers, Exits, ExitIgnored, fields, starts
<1>2. \A d \in Starts :
        /\ child'[d] = "alive" => child[d] = "alive"
        /\ child'[d] \in {"alive", "exited"} => child[d] \in {"alive", "exited"}
        /\ child'[d] \notin {"alive", "exited"} /\ child[d] \in {"alive", "exited"} =>
             d = c /\ ExitIgnored(c)
  BY DEF Answers, Exits, ExitIgnored, Reported, TypeOK
<1>3. StartsOf(k)' = StartsOf(k) /\ Members(k)' = Members(k) /\ Able(k)' = Able(k)
      /\ StartsOf(k) \subseteq Starts
  BY <1>1 DEF StartsOf, Members, Able
<1>4. ForgottenIsStopped(k)' /\ NoLeftovers(k)' /\ RetiringIsStopped(k)'
  BY <1>1, <1>2, <1>3 DEF KeyInv, ForgottenIsStopped, NoLeftovers, RetiringIsStopped
<1>5. GenerationsApart(k)' /\ StartingHasStart(k)'
  BY <1>1, <1>3 DEF KeyInv, GenerationsApart, StartingHasStart
<1>6. AliveIsNamed(k)'
  BY <1>1, <1>2, <1>3 DEF KeyInv, AliveIsNamed
<1>7. ProbedIsNamed(k)'
  <2> SUFFICES ASSUME NEW d \in StartsOf(k), stage[d] = "probing", Watched(d)
               PROVE  Watched(d)'
    BY <1>1, <1>3 DEF KeyInv, ProbedIsNamed
  <2>1. d = c /\ ExitIgnored(c) => d \in missed'
    BY DEF ExitIgnored
  <2> QED
    BY <1>1, <1>2, <1>3, <2>1 DEF Watched
<1>8. RunningHasChild(k)'
  <2> SUFFICES ASSUME instances[k] # None, status[instances[k]] = "running",
                      NEW d \in StartsOf(k), issued[d] = generation[instances[k]], Watched(d)
               PROVE  Watched(d)'
    BY <1>1, <1>3 DEF KeyInv, RunningHasChild
  <2>1. ~(d = c /\ ExitIgnored(c))
    BY DEF ExitIgnored, IsCrash, StartsOf
  <2> QED
    BY <1>1, <1>2, <1>3, <2>1 DEF Watched
<1> QED
  BY <1>4, <1>5, <1>6, <1>7, <1>8 DEF KeyInv

(* A crash with no restart left keeps KeyInv of its key.                      *)
LEMMA ExhaustStep ==
  ASSUME TypeOK, Shape, NEW k \in Keys, NEW c \in StartsOf(k), KeyInv(k),
         NEW stable \in BOOLEAN, ExitExhausts(c, stable)
  PROVE  KeyInv(k)'
<1> USE ProviderHostAssumption
<1>a. c \in Starts /\ keyOf[c] = k
  BY DEF StartsOf
<1>1. PICK j \in Keys, r \in Starts :
           /\ j = keyOf[c] /\ r = instances[j]
           /\ c \in StartsOf(j)
           /\ status[r] = "running" /\ issued[c] = generation[r]
           /\ child[c] = "exited"
           /\ status' = [status EXCEPT ![r] = "failed"]
           /\ process' = [process EXCEPT ![r] = None]
           /\ child' = [child EXCEPT ![c] = "reported"]
           /\ UNCHANGED <<instances, generation, inflight, starts, answered, retiring,
                          raced, missed, calls>>
  BY ONLY TypeOK, Shape, <1>a, ExitExhausts(c, stable), stable \in BOOLEAN, ExhaustEffect
<1>2. /\ r = instances[k] /\ r # None /\ status'[r] = "failed"
      /\ StartsOf(k)' = StartsOf(k) /\ Members(k)' = Members(k)
      /\ \A d \in Starts : d # r => status'[d] = status[d]
      /\ \A d \in Starts : child'[d] \in {"alive", "exited"} => child'[d] = child[d]
  BY <1>a, <1>1 DEF StartsOf, Members, TypeOK, Records, starts
<1>3. \A d \in StartsOf(k) : child[d] # "alive"
  BY <1>1, CrashedIsProcess DEF ExitExhausts
<1>4. k \notin retiring
  BY DEF ExitExhausts, Reported, NewTask
<1>5. ForgottenIsStopped(k)' /\ RetiringIsStopped(k)'
  BY <1>1, <1>2, <1>4 DEF KeyInv, ForgottenIsStopped, RetiringIsStopped, StartsOf
<1>6. GenerationsApart(k)'
  BY <1>1, <1>2 DEF KeyInv, GenerationsApart, starts
<1>7. NoLeftovers(k)' /\ AliveIsNamed(k)'
  BY <1>1, <1>2, <1>3 DEF KeyInv, NoLeftovers, AliveIsNamed, StartsOf, starts
<1>8. StartingHasStart(k)' /\ ProbedIsNamed(k)' /\ RunningHasChild(k)'
  BY <1>1, <1>2 DEF StartingHasStart, ProbedIsNamed, RunningHasChild
<1> QED
  BY <1>5, <1>6, <1>7, <1>8 DEF KeyInv

(* A crash that is restarted keeps KeyInv of its key.                         *)
LEMMA RestartStep ==
  ASSUME TypeOK, Shape, NEW k \in Keys, NEW c \in StartsOf(k), KeyInv(k),
         NEW stable \in BOOLEAN, NEW d \in Starts, ExitRestarts(c, stable, d)
  PROVE  KeyInv(k)'
<1> USE ProviderHostAssumption
<1>a. c \in Starts /\ keyOf[c] = k
  BY DEF StartsOf
<1>1. PICK j \in Keys, r \in Starts :
           /\ j = keyOf[c] /\ r = instances[j]
           /\ c \in StartsOf(j)
           /\ status[r] = "running" /\ issued[c] = generation[r]
           /\ child[c] = "exited" /\ stage[d] = "unused"
           /\ status' = [status EXCEPT ![r] = "starting"]
           /\ process' = [process EXCEPT ![r] = None]
           /\ generation' = [generation EXCEPT ![r] = @ + 1]
           /\ inflight' = [inflight EXCEPT ![r] = d]
           /\ stage' = [stage EXCEPT ![d] = "sleeping"]
           /\ keyOf' = [keyOf EXCEPT ![d] = j]
           /\ issued' = [issued EXCEPT ![d] = generation[r] + 1]
           /\ cause' = [cause EXCEPT ![d] = "exit"]
           /\ child' = [child EXCEPT ![c] = "reported"]
           /\ UNCHANGED <<instances, record, answered, retiring, raced, missed, calls>>
  BY ONLY TypeOK, Shape, <1>a, ExitRestarts(c, stable, d), stable \in BOOLEAN, d \in Starts,
          RestartEffect
<1>2. /\ r = instances[k] /\ r # None /\ instances'[k] = r
      /\ status'[r] = "starting" /\ generation'[r] = generation[r] + 1
      /\ generation[r] \in Nat /\ inflight'[r] = d
      /\ stage'[d] = "sleeping" /\ issued'[d] = generation[r] + 1
      /\ StartsOf(k)' = StartsOf(k) \cup {d} /\ d \notin StartsOf(k) /\ d # r
      /\ child[d] = "none"
      /\ \A e \in Starts : e # r => status'[e] = status[e]
      /\ \A e \in Starts : child'[e] \in {"alive", "exited"} => child'[e] = child[e]
      /\ \A e \in StartsOf(k) : stage'[e] = stage[e] /\ issued'[e] = issued[e]
                                /\ issued[e] \in Nat
  <2>1. /\ instances \in [Keys -> Starts \cup {None}] /\ status \in [Starts -> Statuses]
        /\ generation \in [Starts -> Nat] /\ inflight \in [Starts -> Starts \cup {None}]
        /\ stage \in [Starts -> Stages] /\ keyOf \in [Starts -> Keys \cup {None}]
        /\ issued \in [Starts -> Nat] /\ child \in [Starts -> Children]
    BY DEF TypeOK, Records
  <2>2. child[d] = "none" /\ status[d] = "stopped"
    BY <1>1 DEF Shape, UnusedIsBlank
  <2> QED
    BY <1>a, <1>1, <2>1, <2>2 DEF StartsOf
<1>3. \A e \in StartsOf(k) : child[e] # "alive"
  BY <1>1, CrashedIsProcess DEF ExitRestarts
<1>4. k \notin retiring
  BY DEF ExitRestarts, Reported, NewTask
<1>5. \A e \in StartsOf(k) : e \in Members(k)' => e \in Members(k)
  BY <1>1, <1>2 DEF Members
<1>6. \A e \in StartsOf(k) : e \in Members(k)' => issued[e] <= generation[r]
  BY <1>2, <1>5 DEF KeyInv, GenerationsApart
<1>7. ForgottenIsStopped(k)'
  <2>1. status[d] = "stopped"
    BY <1>1 DEF Shape, UnusedIsBlank
  <2> QED
    BY <1>2, <2>1 DEF KeyInv, ForgottenIsStopped, StartsOf
<1>8. GenerationsApart(k)'
  <2> SUFFICES ASSUME NEW e \in Members(k)', NEW f \in Members(k)'
               PROVE  /\ issued'[e] <= generation'[r]
                      /\ issued'[e] = issued'[f] => e = f
    BY <1>2 DEF GenerationsApart
  <2>1. e \in StartsOf(k) \cup {d} /\ f \in StartsOf(k) \cup {d}
    BY <1>2 DEF Members
  <2>2. CASE e = d \/ f = d
    BY <1>2, <1>6, <2>1, <2>2
  <2>3. CASE e # d /\ f # d
    BY <1>2, <1>5, <2>1, <2>3 DEF KeyInv, GenerationsApart
  <2> QED
    BY <2>2, <2>3
<1>9. NoLeftovers(k)' /\ AliveIsNamed(k)'
  <2>1. \A e \in StartsOf(k)' : child'[e] \in {"alive", "exited"} =>
          e \in StartsOf(k) /\ e \in Starts /\ child[e] = child'[e]
    BY <1>2 DEF StartsOf
  <2>2. NoLeftovers(k)'
    BY <1>1, <1>2, <2>1 DEF KeyInv, NoLeftovers
  <2>3. AliveIsNamed(k)'
    BY <1>3, <2>1 DEF AliveIsNamed
  <2> QED
    BY <2>2, <2>3
<1>10. StartingHasStart(k)'
  BY <1>2 DEF StartingHasStart, Able
<1>11. ProbedIsNamed(k)'
  <2> SUFFICES ASSUME NEW e \in StartsOf(k)', stage'[e] = "probing", record'[e] = r,
                      issued'[e] = generation'[r]
               PROVE  FALSE
    BY <1>2 DEF ProbedIsNamed
  <2>1. e \in StartsOf(k) /\ e \in Members(k)'
    BY <1>2 DEF Members
  <2> QED
    BY <1>2, <1>6, <2>1
<1>12. RunningHasChild(k)' /\ RetiringIsStopped(k)'
  BY <1>1, <1>2, <1>4 DEF RunningHasChild, RetiringIsStopped
<1> QED
  BY <1>7, <1>8, <1>9, <1>10, <1>11, <1>12 DEF KeyInv

(* A stop or a retirement keeps KeyInv of its key.                            *)
LEMMA StopStep ==
  ASSUME TypeOK, Shape, NEW k \in Keys, KeyInv(k), Stop(k) \/ Retire(k)
  PROVE  KeyInv(k)'
<1> USE ProviderHostAssumption
<1>1. PICK r \in Starts :
           /\ r = instances[k]
           /\ status' = [status EXCEPT ![r] = "stopped"]
           /\ generation' = [generation EXCEPT ![r] = @ + 1]
           /\ inflight' = [inflight EXCEPT ![r] = None]
           /\ process' = [process EXCEPT ![r] = None]
           /\ Kill(process[r])
           /\ retiring \subseteq retiring' /\ retiring' \subseteq retiring \cup {k}
           /\ UNCHANGED <<instances, starts, answered, raced, missed>>
  BY ONLY TypeOK, k \in Keys, Stop(k) \/ Retire(k), StopEffect
<1>2. /\ instances'[k] = r /\ r # None /\ status'[r] = "stopped"
      /\ generation[r] \in Nat /\ generation'[r] = generation[r] + 1
      /\ \A d \in Starts : d # r => status'[d] = status[d]
      /\ StartsOf(k)' = StartsOf(k) /\ Members(k)' = Members(k)
      /\ Members(k) \subseteq StartsOf(k) /\ StartsOf(k) \subseteq Starts
      /\ \A d \in Starts : issued'[d] = issued[d] /\ issued[d] \in Nat
      /\ record' = record
  BY <1>1 DEF StartsOf, Members, TypeOK, Records, starts
<1>3. \A d \in StartsOf(k) : child'[d] # "alive"
  BY <1>1, <1>2 DEF KeyInv, AliveIsNamed, Kill, StartsOf
<1>4. \A d \in StartsOf(k) : child'[d] \in {"alive", "exited"} => child[d] \in {"alive", "exited"}
  BY <1>1, <1>2 DEF Kill
<1>5. ForgottenIsStopped(k)' /\ RetiringIsStopped(k)'
  BY <1>1, <1>2 DEF KeyInv, ForgottenIsStopped, RetiringIsStopped
<1>6. GenerationsApart(k)'
  <2> SUFFICES ASSUME NEW c \in Members(k), NEW d \in Members(k)
               PROVE  /\ issued'[c] <= generation'[r]
                      /\ issued'[c] = issued'[d] => c = d
    BY <1>2 DEF GenerationsApart
  <2>1. issued[c] <= generation[r] /\ (issued[c] = issued[d] => c = d)
    BY <1>1, <1>2 DEF KeyInv, GenerationsApart
  <2>2. c \in Starts /\ d \in Starts
    BY <1>2
  <2> QED
    BY <1>2, <2>1, <2>2
<1>7. NoLeftovers(k)' /\ AliveIsNamed(k)'
  BY <1>1, <1>2, <1>3, <1>4 DEF KeyInv, NoLeftovers, AliveIsNamed
<1>8. StartingHasStart(k)' /\ ProbedIsNamed(k)' /\ RunningHasChild(k)'
  BY <1>2 DEF StartingHasStart, ProbedIsNamed, RunningHasChild
<1> QED
  BY <1>5, <1>6, <1>7, <1>8 DEF KeyInv

(* A removal from the map keeps KeyInv of its key.                            *)
LEMMA ForgetStep ==
  ASSUME TypeOK, Shape, NEW k \in Keys, KeyInv(k), Forget(k)
  PROVE  KeyInv(k)'
<1>1. /\ instances'[k] = None /\ k \notin retiring' /\ status[instances[k]] = "stopped"
      /\ UNCHANGED <<status, process, generation, stage, keyOf, issued, record, child>>
      /\ StartsOf(k)' = StartsOf(k)
  BY DEF Forget, KeyInv, RetiringIsStopped, fields, starts, StartsOf, TypeOK
<1>2. \A c \in StartsOf(k) : child[c] # "alive" /\ status[c] = "stopped"
  BY <1>1 DEF KeyInv, AliveIsNamed, ForgottenIsStopped
<1>3. ForgottenIsStopped(k)' /\ AliveIsNamed(k)'
  BY <1>1, <1>2 DEF ForgottenIsStopped, AliveIsNamed
<1>4. GenerationsApart(k)' /\ NoLeftovers(k)' /\ StartingHasStart(k)' /\ RunningHasChild(k)'
      /\ RetiringIsStopped(k)'
  BY <1>1 DEF GenerationsApart, NoLeftovers, StartingHasStart, RunningHasChild, RetiringIsStopped
<1>5. ProbedIsNamed(k)'
  BY <1>1 DEF ProbedIsNamed, Shape, StartsHaveRecords, StartsOf
<1> QED
  BY <1>3, <1>4, <1>5 DEF KeyInv

-----------------------------------------------------------------------------
(* The invariant is inductive.                                                *)

(* What an action on key k writes to belongs to k.                            *)
LEMMA OnlyItsKey ==
  ASSUME TypeOK, Shape, NEW k \in Keys,
         UNCHANGED <<keyOf, issued>>,
         \A j \in Keys \ {k} : instances'[j] = instances[j],
         retiring' \subseteq retiring \cup {k}, missed \subseteq missed',
         \A c \in Starts : stage[c] = "unused" => stage'[c] = "unused",
         \A c \in Starts \ StartsOf(k) :
           /\ stage'[c] = stage[c] /\ record'[c] = record[c] /\ child'[c] = child[c]
           /\ status'[c] = status[c] /\ generation'[c] = generation[c]
           /\ process'[c] = process[c] /\ inflight'[c] = inflight[c],
         \A c \in StartsOf(k) : stage'[c] # "unused"
  PROVE  Only(k)
BY DEF Only, Same, StartsOf

(* A start, its record and the child named there have one key.                *)
LEMMA KeyOfStart ==
  ASSUME TypeOK, Shape, NEW c \in Starts, stage[c] # "unused"
  PROVE  /\ keyOf[c] \in Keys /\ c \in StartsOf(keyOf[c])
         /\ record[c] # None => record[c] \in StartsOf(keyOf[c])
         /\ instances[keyOf[c]] # None => instances[keyOf[c]] \in StartsOf(keyOf[c])
         /\ process[c] # None => process[c] \in StartsOf(keyOf[c])
BY DEF Shape, StartsHaveKeys, StartsHaveRecords, MapIsOfKeys, ProcessesAreOfKeys, StartsOf

(* Each action writes to one key only: asking for a start,                    *)
LEMMA EnsureOnly ==
  ASSUME TypeOK, Shape, NEW k \in Keys, NEW c \in Starts, EnsureRunning(k, c)
  PROVE  Only(k)
<1> USE ProviderHostAssumption
<1>1. PICK r \in Starts :
           /\ r = IF instances[k] = None THEN c ELSE instances[k]
           /\ stage[c] = "unused"
           /\ instances' = [instances EXCEPT ![k] = r]
           /\ status' = [status EXCEPT ![r] = "starting"]
           /\ generation' = [generation EXCEPT ![r] = @ + 1]
           /\ inflight' = [inflight EXCEPT ![r] = c]
           /\ stage' = [stage EXCEPT ![c] = "launching"]
           /\ keyOf' = [keyOf EXCEPT ![c] = k]
           /\ issued' = [issued EXCEPT ![c] = generation[r] + 1]
           /\ record' = [record EXCEPT ![c] = r]
           /\ cause' = [cause EXCEPT ![c] = "ensure"]
           /\ raced' = IF k \in retiring \/ (instances[k] = None /\ Leftovers(k) # {})
                       THEN raced \cup {k} ELSE raced
           /\ instances[k] # None =>
                ~(status[r] = "running" /\ process[r] # None) /\ inflight[r] = None
           /\ UNCHANGED <<process, restarts, child, answered, retiring, missed>>
  BY ONLY TypeOK, k \in Keys, c \in Starts, EnsureRunning(k, c), EnsureEffect
<1>2. r = c \/ r \in StartsOf(k)
  BY <1>1 DEF Shape, MapIsOfKeys
<1>3. c \in StartsOf(k)' /\ (r \in StartsOf(k) => r \in StartsOf(k)')
  BY <1>1 DEF StartsOf, TypeOK
<1>4. \A d \in Starts : d # c /\ d # r => Same(d)
  BY <1>1 DEF Same, TypeOK, Records
<1>5. \A j \in Keys \ {k} : instances'[j] = instances[j]
  BY <1>1 DEF TypeOK
<1> QED
  BY <1>1, <1>2, <1>3, <1>4, <1>5 DEF Only

(* the steps of a start and of its child,                                     *)
LEMMA StartOnly ==
  ASSUME TypeOK, Shape, NEW c \in Starts,
         \/ Wake(c) \/ LaunchFails(c) \/ Spawn(c) \/ Ready(c) \/ NotReady(c)
         \/ ClearInflight(c) \/ Answers(c) \/ Exits(c) \/ ExitIgnored(c)
  PROVE  stage[c] # "unused" /\ Only(keyOf[c])
<1> DEFINE k == keyOf[c]
<1>1. stage[c] # "unused"
  BY DEF Wake, LaunchFails, Spawn, Ready, NotReady, ClearInflight, Answers, Exits,
         ExitIgnored, Reported, Shape, UnusedIsBlank
<1>2. /\ k \in Keys /\ c \in StartsOf(k)
      /\ record[c] # None => record[c] \in StartsOf(k)
      /\ instances[k] # None => instances[k] \in StartsOf(k)
  BY <1>1, KeyOfStart
<1>3. /\ UNCHANGED <<keyOf, issued, instances, retiring, generation>>
      /\ missed \subseteq missed'
  BY DEF Wake, LaunchFails, Spawn, Ready, NotReady, ClearInflight, Answers, Exits,
         ExitIgnored, fields, starts
<1>4. \A d \in Starts : d # c => stage'[d] = stage[d] /\ record'[d] = record[d]
                                 /\ child'[d] = child[d]
  BY DEF Wake, LaunchFails, Spawn, Ready, NotReady, ClearInflight, Answers, Exits,
         ExitIgnored, Reported, Settle, Kill, fields, starts, TypeOK
<1>5. stage'[c] # "unused"
  BY <1>1 DEF Wake, LaunchFails, Spawn, Ready, NotReady, ClearInflight, Answers, Exits,
         ExitIgnored, Settle, fields, starts, TypeOK
<1>6. stage[c] \in {"launching", "probing"} => record[c] # None
  BY DEF Shape, StartsHaveRecords
<1>7. \A d \in Starts \ StartsOf(k) :
        status'[d] = status[d] /\ process'[d] = process[d] /\ inflight'[d] = inflight[d]
  <2> SUFFICES ASSUME NEW d \in Starts \ StartsOf(k)
               PROVE  status'[d] = status[d] /\ process'[d] = process[d]
                      /\ inflight'[d] = inflight[d]
    OBVIOUS
  <2>1. CASE LaunchFails(c) \/ Spawn(c) \/ Ready(c) \/ NotReady(c)
    <3>1. d # record[c]
      BY <1>2, <1>6, <2>1 DEF LaunchFails, Spawn, Ready, NotReady
    <3> QED
      BY <2>1, <3>1 DEF LaunchFails, Spawn, Ready, NotReady, Fail, TypeOK, Records
  <2>2. CASE ClearInflight(c)
    <3>1. cause[c] = "ensure" => record[c] # None
      BY <2>2 DEF ClearInflight, Shape, StartsHaveRecords
    <3> QED
      BY <1>2, <2>2, <3>1 DEF ClearInflight, Clear, TypeOK, Records
  <2>3. CASE Wake(c) \/ Answers(c) \/ Exits(c) \/ ExitIgnored(c)
    BY <2>3 DEF Wake, Answers, Exits, ExitIgnored, fields
  <2> QED
    BY <2>1, <2>2, <2>3
<1>8. \A d \in StartsOf(k) : stage'[d] # "unused"
  BY <1>4, <1>5 DEF StartsOf
<1>9. \A d \in Starts : d \notin StartsOf(k) => d # c
  BY <1>2
<1>10. Only(k)
  <2>1. \A d \in Starts : stage[d] = "unused" => stage'[d] = "unused"
    BY <1>1, <1>4
  <2>2. \A d \in Starts \ StartsOf(k) :
          /\ stage'[d] = stage[d] /\ record'[d] = record[d] /\ child'[d] = child[d]
          /\ status'[d] = status[d] /\ generation'[d] = generation[d]
          /\ process'[d] = process[d] /\ inflight'[d] = inflight[d]
    BY <1>3, <1>4, <1>7, <1>9
  <2> QED
    BY <1>2, <1>3, <1>8, <2>1, <2>2, OnlyItsKey
<1> QED
  BY <1>1, <1>10

(* a crash with no restart left,                                              *)
LEMMA ExhaustOnly ==
  ASSUME TypeOK, Shape, NEW c \in Starts, NEW stable \in BOOLEAN, ExitExhausts(c, stable)
  PROVE  stage[c] # "unused" /\ Only(keyOf[c])
<1>1. PICK k \in Keys, r \in Starts :
           /\ k = keyOf[c] /\ r = instances[k]
           /\ c \in StartsOf(k)
           /\ status[r] = "running" /\ issued[c] = generation[r]
           /\ child[c] = "exited"
           /\ status' = [status EXCEPT ![r] = "failed"]
           /\ process' = [process EXCEPT ![r] = None]
           /\ child' = [child EXCEPT ![c] = "reported"]
           /\ UNCHANGED <<instances, generation, inflight, starts, answered, retiring,
                          raced, missed, calls>>
  BY ExhaustEffect
<1>2. r \in StartsOf(k)
  BY <1>1, ProviderHostAssumption DEF Shape, MapIsOfKeys
<1>3. \A d \in Starts \ StartsOf(k) :
        /\ stage'[d] = stage[d] /\ record'[d] = record[d] /\ child'[d] = child[d]
        /\ status'[d] = status[d] /\ generation'[d] = generation[d]
        /\ process'[d] = process[d] /\ inflight'[d] = inflight[d]
  BY <1>1, <1>2 DEF starts, TypeOK, Records
<1>4. /\ UNCHANGED <<keyOf, issued, instances, retiring, missed, stage>>
      /\ stage[c] # "unused"
  BY <1>1 DEF starts, StartsOf
<1>5. \A d \in StartsOf(k) : stage'[d] # "unused"
  BY <1>4 DEF StartsOf
<1> QED
  BY <1>1, <1>3, <1>4, <1>5, OnlyItsKey

(* a crash that is restarted,                                                 *)
LEMMA RestartOnly ==
  ASSUME TypeOK, Shape, NEW c \in Starts, NEW stable \in BOOLEAN, NEW d \in Starts,
         ExitRestarts(c, stable, d)
  PROVE  stage[c] # "unused" /\ Only(keyOf[c])
<1>1. PICK k \in Keys, r \in Starts :
           /\ k = keyOf[c] /\ r = instances[k]
           /\ c \in StartsOf(k)
           /\ status[r] = "running" /\ issued[c] = generation[r]
           /\ child[c] = "exited" /\ stage[d] = "unused"
           /\ status' = [status EXCEPT ![r] = "starting"]
           /\ process' = [process EXCEPT ![r] = None]
           /\ generation' = [generation EXCEPT ![r] = @ + 1]
           /\ inflight' = [inflight EXCEPT ![r] = d]
           /\ stage' = [stage EXCEPT ![d] = "sleeping"]
           /\ keyOf' = [keyOf EXCEPT ![d] = k]
           /\ issued' = [issued EXCEPT ![d] = generation[r] + 1]
           /\ cause' = [cause EXCEPT ![d] = "exit"]
           /\ child' = [child EXCEPT ![c] = "reported"]
           /\ UNCHANGED <<instances, record, answered, retiring, raced, missed, calls>>
  BY RestartEffect
<1>2. r \in StartsOf(k)
  BY <1>1, ProviderHostAssumption DEF Shape, MapIsOfKeys
<1>3. {c, d, r} \subseteq StartsOf(k)' /\ stage[c] # "unused"
  BY <1>1, <1>2 DEF StartsOf, TypeOK
<1>4. \A e \in Starts : e \notin {c, d, r} => Same(e)
  BY <1>1 DEF Same, TypeOK, Records
<1> QED
  BY <1>1, <1>2, <1>3, <1>4 DEF Only

(* a stop or a retirement,                                                    *)
LEMMA StopOnly ==
  ASSUME TypeOK, Shape, NEW k \in Keys, Stop(k) \/ Retire(k)
  PROVE  Only(k)
<1>1. PICK r \in Starts :
           /\ r = instances[k]
           /\ status' = [status EXCEPT ![r] = "stopped"]
           /\ generation' = [generation EXCEPT ![r] = @ + 1]
           /\ inflight' = [inflight EXCEPT ![r] = None]
           /\ process' = [process EXCEPT ![r] = None]
           /\ Kill(process[r])
           /\ retiring \subseteq retiring' /\ retiring' \subseteq retiring \cup {k}
           /\ UNCHANGED <<instances, starts, answered, raced, missed>>
  BY StopEffect
<1>2. r \in StartsOf(k)
  BY <1>1, ProviderHostAssumption DEF Shape, MapIsOfKeys
<1>3. process[r] \in Starts => process[r] \in StartsOf(k)
  BY <1>2, KeyOfStart, ProviderHostAssumption DEF StartsOf
<1>4. \A d \in Starts \ StartsOf(k) :
        /\ stage'[d] = stage[d] /\ record'[d] = record[d] /\ child'[d] = child[d]
        /\ status'[d] = status[d] /\ generation'[d] = generation[d]
        /\ process'[d] = process[d] /\ inflight'[d] = inflight[d]
  BY <1>1, <1>2, <1>3 DEF starts, Kill, TypeOK, Records
<1>5. /\ UNCHANGED <<keyOf, issued, instances, missed, stage>>
      /\ retiring' \subseteq retiring \cup {k}
  BY <1>1 DEF starts
<1>6. \A d \in StartsOf(k) : stage'[d] # "unused"
  BY <1>5 DEF StartsOf
<1> QED
  BY <1>4, <1>5, <1>6, OnlyItsKey

(* and a removal from the map.                                                *)
LEMMA ForgetOnly ==
  ASSUME TypeOK, Shape, NEW k \in Keys, Forget(k)
  PROVE  Only(k)
BY OnlyItsKey DEF Forget, fields, starts, StartsOf, TypeOK

(* A key that was raced stays so: fewer keys are left to speak of.            *)
LEMMA RacedGrows ==
  ASSUME [Next]_vars
  PROVE  raced \subseteq raced'
BY DEF Next, vars, EnsureRunning, Wake, LaunchFails, Spawn, Ready, NotReady, ClearInflight,
       Answers, Exits, ExitIgnored, ExitExhausts, ExitRestarts, Stop, Retire, StopInstance, Forget

(* Every step keeps KeyInv of every key that is not raced.                    *)
LEMMA KeyInvInductive ==
  ASSUME HostInv, [Next]_vars, NEW j \in Keys \ raced'
  PROVE  KeyInv(j)'
<1>1. TypeOK /\ Shape /\ KeyInv(j)
  BY RacedGrows DEF HostInv
<1>2. ASSUME NEW k \in Keys, Only(k), k # j PROVE KeyInv(j)'
  BY <1>1, <1>2, Elsewhere
<1>3. ASSUME NEW k \in Keys, NEW c \in Starts, EnsureRunning(k, c) PROVE KeyInv(j)'
  BY <1>1, <1>2, <1>3, EnsureOnly, EnsureStep
<1>4. ASSUME NEW c \in Starts,
             \/ Wake(c) \/ LaunchFails(c) \/ Spawn(c) \/ Ready(c) \/ NotReady(c)
             \/ ClearInflight(c) \/ Answers(c) \/ Exits(c) \/ ExitIgnored(c)
      PROVE  KeyInv(j)'
  <2>1. keyOf[c] \in Keys /\ c \in StartsOf(keyOf[c]) /\ Only(keyOf[c])
    BY <1>1, <1>4, StartOnly, KeyOfStart
  <2>2. CASE keyOf[c] # j
    BY <1>2, <2>1, <2>2
  <2>3. CASE keyOf[c] = j
    BY <1>1, <1>4, <2>1, <2>3, WakeStep, LaunchStep, SpawnStep, ClearStep, ChildStep
  <2> QED
    BY <2>2, <2>3
<1>5. ASSUME NEW c \in Starts, NEW stable \in BOOLEAN, ExitExhausts(c, stable)
      PROVE  KeyInv(j)'
  <2>1. keyOf[c] \in Keys /\ c \in StartsOf(keyOf[c]) /\ Only(keyOf[c])
    BY <1>1, <1>5, ExhaustOnly, KeyOfStart
  <2>2. CASE keyOf[c] # j
    BY <1>2, <2>1, <2>2
  <2>3. CASE keyOf[c] = j
    BY <1>1, <1>5, <2>1, <2>3, ExhaustStep
  <2> QED
    BY <2>2, <2>3
<1>6. ASSUME NEW c \in Starts, NEW stable \in BOOLEAN, NEW d \in Starts,
             ExitRestarts(c, stable, d)
      PROVE  KeyInv(j)'
  <2>1. keyOf[c] \in Keys /\ c \in StartsOf(keyOf[c]) /\ Only(keyOf[c])
    BY <1>1, <1>6, RestartOnly, KeyOfStart
  <2>2. CASE keyOf[c] # j
    BY <1>2, <2>1, <2>2
  <2>3. CASE keyOf[c] = j
    BY <1>1, <1>6, <2>1, <2>3, RestartStep
  <2> QED
    BY <2>2, <2>3
<1>7. ASSUME NEW k \in Keys, Stop(k) \/ Retire(k) PROVE KeyInv(j)'
  BY <1>1, <1>2, <1>7, StopOnly, StopStep
<1>8. ASSUME NEW k \in Keys, Forget(k) PROVE KeyInv(j)'
  BY <1>1, <1>2, <1>8, ForgetOnly, ForgetStep
<1>9. CASE UNCHANGED vars
  BY <1>1, <1>9
  DEF vars, fields, starts, KeyInv, ForgottenIsStopped, GenerationsApart, NoLeftovers,
      AliveIsNamed, StartingHasStart, ProbedIsNamed, RunningHasChild, RetiringIsStopped,
      Members, Able, StartsOf, Watched
<1> QED
  BY <1>3, <1>4, <1>5, <1>6, <1>7, <1>8, <1>9 DEF Next

(* Every step keeps the invariant.                                            *)
LEMMA HostInvInductive == HostInv /\ [Next]_vars => HostInv'
BY TypeInductive, ShapeInductive, KeyInvInductive DEF HostInv

(* In every reachable state starts, records and children fit together: at     *)
(* most one start of a key can still write to its record (host.ts).           *)
THEOREM HostInvariant == Spec => []HostInv
<1>1. Init => HostInv
  BY HostInvInit
<1>2. HostInv /\ [Next]_vars => HostInv'
  BY HostInvInductive
<1> QED
  BY <1>1, <1>2, PTL DEF Spec

-----------------------------------------------------------------------------
(* The properties the runs check, for every value of the constants.           *)

(* Every field of the host keeps its type; the restart budget is kept in it   *)
(* (host.ts Instance and onExit).                                             *)
THEOREM TypeCorrect == Spec => []TypeOK
<1>1. HostInv => TypeOK
  BY DEF HostInv
<1> QED
  BY <1>1, HostInvariant, PTL

(* No child is alive that the record of its key does not name, so that stop   *)
(* and stopAll reach every child (host.ts 162 and 489-506).                   *)
THEOREM NoChildIsOrphaned == Spec => []NoOrphan
<1>1. HostInv => NoOrphan
  BY DEF HostInv, KeyInv, AliveIsNamed, NoOrphan, NoOrphanOf
<1> QED
  BY <1>1, HostInvariant, PTL

(* A starting key has one start that can commit, the one callers join         *)
(* (host.ts ensureRunning and startOnce).                                     *)
THEOREM OneStartCommits == Spec => []OneStart
<1>1. ASSUME HostInv, NEW k \in Keys \ raced, instances[k] # None,
             status[instances[k]] = "starting"
      PROVE  Able(k) = {inflight[instances[k]]}
  <2>1. KeyInv(k) /\ inflight[instances[k]] \in Able(k)
    BY <1>1 DEF HostInv, KeyInv, StartingHasStart
  <2>2. \A c \in Able(k) : c \in Members(k) /\ issued[c] = generation[instances[k]]
    BY DEF Able, Members
  <2> QED
    BY <1>1, <2>1, <2>2, OnlyOneCurrent
<1>2. HostInv => OneStart
  BY <1>1 DEF OneStart, Able, Stale
<1> QED
  BY <1>2, HostInvariant, PTL

(* A running key has a child whose exit is still to be handled, unless it was *)
(* handled before the answer of its probe (host.ts 317-319 and 377).          *)
THEOREM RunningWatched == Spec => []RunningIsWatched
<1>1. HostInv => RunningIsWatched
  BY ProviderHostAssumption
  DEF HostInv, KeyInv, RunningHasChild, RunningIsWatched, Status, Watched, StartsOf
<1> QED
  BY <1>1, HostInvariant, PTL

(* A stop is undone only by a start that was asked for later, under a         *)
(* generation of its own (host.ts stop, 489-506).                             *)
THEOREM StopsAreFinal == Spec => StopIsFinal
<1>1. ASSUME HostInv, [Next]_vars, NEW r \in Records, status[r] = "stopped",
             status'[r] # "stopped"
      PROVE  status'[r] = "starting" /\ \E c \in Starts : Fresh(c) /\ inflight'[r] = c
  <2>1. TypeOK /\ Shape /\ r \in Starts
    BY <1>1 DEF HostInv, Records
  <2>2. CASE \E k \in Keys, c \in Starts : EnsureRunning(k, c)
    <3>1. PICK k \in Keys, c \in Starts : EnsureRunning(k, c)
      BY <2>2
    <3>2. PICK q \in Starts :
            /\ status' = [status EXCEPT ![q] = "starting"]
            /\ inflight' = [inflight EXCEPT ![q] = c]
      BY <2>1, <3>1, EnsureEffect
    <3>3. q = r /\ status'[r] = "starting" /\ inflight'[r] = c
      BY <1>1, <2>1, <3>2 DEF TypeOK, Records
    <3> QED
      BY <3>1, <3>3 DEF EnsureRunning
  <2>3. ASSUME NEW c \in Starts, Fail(record[c], issued[c]) \/ Ready(c) PROVE FALSE
    <3>1. CASE Stale(record[c], issued[c])
      BY <1>1, <2>3, <3>1 DEF Fail, Ready
    <3>2. CASE ~Stale(record[c], issued[c])
      BY <1>1, <2>1, <2>3, <3>2 DEF Fail, Ready, Stale, TypeOK, Records
    <3> QED
      BY <3>1, <3>2
  <2>4. ASSUME NEW c \in Starts, NEW stable \in BOOLEAN, ExitExhausts(c, stable) PROVE FALSE
    <3>1. PICK q \in Starts : /\ status[q] = "running"
                              /\ status' = [status EXCEPT ![q] = "failed"]
      BY <2>1, <2>4, ExhaustEffect
    <3> QED
      BY <1>1, <2>1, <3>1 DEF TypeOK, Records
  <2>5. ASSUME NEW c \in Starts, NEW stable \in BOOLEAN, NEW d \in Starts,
               ExitRestarts(c, stable, d)
        PROVE  FALSE
    <3>1. PICK q \in Starts : /\ status[q] = "running"
                              /\ status' = [status EXCEPT ![q] = "starting"]
      BY <2>1, <2>5, RestartEffect
    <3> QED
      BY <1>1, <2>1, <3>1 DEF TypeOK, Records
  <2>6. ASSUME NEW k \in Keys, Stop(k) \/ Retire(k) PROVE FALSE
    <3>1. PICK q \in Starts : status' = [status EXCEPT ![q] = "stopped"]
      BY <2>1, <2>6, StopEffect
    <3> QED
      BY <1>1, <2>1, <3>1 DEF TypeOK, Records
  <2>7. ASSUME UNCHANGED status PROVE FALSE
    BY <1>1, <2>7
  <2>8. ASSUME NEW c \in Starts,
               \/ Wake(c) \/ Spawn(c) \/ ClearInflight(c) \/ Answers(c) \/ Exits(c)
               \/ ExitIgnored(c)
        PROVE  FALSE
    BY <2>7, <2>8 DEF Wake, Spawn, ClearInflight, Answers, Exits, ExitIgnored, fields
  <2>9. ASSUME NEW c \in Starts, LaunchFails(c) \/ NotReady(c) PROVE FALSE
    BY <2>3, <2>9 DEF LaunchFails, NotReady
  <2>10. ASSUME NEW k \in Keys, Forget(k) PROVE FALSE
    BY <2>7, <2>10 DEF Forget, fields
  <2>11. CASE UNCHANGED vars
    BY <2>7, <2>11 DEF vars, fields
  <2> QED
    BY <1>1, <2>2, <2>3, <2>4, <2>5, <2>6, <2>8, <2>9, <2>10, <2>11 DEF Next
<1>2. HostInv /\ [Next]_vars => [StopHolds]_vars
  BY <1>1 DEF StopHolds
<1> QED
  BY <1>2, HostInvariant, PTL DEF Spec, StopIsFinal

(* A start that a stop or a newer start has superseded writes nothing and     *)
(* leaves no child (host.ts startOnce, its checks after each await).          *)
THEOREM SupersededIsInert == Spec => StaleStartsAreInert
<1>1. ASSUME HostInv, [Next]_vars, NEW c \in Starts, stage[c] \in {"launching", "probing"},
             stage'[c] = "settled", issued[c] # generation[record[c]]
      PROVE  UNCHANGED <<fields, instances>> /\ child'[c] # "alive"
  <2>1. TypeOK /\ Shape /\ Stale(record[c], issued[c])
    BY <1>1 DEF HostInv, Stale
  <2>2. stage[c] = "launching" => child[c] # "alive"
    BY <2>1 DEF Shape, StartsHaveRecords
  <2>3. ASSUME NEW k \in Keys, NEW d \in Starts, EnsureRunning(k, d) PROVE FALSE
    BY <1>1, <2>1, <2>3 DEF EnsureRunning, TypeOK
  <2>4. ASSUME NEW d \in Starts, Wake(d) \/ ClearInflight(d) PROVE FALSE
    BY <1>1, <2>1, <2>4 DEF Wake, ClearInflight, Settle, TypeOK
  <2>5. ASSUME NEW d \in Starts, LaunchFails(d) \/ Spawn(d) \/ Ready(d) \/ NotReady(d)
        PROVE  UNCHANGED <<fields, instances>> /\ child'[c] # "alive"
    <3>1. d = c
      BY <1>1, <2>1, <2>5 DEF LaunchFails, Spawn, Ready, NotReady, Settle, TypeOK
    <3>2. UNCHANGED <<fields, instances>>
      BY <2>1, <2>5, <3>1 DEF LaunchFails, Spawn, Ready, NotReady, Fail, fields
    <3>3. child'[c] # "alive"
      BY <2>1, <2>2, <2>5, <3>1 DEF LaunchFails, Spawn, Ready, NotReady, Kill, TypeOK
    <3> QED
      BY <3>2, <3>3
  <2>6. ASSUME UNCHANGED stage PROVE FALSE
    BY <1>1, <2>6
  <2>7. ASSUME NEW d \in Starts, Answers(d) \/ Exits(d) \/ ExitIgnored(d) PROVE FALSE
    BY <2>6, <2>7 DEF Answers, Exits, ExitIgnored, starts
  <2>8. ASSUME NEW d \in Starts, NEW stable \in BOOLEAN,
               ExitExhausts(d, stable) \/ \E e \in Starts : ExitRestarts(d, stable, e)
        PROVE  FALSE
    BY <1>1, <2>1, <2>6, <2>8 DEF ExitExhausts, ExitRestarts, starts, TypeOK
  <2>9. ASSUME NEW k \in Keys, Stop(k) \/ Retire(k) \/ Forget(k) PROVE FALSE
    BY <2>6, <2>9 DEF Stop, Retire, StopInstance, Forget, starts
  <2>10. CASE UNCHANGED vars
    BY <2>6, <2>10 DEF vars, starts
  <2> QED
    BY <1>1, <2>3, <2>4, <2>5, <2>7, <2>8, <2>9, <2>10 DEF Next
<1>2. HostInv /\ [Next]_vars => [SupersededWritesNothing]_vars
  BY <1>1 DEF SupersededWritesNothing
<1> QED
  BY <1>2, HostInvariant, PTL DEF Spec, StaleStartsAreInert

(* The exit of a child that is not the instance's own changes no instance     *)
(* (host.ts onExit, 378).                                                     *)
THEOREM CrashesAreOwn == Spec => CrashesAreItsOwn
<1>1. ASSUME HostInv, [Next]_vars, NEW k \in Keys \ raced, NEW c \in StartsOf(k),
             child[c] = "exited", child'[c] = "reported", instances[k] # None,
             process[instances[k]] # c
      PROVE  UNCHANGED fields
  <2>1. TypeOK /\ Shape /\ KeyInv(k) /\ c \in Starts /\ keyOf[c] = k
    BY <1>1 DEF HostInv, StartsOf
  <2>2. ~IsCrash(c)
    BY <1>1, <2>1, CrashedIsProcess
  <2>3. ASSUME NEW d \in Starts, ExitIgnored(d) PROVE UNCHANGED fields
    BY <2>3 DEF ExitIgnored
  <2>4. ASSUME NEW d \in Starts, NEW stable \in BOOLEAN,
               ExitExhausts(d, stable) \/ \E e \in Starts : ExitRestarts(d, stable, e)
        PROVE  FALSE
    BY <1>1, <2>1, <2>2, <2>4 DEF ExitExhausts, ExitRestarts, Reported, TypeOK
  <2>5. ASSUME UNCHANGED child PROVE FALSE
    BY <1>1, <2>5
  <2>6. ASSUME NEW e, Kill(e) PROVE FALSE
    BY <1>1, <2>1, <2>6 DEF Kill
  <2>7. ASSUME NEW j \in Keys, NEW d \in Starts, EnsureRunning(j, d) PROVE FALSE
    BY <2>5, <2>7 DEF EnsureRunning
  <2>8. ASSUME NEW d \in Starts,
               \/ Wake(d) \/ LaunchFails(d) \/ Spawn(d) \/ Ready(d) \/ NotReady(d)
               \/ ClearInflight(d) \/ Answers(d) \/ Exits(d)
        PROVE  FALSE
    BY <1>1, <2>1, <2>5, <2>6, <2>8
    DEF Wake, LaunchFails, Spawn, Ready, NotReady, ClearInflight, Answers, Exits, TypeOK
  <2>9. ASSUME NEW j \in Keys, Stop(j) \/ Retire(j) \/ Forget(j) PROVE FALSE
    BY <2>5, <2>6, <2>9 DEF Stop, Retire, StopInstance, Forget
  <2>10. CASE UNCHANGED vars
    BY <2>5, <2>10 DEF vars
  <2> QED
    BY <1>1, <2>3, <2>4, <2>7, <2>8, <2>9, <2>10 DEF Next
<1>2. HostInv /\ [Next]_vars => [\A k \in Keys \ raced : ForeignExitIgnored(k)]_vars
  BY <1>1 DEF ForeignExitIgnored
<1> QED
  BY <1>2, HostInvariant, PTL DEF Spec, CrashesAreItsOwn
===============================================================================

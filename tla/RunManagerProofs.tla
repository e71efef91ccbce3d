--------------------------- MODULE RunManagerProofs ---------------------------
(***************************************************************************)
(* Proofs about the run manager, for any sets of sessions, agents and turns *)
(* and any number of interrupts and crashes.                                *)
(*                                                                          *)
(* First its agents: a session has at most one that lives, its handle and   *)
(* its row say so, and what waits in its queue is resumed.  Then its turns: *)
(* each is in one place, in the order it was sent, persisted before it is   *)
(* handed over, and what the user sees of it is what TurnDelivery promises; *)
(* a root's finish is its last event.                                       *)
(***************************************************************************)
EXTENDS RunManager, SequenceTheorems, FiniteSetTheorems, TLAPS

-----------------------------------------------------------------------------
(* Sequences kept per session or per agent.                                  *)

(* Replacing one sequence of a family keeps the family's type.               *)
LEMMA FamilyUpdate ==
  ASSUME NEW D, NEW S, NEW f \in [D -> Seq(S)], NEW d \in D, NEW q \in Seq(S)
  PROVE  [f EXCEPT ![d] = q] \in [D -> Seq(S)]
OBVIOUS

(* The items of a sequence over S are in S.                                  *)
LEMMA ItemsType ==
  ASSUME NEW S, NEW q \in Seq(S)
  PROVE  Items(q) \subseteq S
BY LenProperties, ElementOfSeq DEF Items

(* The user events of a sequence of turns are events.                        *)
LEMMA UserEventsType ==
  ASSUME NEW a \in Agents, NEW turns \in Seq(Turns)
  PROVE  [i \in DOMAIN turns |-> UserEvent(a, turns[i])] \in Seq(Events)
<1> DEFINE es == [i \in DOMAIN turns |-> UserEvent(a, turns[i])]
<1>1. DOMAIN turns = 1..Len(turns) /\ Len(turns) \in Nat
  BY LenProperties
<1>2. \A i \in 1..Len(turns) : UserEvent(a, turns[i]) \in Events
  BY ElementOfSeq DEF UserEvent, Events
<1>3. es \in [1..Len(turns) -> Events]
  BY <1>1, <1>2
<1> QED
  BY <1>1, <1>3, SeqDef

-----------------------------------------------------------------------------
(* Type correctness.                                                        *)

(* What the shared parts of the actions do to the types of the sequences.    *)
LEMMA RunOrQueueType ==
  ASSUME TypeOK, NEW a \in Agents, NEW cmds \in Seq(Commands), RunOrQueue(a, cmds)
  PROVE  /\ queue' \in [Agents -> Seq(Commands)]
         /\ handed' \in [Agents -> Seq(Commands)]
<1>1. queue[a] \o cmds \in Seq(Commands) /\ handed[a] \o cmds \in Seq(Commands)
  BY ConcatProperties DEF TypeOK, TurnTypeOK
<1>2. queue \in [Agents -> Seq(Commands)] /\ handed \in [Agents -> Seq(Commands)]
  BY DEF TypeOK, TurnTypeOK
<1>3. /\ [queue EXCEPT ![a] = queue[a] \o cmds] \in [Agents -> Seq(Commands)]
      /\ [handed EXCEPT ![a] = handed[a] \o cmds] \in [Agents -> Seq(Commands)]
  BY <1>1, <1>2, FamilyUpdate
<1> QED
  BY <1>2, <1>3 DEF RunOrQueue

LEMMA SendAllType ==
  ASSUME TypeOK, NEW s \in Sessions, NEW a \in Agents, NEW turns \in Seq(Turns),
         SendAll(a, s, turns)
  PROVE  /\ queue' \in [Agents -> Seq(Commands)]
         /\ handed' \in [Agents -> Seq(Commands)]
         /\ log' \in [Sessions -> Seq(Events)]
<1>1. turns \in Seq(Commands)
  BY SeqMonotonic DEF Commands
<1>2. log[s] \o [i \in DOMAIN turns |-> UserEvent(a, turns[i])] \in Seq(Events)
  BY UserEventsType, ConcatProperties DEF TypeOK, TurnTypeOK
<1>3. log' \in [Sessions -> Seq(Events)]
  BY <1>2, FamilyUpdate DEF TypeOK, TurnTypeOK, SendAll
<1> QED
  BY <1>1, <1>3, RunOrQueueType DEF SendAll

LEMMA LogAppendType ==
  ASSUME TypeOK, NEW s \in Sessions, NEW e \in Events,
         log' = [log EXCEPT ![s] = Append(@, e)]
  PROVE  log' \in [Sessions -> Seq(Events)]
<1>1. Append(log[s], e) \in Seq(Events)
  BY AppendProperties DEF TypeOK, TurnTypeOK
<1> QED
  BY <1>1, FamilyUpdate DEF TypeOK, TurnTypeOK

LEMMA DropQueueType ==
  ASSUME TypeOK, NEW s \in Sessions, DropQueue(s)
  PROVE  resuming' \subseteq Sessions /\ queued' \in [Sessions -> Seq(Turns)]
<1>1. <<>> \in Seq(Turns)
  BY EmptySeq
<1> QED
  BY <1>1, FamilyUpdate DEF TypeOK, ControlTypeOK, TurnTypeOK, DropQueue

(* The control part of the state keeps its type.                             *)
LEMMA ControlTypeInductive ==
  ASSUME TypeOK, [Next]_vars
  PROVE  ControlTypeOK'
<1> USE RunManagerAssumption DEF TypeOK, ControlTypeOK, Stages, history, counters
<1>1. ASSUME NEW s \in Sessions, NEW a \in Agents, Launch(s, a)
      PROVE ControlTypeOK'
  BY <1>1 DEF Launch
<1>2. ASSUME NEW s \in Sessions, NEW a \in Agents, LaunchRefused(s, a)
      PROVE ControlTypeOK'
  BY <1>2 DEF LaunchRefused, CloseRow
<1>3. ASSUME NEW s \in Sessions, NEW t \in Turns,
             SendLive(s, t) \/ SendQueued(s, t) \/ SendUnknown(s, t)
      PROVE ControlTypeOK'
  BY <1>3 DEF SendLive, SendQueued, SendUnknown
<1>4. ASSUME NEW s \in Sessions, NEW t \in Turns, NEW a \in Agents,
             SendResumes(s, t, a)
      PROVE ControlTypeOK'
  BY <1>4 DEF SendResumes, BeginsResume
<1>5. ASSUME NEW s \in Sessions, InterruptLive(s) \/ InterruptIdle(s)
      PROVE ControlTypeOK'
  BY <1>5 DEF InterruptLive, InterruptIdle, Interrupts, DropQueue
<1>6. ASSUME NEW a \in Agents, ResumeStarts(a) \/ ResumeRefused(a)
      PROVE ControlTypeOK'
  BY <1>6 DEF ResumeStarts, ResumeRefused, DropQueue, CloseRow
<1>7. ASSUME NEW a \in Agents, AnnounceRoot(a) \/ AdapterReady(a)
      PROVE ControlTypeOK'
  BY <1>7 DEF AnnounceRoot, AdapterReady
<1>8. ASSUME NEW a \in Agents, FinishRoot(a) PROVE ControlTypeOK'
  BY <1>8 DEF FinishRoot, CloseRow, ForgetHandle
<1>9. CASE Crash
  <2>1. live' \in [Sessions -> Agents \cup {NoAgent}]
    BY <1>9 DEF Crash
  <2>2. stage' \in [Agents -> Stages]
    BY <1>9 DEF Crash
  <2>3. crashes' \in 0..MaxCrashes
    BY <1>9 DEF Crash
  <2> QED
    BY <1>9, <2>1, <2>2, <2>3 DEF Crash
<1>10. CASE Restart
  BY <1>10 DEF Restart
<1>11. CASE UNCHANGED vars
  BY <1>11 DEF vars
<1> QED
  BY <1>1, <1>2, <1>3, <1>4, <1>5, <1>6, <1>7, <1>8, <1>9, <1>10, <1>11
  DEF Next, AdapterFails, RootFinishes

(* The queues, the event log and the fate of the turns keep their types.     *)
LEMMA TurnTypeInductive ==
  ASSUME TypeOK, [Next]_vars,
         \A a \in Agents : stage[a] # "unused" => owner[a] \in Sessions
  PROVE  TurnTypeOK'
<1> USE DEF history
<1>a. /\ queued \in [Sessions -> Seq(Turns)]
      /\ queue \in [Agents -> Seq(Commands)]
      /\ handed \in [Agents -> Seq(Commands)]
      /\ log \in [Sessions -> Seq(Events)]
      /\ sentTo \in [Turns -> Sessions \cup {NoSession}]
      /\ discarded \subseteq Turns
      /\ live \in [Sessions -> Agents \cup {NoAgent}]
  BY DEF TypeOK, TurnTypeOK, ControlTypeOK
<1>b. \A s \in Sessions : Items(queued[s]) \subseteq Turns
  BY <1>a, ItemsType
<1>c. <<>> \in Seq(Turns) /\ <<>> \in Seq(Commands) /\ \A t \in Turns : <<t>> \in Seq(Turns)
  BY EmptySeq
<1>1. ASSUME NEW s \in Sessions, NEW a \in Agents, Launch(s, a) \/ LaunchRefused(s, a)
      PROVE TurnTypeOK'
  BY <1>1, <1>a DEF Launch, LaunchRefused, TurnTypeOK
<1>2. ASSUME NEW s \in Sessions, NEW t \in Turns, Sends(s, t)
      PROVE sentTo' \in [Turns -> Sessions \cup {NoSession}]
  BY <1>2, <1>a DEF Sends
<1>3. ASSUME NEW s \in Sessions, NEW t \in Turns, SendLive(s, t)
      PROVE TurnTypeOK'
  <2>1. live[s] \in Agents /\ SendAll(live[s], s, <<t>>) /\ Sends(s, t)
    BY <1>3, <1>a DEF SendLive
  <2>2. /\ queue' \in [Agents -> Seq(Commands)]
        /\ handed' \in [Agents -> Seq(Commands)]
        /\ log' \in [Sessions -> Seq(Events)]
    BY <2>1, <1>c, SendAllType
  <2> QED
    BY <1>3, <1>2, <1>a, <2>1, <2>2 DEF SendLive, TurnTypeOK
<1>4. ASSUME NEW s \in Sessions, NEW t \in Turns, SendQueued(s, t)
      PROVE TurnTypeOK'
  <2>1. Append(queued[s], t) \in Seq(Turns)
    BY <1>a, AppendProperties
  <2>2. queued' \in [Sessions -> Seq(Turns)]
    BY <2>1, <1>4, <1>a, FamilyUpdate DEF SendQueued
  <2> QED
    BY <1>4, <1>2, <1>a, <2>2 DEF SendQueued, TurnTypeOK
<1>5. ASSUME NEW s \in Sessions, NEW t \in Turns, SendUnknown(s, t)
      PROVE TurnTypeOK'
  BY <1>5, <1>2, <1>a DEF SendUnknown, TurnTypeOK
<1>6. ASSUME NEW s \in Sessions, NEW t \in Turns, NEW a \in Agents,
             SendResumes(s, t, a)
      PROVE TurnTypeOK'
  <2>1. queued' \in [Sessions -> Seq(Turns)]
    BY <1>6, <1>a, <1>c, FamilyUpdate DEF SendResumes, BeginsResume
  <2> QED
    BY <1>6, <1>2, <1>a, <2>1 DEF SendResumes, TurnTypeOK
<1>7. ASSUME NEW s \in Sessions, InterruptLive(s)
      PROVE TurnTypeOK'
  <2>1. live[s] \in Agents /\ RunOrQueue(live[s], <<Interrupt>>) /\ DropQueue(s)
    BY <1>7, <1>a DEF InterruptLive
  <2>2. <<Interrupt>> \in Seq(Commands)
    BY EmptySeq DEF Commands
  <2>3. /\ queue' \in [Agents -> Seq(Commands)]
        /\ handed' \in [Agents -> Seq(Commands)]
        /\ queued' \in [Sessions -> Seq(Turns)]
    BY <2>1, <2>2, RunOrQueueType, DropQueueType
  <2> QED
    BY <1>7, <1>a, <1>b, <2>3 DEF InterruptLive, TurnTypeOK
<1>8. ASSUME NEW s \in Sessions, InterruptIdle(s)
      PROVE TurnTypeOK'
  <2>1. queued' \in [Sessions -> Seq(Turns)]
    BY <1>8, DropQueueType DEF InterruptIdle
  <2> QED
    BY <1>8, <1>a, <1>b, <2>1 DEF InterruptIdle, TurnTypeOK
<1>9. ASSUME NEW a \in Agents, ResumeStarts(a)
      PROVE TurnTypeOK'
  <2>1. owner[a] \in Sessions /\ queued[owner[a]] \in Seq(Turns)
    BY <1>9, <1>a DEF ResumeStarts
  <2>2. /\ queue' \in [Agents -> Seq(Commands)]
        /\ handed' \in [Agents -> Seq(Commands)]
        /\ log' \in [Sessions -> Seq(Events)]
        /\ queued' \in [Sessions -> Seq(Turns)]
    BY <1>9, <2>1, SendAllType, DropQueueType DEF ResumeStarts
  <2> QED
    BY <1>9, <1>a, <2>2 DEF ResumeStarts, TurnTypeOK
<1>10. ASSUME NEW a \in Agents, ResumeRefused(a)
       PROVE TurnTypeOK'
  <2>1. owner[a] \in Sessions
    BY <1>10 DEF ResumeRefused
  <2>2. queued' \in [Sessions -> Seq(Turns)] /\ Items(queued[owner[a]]) \subseteq Turns
    BY <1>10, <1>b, <2>1, DropQueueType DEF ResumeRefused
  <2> QED
    BY <1>10, <1>a, <2>2 DEF ResumeRefused, TurnTypeOK
<1>11. ASSUME NEW a \in Agents, AnnounceRoot(a)
       PROVE TurnTypeOK'
  <2>1. owner[a] \in Sessions /\ StartedEvent(a) \in Events
    BY <1>11 DEF AnnounceRoot, StartedEvent, Events
  <2>2. log' \in [Sessions -> Seq(Events)]
    BY <1>11, <2>1, LogAppendType DEF AnnounceRoot
  <2> QED
    BY <1>11, <1>a, <2>2 DEF AnnounceRoot, TurnTypeOK
<1>12. ASSUME NEW a \in Agents, AdapterReady(a)
       PROVE TurnTypeOK'
  <2>1. handed[a] \o queue[a] \in Seq(Commands)
    BY <1>a, ConcatProperties
  <2>2. /\ queue' \in [Agents -> Seq(Commands)]
        /\ handed' \in [Agents -> Seq(Commands)]
    BY <1>12, <1>a, <1>c, <2>1, FamilyUpdate DEF AdapterReady
  <2> QED
    BY <1>12, <1>a, <2>2 DEF AdapterReady, TurnTypeOK
<1>13. ASSUME NEW a \in Agents, FinishRoot(a), stage[a] # "unused"
       PROVE TurnTypeOK'
  <2>1. owner[a] \in Sessions /\ FinishedEvent(a) \in Events
    BY <1>13 DEF FinishedEvent, Events
  <2>2. log' \in [Sessions -> Seq(Events)]
    BY <1>13, <2>1, LogAppendType DEF FinishRoot
  <2>3. queue' \in [Agents -> Seq(Commands)]
    BY <1>13, <1>a, <1>c, FamilyUpdate DEF FinishRoot
  <2> QED
    BY <1>13, <1>a, <2>2, <2>3 DEF FinishRoot, TurnTypeOK
<1>14. CASE Crash
  <2>1. Waiting \subseteq Turns
    BY DEF Waiting
  <2> QED
    BY <1>14, <1>a, <1>c, <2>1 DEF Crash, TurnTypeOK
<1>15. CASE Restart
  BY <1>15, <1>a DEF Restart, TurnTypeOK
<1>16. CASE UNCHANGED vars
  BY <1>16, <1>a DEF vars, TurnTypeOK
<1> QED
  BY <1>1, <1>3, <1>4, <1>5, <1>6, <1>7, <1>8, <1>9, <1>10, <1>11, <1>12, <1>13,
     <1>14, <1>15, <1>16
  DEF Next, AdapterFails, RootFinishes

-----------------------------------------------------------------------------
(***************************************************************************)
(* One agent per session.  The four invariants the runs check do not follow *)
(* from each other alone: that a second resume cannot begin rests on the     *)
(* queue that the first one keeps open (ResumeKeepsQueue), which only an     *)
(* interrupt can take away.                                                 *)
(***************************************************************************)

OwnerKnown == \A a \in Agents : stage[a] # "unused" => owner[a] \in Sessions

ResumeKeepsQueue ==
  \A a \in Agents :
    stage[a] = "resolving" /\ owner[a] \notin orphaned => owner[a] \in resuming

NothingWhenDown ==
  ~up => /\ resuming = {}
         /\ \A s \in Sessions : live[s] = NoAgent
         /\ \A a \in Agents : stage[a] \in {"unused", "over"}

AbsentHasNone ==
  \A s \in Sessions :
    row[s] = "absent" => /\ live[s] = NoAgent
                         /\ AgentsOf(s, Working) = {}

AgentInv ==
  /\ ControlTypeOK
  /\ OwnerKnown
  /\ SingleAgent
  /\ HandleIsTheAgent
  /\ RowTracksAgent
  /\ QueueHasResume
  /\ ResumeKeepsQueue
  /\ NothingWhenDown
  /\ AbsentHasNone

LEMMA AgentInvInit == Init => AgentInv /\ TypeOK
<1> SUFFICES ASSUME Init PROVE AgentInv /\ TypeOK
  OBVIOUS
<1>1. TypeOK
  <2>1. \A S : <<>> \in Seq(S)
    BY EmptySeq
  <2> QED
    BY <2>1, RunManagerAssumption
    DEF Init, TypeOK, ControlTypeOK, TurnTypeOK, Stages
<1>2. AgentInv
  BY <1>1, RunManagerAssumption
  DEF Init, AgentInv, TypeOK, OwnerKnown, SingleAgent, HandleIsTheAgent,
      RowTracksAgent, QueueHasResume, ResumeKeepsQueue, NothingWhenDown,
      AbsentHasNone, AgentsOf, Working, Started
<1> QED
  BY <1>1, <1>2

(* A step that moves started agents on and touches nothing else.             *)
LEMMA AgentInvFrame ==
  ASSUME AgentInv, ControlTypeOK',
         UNCHANGED <<row, live, resuming, owner, orphaned, up>>,
         \A a \in Agents : stage'[a] = stage[a]
                             \/ (stage[a] \in Started /\ stage'[a] \in Started)
  PROVE  AgentInv'
<1>1. \A s \in Sessions :
        /\ AgentsOf(s, Started)' = AgentsOf(s, Started)
        /\ AgentsOf(s, Working)' = AgentsOf(s, Working)
        /\ AgentsOf(s, {"resolving"})' = AgentsOf(s, {"resolving"})
  BY DEF AgentsOf, Started, Working
<1>2. \A a \in Agents : /\ stage'[a] = "resolving" <=> stage[a] = "resolving"
                        /\ stage'[a] = "unused" <=> stage[a] = "unused"
                        /\ stage[a] = "over" => stage'[a] = "over"
  BY DEF Started
<1>3. OwnerKnown'
  BY <1>2 DEF AgentInv, OwnerKnown
<1>4. SingleAgent' /\ HandleIsTheAgent'
  BY <1>1 DEF AgentInv, SingleAgent, HandleIsTheAgent
<1>5. RowTracksAgent' /\ AbsentHasNone'
  BY <1>1 DEF AgentInv, RowTracksAgent, AbsentHasNone
<1>6. QueueHasResume' /\ ResumeKeepsQueue'
  BY <1>1, <1>2 DEF AgentInv, QueueHasResume, ResumeKeepsQueue, ControlTypeOK
<1>7. NothingWhenDown'
  BY <1>2 DEF AgentInv, NothingWhenDown
<1> QED
  BY <1>3, <1>4, <1>5, <1>6, <1>7 DEF AgentInv

(* The end of one agent a of session s that has been started.                *)
LEMMA AgentInvFinish ==
  ASSUME AgentInv, ControlTypeOK', NEW a \in Agents, NEW s \in Sessions,
         s = owner[a], FinishRoot(a), stage[a] \in {"connecting", "ready"}
  PROVE  AgentInv'
<1>2. /\ row' = [row EXCEPT ![s] = "ended"]
      /\ stage' = [stage EXCEPT ![a] = "over"]
      /\ live' = [live EXCEPT ![s] = NoAgent]
      /\ UNCHANGED <<resuming, owner, orphaned, up>>
  BY DEF FinishRoot, CloseRow, ForgetHandle, counters
<1>t. ControlTypeOK
  BY DEF AgentInv
<1>4. \A z \in Sessions : /\ AgentsOf(z, Working)' = AgentsOf(z, Working) \ {a}
                          /\ AgentsOf(z, Started)' = AgentsOf(z, Started) \ {a}
                          /\ AgentsOf(z, {"resolving"})' = AgentsOf(z, {"resolving"})
  BY <1>2, <1>t DEF AgentsOf, ControlTypeOK, Working, Started
<1>5. a \in AgentsOf(s, Started) /\ a \in AgentsOf(s, Working)
  BY DEF AgentsOf, Started, Working
<1>6. \A z \in Sessions \ {s} : a \notin AgentsOf(z, Working)
                                  /\ a \notin AgentsOf(z, Started)
  BY DEF AgentsOf
<1>7. \A z \in Sessions : z # s => row'[z] = row[z] /\ live'[z] = live[z]
  BY <1>2, <1>t DEF ControlTypeOK
<1>8. row'[s] = "ended" /\ live'[s] = NoAgent
  BY <1>2, <1>t DEF ControlTypeOK
<1>9. s \notin orphaned => AgentsOf(s, Working) \subseteq {a}
  BY <1>5 DEF AgentInv, SingleAgent
<1>10. OwnerKnown'
  BY <1>2, <1>t DEF AgentInv, OwnerKnown, ControlTypeOK
<1>11. SingleAgent'
  BY <1>2, <1>4 DEF AgentInv, SingleAgent
<1>12. HandleIsTheAgent'
  <2>1. ASSUME NEW z \in Sessions, z # s
        PROVE  /\ live'[z] # NoAgent => live'[z] \in AgentsOf(z, Started)'
               /\ z \notin orphaned' => AgentsOf(z, Started)' \subseteq {live'[z]}
    BY <2>1, <1>2, <1>4, <1>6, <1>7 DEF AgentInv, HandleIsTheAgent
  <2>2. s \notin orphaned => AgentsOf(s, Started)' = {}
    BY <1>4, <1>9 DEF AgentsOf, Working
  <2> QED
    BY <2>1, <2>2, <1>8, <1>2 DEF HandleIsTheAgent
<1>13. RowTracksAgent'
  <2>1. ASSUME NEW z \in Sessions, z # s, up, z \notin orphaned
        PROVE  (row'[z] = "open") <=> (AgentsOf(z, Working)' # {})
    BY <2>1, <1>4, <1>6, <1>7 DEF AgentInv, RowTracksAgent
  <2>2. s \notin orphaned => AgentsOf(s, Working)' = {}
    BY <1>4, <1>9
  <2> QED
    BY <2>1, <2>2, <1>8, <1>2 DEF RowTracksAgent
<1>14. QueueHasResume'
  BY <1>2, <1>4, <1>7, <1>8 DEF AgentInv, QueueHasResume, ControlTypeOK
<1>15. ResumeKeepsQueue'
  BY <1>2, <1>t DEF AgentInv, ResumeKeepsQueue, ControlTypeOK
<1>16. NothingWhenDown'
  BY <1>2, <1>t, <1>7, <1>8 DEF AgentInv, NothingWhenDown, ControlTypeOK
<1>17. AbsentHasNone'
  BY <1>4, <1>6, <1>7, <1>8 DEF AgentInv, AbsentHasNone
<1> QED
  BY <1>10, <1>11, <1>12, <1>13, <1>14, <1>15, <1>16, <1>17 DEF AgentInv

(* A refused resume of session s: agent a never starts.                      *)
LEMMA AgentInvRefused ==
  ASSUME AgentInv, ControlTypeOK', NEW a \in Agents, NEW s \in Sessions,
         s = owner[a], ResumeRefused(a)
  PROVE  AgentInv'
<1>t. ControlTypeOK
  BY DEF AgentInv
<1>1. stage[a] = "resolving"
  BY DEF ResumeRefused
<1>2. /\ row' = [row EXCEPT ![s] = "ended"]
      /\ stage' = [stage EXCEPT ![a] = "over"]
      /\ resuming' = resuming \ {s}
      /\ UNCHANGED <<live, owner, orphaned, up>>
  BY DEF ResumeRefused, CloseRow, DropQueue, counters
<1>3. \A z \in Sessions : /\ AgentsOf(z, Working)' = AgentsOf(z, Working) \ {a}
                          /\ AgentsOf(z, Started)' = AgentsOf(z, Started)
                          /\ AgentsOf(z, {"resolving"})'
                               = AgentsOf(z, {"resolving"}) \ {a}
  BY <1>1, <1>2, <1>t DEF AgentsOf, ControlTypeOK, Working, Started
<1>4. \A z \in Sessions \ {s} : a \notin AgentsOf(z, Working)
                                  /\ a \notin AgentsOf(z, {"resolving"})
  BY DEF AgentsOf
<1>5. a \in AgentsOf(s, Working)
  BY <1>1 DEF AgentsOf, Working
<1>6. \A z \in Sessions : z # s => row'[z] = row[z]
  BY <1>2, <1>t DEF ControlTypeOK
<1>7. row'[s] = "ended"
  BY <1>1, <1>2, <1>t DEF ControlTypeOK
<1>8. s \notin orphaned => AgentsOf(s, Working) \subseteq {a}
  BY <1>1, <1>5 DEF AgentInv, SingleAgent
<1>10. OwnerKnown'
  BY <1>2, <1>1, <1>t DEF AgentInv, OwnerKnown, ControlTypeOK
<1>11. SingleAgent' /\ HandleIsTheAgent'
  BY <1>2, <1>3 DEF AgentInv, SingleAgent, HandleIsTheAgent
<1>12. RowTracksAgent'
  <2>1. ASSUME NEW z \in Sessions, z # s, up, z \notin orphaned
        PROVE  (row'[z] = "open") <=> (AgentsOf(z, Working)' # {})
    BY <2>1, <1>3, <1>4, <1>6 DEF AgentInv, RowTracksAgent
  <2>2. s \notin orphaned => AgentsOf(s, Working)' = {}
    BY <1>1, <1>3, <1>8
  <2> QED
    BY <2>1, <2>2, <1>7, <1>2 DEF RowTracksAgent
<1>13. QueueHasResume'
  BY <1>2, <1>3, <1>4, <1>t DEF AgentInv, QueueHasResume, ControlTypeOK
<1>14. ResumeKeepsQueue'
  <2>1. ASSUME NEW b \in Agents, stage'[b] = "resolving", owner[b] \notin orphaned
        PROVE  owner[b] \in resuming'
    <3>1. b # a /\ stage[b] = "resolving"
      BY <2>1, <1>2, <1>t DEF ControlTypeOK
    <3>2. owner[b] \in Sessions /\ b \in AgentsOf(owner[b], Working)
      BY <3>1 DEF AgentInv, OwnerKnown, AgentsOf, Working
    <3>3. owner[b] # s
      BY <2>1, <3>1, <3>2, <1>8
    <3> QED
      BY <2>1, <3>1, <3>3, <1>2 DEF AgentInv, ResumeKeepsQueue
  <2> QED
    BY <2>1, <1>2 DEF ResumeKeepsQueue
<1>15. NothingWhenDown'
  BY <1>1, <1>2, <1>t DEF AgentInv, NothingWhenDown, ControlTypeOK
<1>16. AbsentHasNone'
  BY <1>2, <1>3, <1>6, <1>7 DEF AgentInv, AbsentHasNone
<1> QED
  BY <1>10, <1>11, <1>12, <1>13, <1>14, <1>15, <1>16 DEF AgentInv

(* A crash leaves no agent, and Restart ends the rows it left open.          *)
LEMMA AgentInvCrash ==
  ASSUME AgentInv, ControlTypeOK', Crash \/ Restart
  PROVE  AgentInv'
<1>1. /\ resuming' = {}
      /\ live' = [s \in Sessions |-> NoAgent]
      /\ \A b \in Agents : stage'[b] = IF stage[b] = "unused" THEN "unused" ELSE "over"
      /\ owner' = owner
  <2>1. CASE Crash
    BY <2>1 DEF Crash
  <2>2. CASE Restart
    BY <2>2 DEF Restart, AgentInv, NothingWhenDown, ControlTypeOK
  <2> QED
    BY <2>1, <2>2
<1>2. \A s \in Sessions : /\ live'[s] = NoAgent
                          /\ AgentsOf(s, Working)' = {}
                          /\ AgentsOf(s, Started)' = {}
  BY <1>1 DEF AgentsOf, Working, Started
<1>3. up' => \A s \in Sessions : row'[s] # "open"
  BY DEF Crash, Restart
<1>4. OwnerKnown' /\ ResumeKeepsQueue' /\ NothingWhenDown'
  BY <1>1, <1>2 DEF AgentInv, OwnerKnown, ResumeKeepsQueue, NothingWhenDown
<1>5. SingleAgent' /\ HandleIsTheAgent' /\ AbsentHasNone'
  BY <1>2 DEF SingleAgent, HandleIsTheAgent, AbsentHasNone
<1>6. RowTracksAgent' /\ QueueHasResume'
  BY <1>1, <1>2, <1>3 DEF RowTracksAgent, QueueHasResume
<1> QED
  BY <1>4, <1>5, <1>6 DEF AgentInv

LEMMA AgentInvInductive ==
  ASSUME AgentInv, TypeOK, [Next]_vars
  PROVE  AgentInv' /\ TypeOK'
<1>1. ControlTypeOK'
  BY ControlTypeInductive
<1>2. TurnTypeOK'
  BY TurnTypeInductive DEF AgentInv, OwnerKnown
<1>10. ASSUME NEW a \in Agents, ResumeRefused(a) PROVE AgentInv'
  <2>1. owner[a] \in Sessions
    BY <1>10 DEF AgentInv, OwnerKnown, ResumeRefused
  <2> QED
    BY <1>1, <1>10, <2>1, AgentInvRefused
<1>11. ASSUME NEW a \in Agents, AnnounceRoot(a) \/ AdapterReady(a) PROVE AgentInv'
  <2>1. UNCHANGED <<row, live, resuming, owner, orphaned, up>>
    BY <1>11 DEF AnnounceRoot, AdapterReady, history, counters
  <2>2. \A b \in Agents : stage'[b] = stage[b]
                            \/ (stage[b] \in Started /\ stage'[b] \in Started)
    BY <1>11 DEF AnnounceRoot, AdapterReady, AgentInv, ControlTypeOK, Started
  <2> QED
    BY <1>1, <2>1, <2>2, AgentInvFrame
<1>12. ASSUME NEW a \in Agents, AdapterFails(a) \/ RootFinishes(a) PROVE AgentInv'
  <2>1. FinishRoot(a) /\ stage[a] \in {"connecting", "ready"}
    BY <1>12 DEF AdapterFails, RootFinishes
  <2>2. owner[a] \in Sessions
    BY <2>1 DEF AgentInv, OwnerKnown
  <2> QED
    BY <1>1, <2>1, <2>2, AgentInvFinish
<1>13. ASSUME Crash \/ Restart PROVE AgentInv'
  BY <1>1, <1>13, AgentInvCrash
<1>15. ASSUME UNCHANGED vars PROVE AgentInv'
  BY <1>1, <1>15, AgentInvFrame DEF vars
<1> USE RunManagerAssumption DEF AgentInv, ControlTypeOK, OwnerKnown, SingleAgent,
      HandleIsTheAgent, RowTracksAgent, QueueHasResume, ResumeKeepsQueue,
      NothingWhenDown, AbsentHasNone, AgentsOf, Working, Started, Stages,
      history, counters
<1>3. ASSUME NEW s \in Sessions, NEW a \in Agents, Launch(s, a) PROVE AgentInv'
  BY <1>1, <1>3 DEF Launch, FreshAgent
<1>4. ASSUME NEW s \in Sessions, NEW a \in Agents, LaunchRefused(s, a) PROVE AgentInv'
  BY <1>1, <1>4 DEF LaunchRefused, FreshAgent, CloseRow
<1>5. ASSUME NEW s \in Sessions, NEW t \in Turns,
             SendLive(s, t) \/ SendQueued(s, t) \/ SendUnknown(s, t)
      PROVE AgentInv'
  BY <1>1, <1>5 DEF SendLive, SendQueued, SendUnknown, BeginsResume, Sends
<1>6. ASSUME NEW s \in Sessions, NEW t \in Turns, NEW a \in Agents,
             SendResumes(s, t, a)
      PROVE AgentInv'
  BY <1>1, <1>6 DEF SendResumes, BeginsResume, Sends, FreshAgent
<1>7. ASSUME NEW s \in Sessions, InterruptLive(s) PROVE AgentInv'
  BY <1>1, <1>7 DEF InterruptLive, Interrupts, DropQueue
<1>8. ASSUME NEW s \in Sessions, InterruptIdle(s) PROVE AgentInv'
  BY <1>1, <1>8 DEF InterruptIdle, Interrupts, DropQueue
<1>9. ASSUME NEW a \in Agents, ResumeStarts(a) PROVE AgentInv'
  BY <1>1, <1>9 DEF ResumeStarts, DropQueue
<1> QED
  BY <1>2, <1>3, <1>4, <1>5, <1>6, <1>7, <1>8, <1>9, <1>10, <1>11, <1>12, <1>13,
     <1>15 DEF Next, TypeOK

LEMMA AgentInvAlways == Spec => [](AgentInv /\ TypeOK)
<1>1. Init => AgentInv /\ TypeOK
  BY AgentInvInit
<1>2. (AgentInv /\ TypeOK) /\ [Next]_vars => (AgentInv /\ TypeOK)'
  BY AgentInvInductive
<1> QED
  BY <1>1, <1>2, PTL DEF Spec

-----------------------------------------------------------------------------
(* The theorems.                                                            *)

(* Every variable keeps its type: a queue only ever holds turns, the runtime's *)
(* queues only commands, the log only canonical events.                      *)
THEOREM TypeCorrect == Spec => []TypeOK
<1>1. AgentInv /\ TypeOK => TypeOK
  OBVIOUS
<1> QED
  BY <1>1, AgentInvAlways, PTL

(* A session never has two agents starting or running at once, except after an *)
(* interrupt has emptied its queue in the middle of a resume.                *)
THEOREM OneAgent == Spec => []SingleAgent
<1>1. AgentInv /\ TypeOK => SingleAgent
  BY DEF AgentInv
<1> QED
  BY <1>1, AgentInvAlways, PTL

(* The live map names an agent of the session that is still running, and no    *)
(* started agent is out of its reach.                                       *)
THEOREM HandleFaithful == Spec => []HandleIsTheAgent
<1>1. AgentInv /\ TypeOK => HandleIsTheAgent
  BY DEF AgentInv
<1> QED
  BY <1>1, AgentInvAlways, PTL

(* The persisted row of a session is open exactly while it has an agent.       *)
THEOREM RowFaithful == Spec => []RowTracksAgent
<1>1. AgentInv /\ TypeOK => RowTracksAgent
  BY DEF AgentInv
<1> QED
  BY <1>1, AgentInvAlways, PTL

(* A queue that a later run-send may join always has a resume to flush it.     *)
THEOREM QueueIsServed == Spec => []QueueHasResume
<1>1. AgentInv /\ TypeOK => QueueHasResume
  BY DEF AgentInv
<1> QED
  BY <1>1, AgentInvAlways, PTL


-----------------------------------------------------------------------------
(* The items of sequences.                                                    *)

(* An empty sequence has none.                                                *)
LEMMA ItemsEmpty == Items(<<>>) = {}
BY DEF Items

(* A concatenation has those of both its parts.                               *)
LEMMA ItemsConcat ==
  ASSUME NEW S, NEW p \in Seq(S), NEW q \in Seq(S)
  PROVE  Items(p \o q) = Items(p) \cup Items(q)
<1>1. /\ DOMAIN p = 1..Len(p) /\ Len(p) \in Nat
      /\ DOMAIN q = 1..Len(q) /\ Len(q) \in Nat
      /\ DOMAIN (p \o q) = 1..(Len(p) + Len(q))
  BY LenProperties, ConcatProperties
<1>2. \A i \in 1..Len(p) + Len(q) :
        (p \o q)[i] = IF i <= Len(p) THEN p[i] ELSE q[i - Len(p)]
  BY ConcatProperties
<1>3. ASSUME NEW c \in Items(p \o q) PROVE c \in Items(p) \cup Items(q)
  <2>1. PICK i \in 1..(Len(p) + Len(q)) : c = (p \o q)[i]
    BY <1>1 DEF Items
  <2>2. CASE i <= Len(p)
    BY <1>1, <1>2, <2>1, <2>2 DEF Items
  <2>3. CASE ~(i <= Len(p))
    <3>1. i - Len(p) \in 1..Len(q) /\ c = q[i - Len(p)]
      BY <1>1, <1>2, <2>1, <2>3
    <3> QED
      BY <1>1, <3>1 DEF Items
  <2> QED
    BY <2>2, <2>3
<1>4. ASSUME NEW c \in Items(p) PROVE c \in Items(p \o q)
  <2>1. PICK i \in 1..Len(p) : c = p[i]
    BY <1>1, <1>4 DEF Items
  <2>2. i \in 1..(Len(p) + Len(q)) /\ c = (p \o q)[i]
    BY <1>1, <1>2, <2>1
  <2> QED
    BY <1>1, <2>2 DEF Items
<1>5. ASSUME NEW c \in Items(q) PROVE c \in Items(p \o q)
  <2>1. PICK i \in 1..Len(q) : c = q[i]
    BY <1>1, <1>5 DEF Items
  <2>2. i + Len(p) \in 1..(Len(p) + Len(q)) /\ c = (p \o q)[i + Len(p)]
    BY <1>1, <1>2, <2>1
  <2> QED
    BY <1>1, <2>2 DEF Items
<1> QED
  BY <1>3, <1>4, <1>5

(* A sequence of one has that one.                                            *)
LEMMA ItemsOne ==
  ASSUME NEW c
  PROVE  Items(<<c>>) = {c}
BY DEF Items

(* Append adds one.                                                           *)
LEMMA ItemsAppend ==
  ASSUME NEW S, NEW p \in Seq(S), NEW c \in S
  PROVE  Items(Append(p, c)) = Items(p) \cup {c}
<1>1. Append(p, c) = p \o <<c>> /\ <<c>> \in Seq(S)
  BY AppendIsConcat
<1>2. Items(p \o <<c>>) = Items(p) \cup Items(<<c>>)
  BY <1>1, ItemsConcat
<1>3. Items(<<c>>) = {c}
  BY ItemsOne
<1> QED
  BY <1>1, <1>2, <1>3

(* The echo of some turns has a user event for each.                          *)
LEMMA ItemsEcho ==
  ASSUME NEW a, NEW turns
  PROVE  Items([i \in DOMAIN turns |-> UserEvent(a, turns[i])])
           = {UserEvent(a, t) : t \in Items(turns)}
BY DEF Items

-----------------------------------------------------------------------------
(***************************************************************************)
(* Where a turn is.  Sits lists the one queue, runtime queue or adapter that  *)
(* has it, or none; a turn that was sent sits in exactly one.                 *)
(***************************************************************************)

Sits(t, s, a, b, gone) ==
  /\ \A z \in Sessions : t \in Items(queued[z]) <=> z = s
  /\ \A c \in Agents : t \in Items(queue[c]) <=> c = a
  /\ \A c \in Agents : t \in Items(handed[c]) <=> c = b
  /\ t \in discarded <=> gone

(* The turn is still to be sent.                                              *)
Unsent(t) == sentTo[t] = NoSession /\ Sits(t, NoSession, NoAgent, NoAgent, FALSE)

(* The turn waits for a resume of its session.                                *)
Queued(t) ==
  sentTo[t] \in Sessions /\ Sits(t, sentTo[t], NoAgent, NoAgent, FALSE)

(* An agent whose start is under way or done: its owner is settled.           *)
Begun == {a \in Agents : stage[a] \notin {"unused", "resolving"}}

(* The turn waits for the adapter of an agent of its session.                 *)
Held(t) ==
  /\ sentTo[t] \in Sessions
  /\ \E a \in Begun : sentTo[t] = owner[a] /\ Sits(t, NoSession, a, NoAgent, FALSE)

(* That adapter has it.                                                       *)
Handed(t) ==
  /\ sentTo[t] \in Sessions
  /\ \E a \in Begun : sentTo[t] = owner[a] /\ Sits(t, NoSession, NoAgent, a, FALSE)

(* The turn was thrown away.                                                  *)
Gone(t) == sentTo[t] \in Sessions /\ Sits(t, NoSession, NoAgent, NoAgent, TRUE)

OnePlace(t) == Unsent(t) \/ Queued(t) \/ Held(t) \/ Handed(t) \/ Gone(t)

(* The queue of a session that is not being resumed is empty.                 *)
QueueOnlyInResume == \A s \in Sessions : s \notin resuming => queued[s] = <<>>

(* An agent has nothing before driver.start, and no queue once its adapter    *)
(* is ready.                                                                  *)
AgentsStartEmpty ==
  \A a \in Agents :
    /\ a \notin Begun => queue[a] = <<>> /\ handed[a] = <<>>
    /\ stage[a] \in {"ready", "over"} => queue[a] = <<>>

PlaceInv == QueueOnlyInResume /\ AgentsStartEmpty /\ \A t \in Turns : OnePlace(t)

(* Nothing happens to turn t.                                                 *)
Same(t) ==
  /\ sentTo'[t] = sentTo[t]
  /\ \A z \in Sessions : t \in Items(queued'[z]) <=> t \in Items(queued[z])
  /\ \A c \in Agents : t \in Items(queue'[c]) <=> t \in Items(queue[c])
  /\ \A c \in Agents : t \in Items(handed'[c]) <=> t \in Items(handed[c])
  /\ t \in discarded' <=> t \in discarded

(* No step gives an agent that has begun another owner, or takes it back.     *)
LEMMA BegunStays ==
  ASSUME AgentInv, [Next]_vars, NEW a \in Begun
  PROVE  a \in Begun' /\ owner'[a] = owner[a]
<1>0. ControlTypeOK /\ a \in Agents /\ stage[a] \notin {"unused", "resolving"}
  BY DEF AgentInv, Begun
<1>1. ASSUME NEW s \in Sessions, NEW b \in Agents, Launch(s, b) \/ LaunchRefused(s, b)
      PROVE  a \in Begun' /\ owner'[a] = owner[a]
  BY <1>0, <1>1 DEF Launch, LaunchRefused, FreshAgent, ControlTypeOK, Begun
<1>2. ASSUME NEW s \in Sessions, NEW t \in Turns, NEW b \in Agents, SendResumes(s, t, b)
      PROVE  a \in Begun' /\ owner'[a] = owner[a]
  BY <1>0, <1>2 DEF SendResumes, FreshAgent, ControlTypeOK, Begun
<1>3. ASSUME NEW s \in Sessions, NEW t \in Turns,
             SendLive(s, t) \/ SendQueued(s, t) \/ SendUnknown(s, t)
      PROVE  a \in Begun' /\ owner'[a] = owner[a]
  BY <1>0, <1>3 DEF SendLive, SendQueued, SendUnknown, Begun
<1>4. ASSUME NEW s \in Sessions, InterruptLive(s) \/ InterruptIdle(s)
      PROVE  a \in Begun' /\ owner'[a] = owner[a]
  BY <1>0, <1>4 DEF InterruptLive, InterruptIdle, Begun
<1>5. ASSUME NEW b \in Agents,
             \/ ResumeStarts(b) \/ ResumeRefused(b) \/ AnnounceRoot(b)
             \/ AdapterReady(b) \/ FinishRoot(b)
      PROVE  a \in Begun' /\ owner'[a] = owner[a]
  BY <1>0, <1>5
  DEF ResumeStarts, ResumeRefused, AnnounceRoot, AdapterReady, FinishRoot,
      ControlTypeOK, Begun
<1>6. CASE Crash \/ Restart \/ UNCHANGED vars
  BY <1>0, <1>6 DEF Crash, Restart, vars, Begun
<1> QED
  BY <1>1, <1>2, <1>3, <1>4, <1>5, <1>6 DEF Next, AdapterFails, RootFinishes

(* A turn to which nothing happens stays in its place.                        *)
LEMMA SameStays ==
  ASSUME AgentInv, [Next]_vars, NEW t \in Turns, Same(t)
  PROVE  /\ Unsent(t) => Unsent(t)'
         /\ Queued(t) => Queued(t)'
         /\ Held(t) => Held(t)'
         /\ Handed(t) => Handed(t)'
         /\ Gone(t) => Gone(t)'
<1>1. \A s, a, b : \A gone \in BOOLEAN : Sits(t, s, a, b, gone) => Sits(t, s, a, b, gone)'
  BY DEF Same, Sits
<1>2. \A a \in Begun : a \in Begun' /\ owner'[a] = owner[a]
  BY BegunStays
<1>3. (Held(t) => Held(t)') /\ (Handed(t) => Handed(t)')
  BY <1>1, <1>2 DEF Held, Handed, Same
<1> QED
  BY <1>1, <1>3 DEF Unsent, Queued, Gone, Same

-----------------------------------------------------------------------------
(* What the actions do to the places.                                         *)

(* Commands given to an agent end in its adapter or in its queue.             *)
LEMMA RunOrQueueItems ==
  ASSUME TypeOK, NEW a \in Agents, NEW cmds \in Seq(Commands), RunOrQueue(a, cmds)
  PROVE  /\ \A c \in Agents : Items(handed'[c]) =
                IF c = a /\ stage[a] = "ready" THEN Items(handed[c]) \cup Items(cmds)
                ELSE Items(handed[c])
         /\ \A c \in Agents : Items(queue'[c]) =
                IF c = a /\ stage[a] # "ready" THEN Items(queue[c]) \cup Items(cmds)
                ELSE Items(queue[c])
<1>1. /\ queue \in [Agents -> Seq(Commands)] /\ handed \in [Agents -> Seq(Commands)]
      /\ queue[a] \in Seq(Commands) /\ handed[a] \in Seq(Commands)
  BY DEF TypeOK, TurnTypeOK
<1>2. /\ Items(handed[a] \o cmds) = Items(handed[a]) \cup Items(cmds)
      /\ Items(queue[a] \o cmds) = Items(queue[a]) \cup Items(cmds)
  BY <1>1, ItemsConcat
<1>3. CASE stage[a] = "ready"
  <2>1. handed' = [handed EXCEPT ![a] = @ \o cmds] /\ queue' = queue
    BY <1>3 DEF RunOrQueue
  <2>2. handed'[a] = handed[a] \o cmds /\ \A c \in Agents : c # a => handed'[c] = handed[c]
    BY <2>1, <1>1
  <2>3. Items(handed'[a]) = Items(handed[a]) \cup Items(cmds)
    BY <1>2, <2>2
  <2>4. \A c \in Agents : c # a => Items(handed'[c]) = Items(handed[c])
    BY <2>2
  <2>5. \A c \in Agents : Items(queue'[c]) = Items(queue[c])
    BY <2>1
  <2> QED
    BY <1>3, <2>3, <2>4, <2>5
<1>4. CASE stage[a] # "ready"
  <2>1. queue' = [queue EXCEPT ![a] = @ \o cmds] /\ handed' = handed
    BY <1>4 DEF RunOrQueue
  <2>2. queue'[a] = queue[a] \o cmds /\ \A c \in Agents : c # a => queue'[c] = queue[c]
    BY <2>1, <1>1
  <2>3. Items(queue'[a]) = Items(queue[a]) \cup Items(cmds)
    BY <1>2, <2>2
  <2>4. \A c \in Agents : c # a => Items(queue'[c]) = Items(queue[c])
    BY <2>2
  <2>5. \A c \in Agents : Items(handed'[c]) = Items(handed[c])
    BY <2>1
  <2> QED
    BY <1>4, <2>3, <2>4, <2>5
<1> QED
  BY <1>3, <1>4

(* An emptied queue keeps nothing; the others keep what they have.            *)
LEMMA DropQueueItems ==
  ASSUME TypeOK, NEW s \in Sessions, DropQueue(s)
  PROVE  \A z \in Sessions : Items(queued'[z]) = {t \in Items(queued[z]) : z # s}
<1>1. queued'[s] = <<>> /\ \A z \in Sessions : z # s => queued'[z] = queued[z]
  BY DEF DropQueue, TypeOK, TurnTypeOK
<1> QED
  BY <1>1, ItemsEmpty

(* What is found in a queue sits only there.                                  *)
LEMMA InQueue ==
  ASSUME TypeOK, PlaceInv, NEW s \in Sessions, NEW t \in Items(queued[s])
  PROVE  t \in Turns /\ sentTo[t] = s /\ Queued(t)
<1>1. t \in Turns
  BY ItemsType DEF TypeOK, TurnTypeOK
<1> QED
  BY <1>1, RunManagerAssumption
  DEF PlaceInv, OnePlace, Unsent, Queued, Held, Handed, Gone, Sits

(* And what an agent's queue holds sits there.                                *)
LEMMA InAgentQueue ==
  ASSUME PlaceInv, NEW a \in Agents, NEW t \in Turns, t \in Items(queue[a])
  PROVE  /\ Held(t) /\ a \in Begun /\ sentTo[t] = owner[a]
         /\ Sits(t, NoSession, a, NoAgent, FALSE)
BY RunManagerAssumption
DEF PlaceInv, OnePlace, Unsent, Queued, Held, Handed, Gone, Sits

(* A turn that was not sent is nowhere.                                       *)
LEMMA NotYetSent ==
  ASSUME PlaceInv, NEW t \in Turns, sentTo[t] = NoSession
  PROVE  Unsent(t)
BY RunManagerAssumption DEF PlaceInv, OnePlace, Unsent, Queued, Held, Handed, Gone

(* A turn sent to a live agent is handed over, or waits in the agent's queue. *)
LEMMA SendLivePlaces ==
  ASSUME AgentInv, TypeOK, PlaceInv, NEW s \in Sessions, NEW t \in Turns, SendLive(s, t)
  PROVE  /\ \A u \in Turns \ {t} : Same(u)
         /\ Unsent(t) /\ (Held(t)' \/ Handed(t)')
<1>a. PICK a \in Agents : a = live[s]
  BY DEF SendLive, AgentInv, HandleIsTheAgent, AgentsOf
<1>1. /\ owner[a] = s /\ stage[a] \in Started /\ a \in Begun
      /\ stage' = stage /\ owner' = owner /\ queued' = queued /\ discarded' = discarded
      /\ sentTo[t] = NoSession /\ sentTo' = [sentTo EXCEPT ![t] = s]
      /\ sentTo \in [Turns -> Sessions \cup {NoSession}]
  BY <1>a DEF SendLive, Sends, FreshTurn, AgentInv, HandleIsTheAgent, AgentsOf, Started, Begun,
         TypeOK, TurnTypeOK
<1>2. Unsent(t)
  BY <1>1, RunManagerAssumption DEF PlaceInv, OnePlace, Unsent, Queued, Held, Handed, Gone
<1>3. <<t>> \in Seq(Commands) /\ Items(<<t>>) = {t}
  BY ItemsOne DEF Commands
<1>4. /\ \A c \in Agents : Items(handed'[c]) =
             IF c = a /\ stage[a] = "ready" THEN Items(handed[c]) \cup {t}
             ELSE Items(handed[c])
      /\ \A c \in Agents : Items(queue'[c]) =
             IF c = a /\ stage[a] # "ready" THEN Items(queue[c]) \cup {t}
             ELSE Items(queue[c])
  <2>1. RunOrQueue(a, <<t>>)
    BY <1>a DEF SendLive, SendAll
  <2> QED
    BY <1>1, <1>3, <2>1, RunOrQueueItems
<1>5. \A u \in Turns \ {t} : Same(u)
  BY <1>1, <1>4 DEF Same
<1>6. sentTo'[t] = s /\ a \in Begun'
  BY <1>1 DEF Begun
<1>7. CASE stage[a] = "ready"
  <2>1. Sits(t, NoSession, NoAgent, a, FALSE)'
    BY <1>1, <1>2, <1>4, <1>7, RunManagerAssumption DEF Unsent, Sits
  <2> QED
    BY <1>1, <1>2, <1>5, <1>6, <2>1 DEF Handed
<1>8. CASE stage[a] # "ready"
  <2>1. Sits(t, NoSession, a, NoAgent, FALSE)'
    BY <1>1, <1>2, <1>4, <1>8, RunManagerAssumption DEF Unsent, Sits
  <2> QED
    BY <1>1, <1>2, <1>5, <1>6, <2>1 DEF Held
<1> QED
  BY <1>7, <1>8

(* A turn sent in the middle of a resume waits in the session's queue.        *)
LEMMA SendQueuedPlaces ==
  ASSUME AgentInv, TypeOK, PlaceInv, NEW s \in Sessions, NEW t \in Turns,
         SendQueued(s, t) \/ \E a \in Agents : SendResumes(s, t, a)
  PROVE  /\ \A u \in Turns \ {t} : Same(u)
         /\ Unsent(t) /\ Queued(t)'
<1>1. /\ sentTo[t] = NoSession /\ sentTo' = [sentTo EXCEPT ![t] = s]
      /\ queue' = queue /\ handed' = handed /\ discarded' = discarded
      /\ sentTo \in [Turns -> Sessions \cup {NoSession}]
      /\ queued \in [Sessions -> Seq(Turns)]
  BY DEF SendQueued, SendResumes, Sends, FreshTurn, TypeOK, TurnTypeOK
<1>2. Unsent(t)
  BY <1>1, NotYetSent
<1>3. /\ Items(queued'[s]) = Items(queued[s]) \cup {t}
      /\ \A z \in Sessions : z # s => queued'[z] = queued[z]
  <2>1. CASE SendQueued(s, t)
    <3>1. queued'[s] = Append(queued[s], t)
      BY <1>1, <2>1 DEF SendQueued
    <3>2. Items(Append(queued[s], t)) = Items(queued[s]) \cup {t}
      BY <1>1, ItemsAppend
    <3> QED
      BY <1>1, <2>1, <3>1, <3>2 DEF SendQueued
  <2>2. CASE \E a \in Agents : SendResumes(s, t, a)
    <3>1. queued[s] = <<>> /\ queued'[s] = <<t>>
      BY <1>1, <2>2 DEF SendResumes, BeginsResume, PlaceInv, QueueOnlyInResume
    <3>2. Items(queued[s]) = {} /\ Items(queued'[s]) = {t}
      BY <3>1, ItemsEmpty, ItemsOne
    <3> QED
      BY <1>1, <2>2, <3>2 DEF SendResumes
  <2> QED
    BY <2>1, <2>2
<1>4. \A u \in Turns \ {t} : Same(u)
  BY <1>1, <1>3 DEF Same
<1>5. sentTo'[t] = s /\ Sits(t, s, NoAgent, NoAgent, FALSE)'
  BY <1>1, <1>2, <1>3, RunManagerAssumption DEF Unsent, Sits
<1> QED
  BY <1>2, <1>4, <1>5 DEF Queued

(* A turn sent to a session that does not exist is thrown away.               *)
LEMMA SendUnknownPlaces ==
  ASSUME AgentInv, TypeOK, PlaceInv, NEW s \in Sessions, NEW t \in Turns,
         SendUnknown(s, t)
  PROVE  /\ \A u \in Turns \ {t} : Same(u)
         /\ Unsent(t) /\ Gone(t)'
<1>1. /\ sentTo[t] = NoSession /\ sentTo' = [sentTo EXCEPT ![t] = s]
      /\ queue' = queue /\ handed' = handed /\ queued' = queued
      /\ discarded' = discarded \cup {t}
      /\ sentTo \in [Turns -> Sessions \cup {NoSession}]
  BY DEF SendUnknown, Sends, FreshTurn, TypeOK, TurnTypeOK
<1>2. Unsent(t)
  BY <1>1, NotYetSent
<1>3. \A u \in Turns \ {t} : Same(u)
  BY <1>1 DEF Same
<1>4. sentTo'[t] = s /\ Sits(t, NoSession, NoAgent, NoAgent, TRUE)'
  BY <1>1, <1>2 DEF Unsent, Sits
<1> QED
  BY <1>2, <1>3, <1>4 DEF Gone

(* A resume that starts moves the whole queue to its agent.                   *)
LEMMA ResumeStartsPlaces ==
  ASSUME AgentInv, TypeOK, PlaceInv, NEW a \in Agents, ResumeStarts(a)
  PROVE  \A u \in Turns : Same(u) \/ (Queued(u) /\ Held(u)')
<1>1. PICK s \in Sessions : s = owner[a]
  BY DEF AgentInv, OwnerKnown, ResumeStarts
<1>2. /\ stage[a] = "resolving" /\ owner' = owner /\ sentTo' = sentTo
      /\ discarded' = discarded /\ DropQueue(s) /\ RunOrQueue(a, queued[s])
      /\ stage' = [stage EXCEPT ![a] = "scheduled"]
  BY <1>1 DEF ResumeStarts, SendAll, history
<1>3. a \notin Begun /\ a \in Begun'
  BY <1>2 DEF Begun, AgentInv, ControlTypeOK
<1>4. Items(queue[a]) = {} /\ Items(handed[a]) = {}
  BY <1>3, ItemsEmpty DEF PlaceInv, AgentsStartEmpty
<1>5. queued[s] \in Seq(Commands)
  BY SeqMonotonic DEF TypeOK, TurnTypeOK, Commands
<1>6. /\ \A c \in Agents : Items(handed'[c]) =
             IF c = a /\ stage[a] = "ready" THEN Items(handed[c]) \cup Items(queued[s])
             ELSE Items(handed[c])
      /\ \A c \in Agents : Items(queue'[c]) =
             IF c = a /\ stage[a] # "ready" THEN Items(queue[c]) \cup Items(queued[s])
             ELSE Items(queue[c])
  BY <1>2, <1>5, RunOrQueueItems
<1>7. \A z \in Sessions : Items(queued'[z]) = {t \in Items(queued[z]) : z # s}
  BY <1>2, DropQueueItems
<1>8. ASSUME NEW u \in Turns, u \notin Items(queued[s]) PROVE Same(u)
  BY <1>2, <1>6, <1>7, <1>8 DEF Same
<1>9. ASSUME NEW u \in Turns, u \in Items(queued[s]) PROVE Queued(u) /\ Held(u)'
  <2>1. Queued(u) /\ sentTo[u] = s /\ Sits(u, s, NoAgent, NoAgent, FALSE)
    BY <1>9, InQueue DEF Queued
  <2>2. Sits(u, NoSession, a, NoAgent, FALSE)'
    BY <1>2, <1>6, <1>7, <1>9, <2>1, RunManagerAssumption DEF Sits
  <2>3. sentTo'[u] \in Sessions /\ sentTo'[u] = owner'[a]
    BY <1>1, <1>2, <2>1
  <2> QED
    BY <1>3, <2>1, <2>2, <2>3 DEF Held
<1> QED
  BY <1>8, <1>9

(* What an interrupt or a refused resume finds in the queue is thrown away.   *)
LEMMA DropPlaces ==
  ASSUME TypeOK, PlaceInv, NEW s \in Sessions, DropQueue(s), sentTo' = sentTo,
         discarded' = discarded \cup Items(queued[s]),
         \A t \in Turns, c \in Agents :
           /\ t \in Items(queue'[c]) <=> t \in Items(queue[c])
           /\ t \in Items(handed'[c]) <=> t \in Items(handed[c])
  PROVE  \A u \in Turns : Same(u) \/ (Queued(u) /\ Gone(u)')
<1>1. \A z \in Sessions : Items(queued'[z]) = {t \in Items(queued[z]) : z # s}
  BY DropQueueItems
<1>2. ASSUME NEW u \in Turns, u \notin Items(queued[s]) PROVE Same(u)
  BY <1>1, <1>2 DEF Same
<1>3. ASSUME NEW u \in Turns, u \in Items(queued[s]) PROVE Queued(u) /\ Gone(u)'
  <2>1. Queued(u) /\ sentTo[u] = s /\ Sits(u, s, NoAgent, NoAgent, FALSE)
    BY <1>3, InQueue DEF Queued
  <2>2. Sits(u, NoSession, NoAgent, NoAgent, TRUE)'
    BY <1>1, <1>3, <2>1, RunManagerAssumption DEF Sits
  <2> QED
    BY <2>1, <2>2 DEF Gone
<1> QED
  BY <1>2, <1>3

(* So does a refused resume,                                                  *)
LEMMA RefusedPlaces ==
  ASSUME AgentInv, TypeOK, PlaceInv, NEW a \in Agents, ResumeRefused(a)
  PROVE  \A u \in Turns : Same(u) \/ (Queued(u) /\ Gone(u)')
<1>1. PICK s \in Sessions : s = owner[a]
  BY DEF AgentInv, OwnerKnown, ResumeRefused
<1> QED
  BY <1>1, DropPlaces DEF ResumeRefused

(* and an interrupt, which the agent gets in its turn.                        *)
LEMMA InterruptPlaces ==
  ASSUME AgentInv, TypeOK, PlaceInv, NEW s \in Sessions,
         InterruptLive(s) \/ InterruptIdle(s)
  PROVE  \A u \in Turns : Same(u) \/ (Queued(u) /\ Gone(u)')
<1>1. /\ DropQueue(s) /\ sentTo' = sentTo
      /\ discarded' = discarded \cup Items(queued[s])
  BY DEF InterruptLive, InterruptIdle
<1>2. CASE InterruptIdle(s)
  BY <1>1, <1>2, DropPlaces DEF InterruptIdle
<1>3. CASE InterruptLive(s)
  <2>1. PICK a \in Agents : a = live[s]
    BY <1>3 DEF InterruptLive, AgentInv, HandleIsTheAgent, AgentsOf
  <2>2. RunOrQueue(a, <<Interrupt>>) /\ <<Interrupt>> \in Seq(Commands)
    BY <1>3, <2>1 DEF InterruptLive, Commands
  <2>3. Items(<<Interrupt>>) = {Interrupt}
    BY ItemsOne
  <2>4. \A t \in Turns, c \in Agents :
          /\ t \in Items(queue'[c]) <=> t \in Items(queue[c])
          /\ t \in Items(handed'[c]) <=> t \in Items(handed[c])
    BY <2>2, <2>3, RunOrQueueItems, RunManagerAssumption
  <2> QED
    BY <1>1, <2>4, DropPlaces
<1> QED
  BY <1>2, <1>3

(* An adapter that is ready takes over all that waits for it.                 *)
LEMMA ReadyPlaces ==
  ASSUME AgentInv, TypeOK, PlaceInv, NEW a \in Agents, AdapterReady(a)
  PROVE  \A u \in Turns : Same(u) \/ (Held(u) /\ Handed(u)')
<1>1. /\ queue[a] \in Seq(Commands) /\ handed[a] \in Seq(Commands)
      /\ handed'[a] = handed[a] \o queue[a] /\ queue'[a] = <<>>
      /\ \A c \in Agents : c # a => queue'[c] = queue[c] /\ handed'[c] = handed[c]
      /\ UNCHANGED <<queued, owner, sentTo, discarded>>
      /\ stage' = [stage EXCEPT ![a] = "ready"]
      /\ stage \in [Agents -> Stages]
  BY DEF AdapterReady, TypeOK, TurnTypeOK, ControlTypeOK, history
<1>2. /\ Items(handed'[a]) = Items(handed[a]) \cup Items(queue[a])
      /\ Items(queue'[a]) = {}
  BY <1>1, ItemsConcat, ItemsEmpty
<1>3. ASSUME NEW u \in Turns, u \notin Items(queue[a]) PROVE Same(u)
  BY <1>1, <1>2, <1>3 DEF Same
<1>4. ASSUME NEW u \in Turns, u \in Items(queue[a]) PROVE Held(u) /\ Handed(u)'
  <2>1. /\ Held(u) /\ a \in Begun /\ sentTo[u] = owner[a]
        /\ Sits(u, NoSession, a, NoAgent, FALSE)
    BY <1>4, InAgentQueue
  <2>2. Sits(u, NoSession, NoAgent, a, FALSE)'
    BY <1>1, <1>2, <1>4, <2>1, RunManagerAssumption DEF Sits
  <2>3. a \in Begun'
    BY <1>1 DEF Begun
  <2> QED
    BY <1>1, <2>1, <2>2, <2>3 DEF Held, Handed
<1> QED
  BY <1>3, <1>4

(* The end of a root throws its queue away.                                   *)
LEMMA FinishPlaces ==
  ASSUME AgentInv, TypeOK, PlaceInv, NEW a \in Agents, FinishRoot(a)
  PROVE  \A u \in Turns : Same(u) \/ (Held(u) /\ Gone(u)')
<1>1. /\ queue'[a] = <<>> /\ \A c \in Agents : c # a => queue'[c] = queue[c]
      /\ UNCHANGED <<queued, owner, handed, sentTo>>
      /\ discarded' = discarded \cup (Items(queue[a]) \cap Turns)
  BY DEF FinishRoot, TypeOK, TurnTypeOK
<1>2. Items(queue'[a]) = {}
  BY <1>1, ItemsEmpty
<1>3. ASSUME NEW u \in Turns, u \notin Items(queue[a]) PROVE Same(u)
  BY <1>1, <1>2, <1>3 DEF Same
<1>4. ASSUME NEW u \in Turns, u \in Items(queue[a]) PROVE Held(u) /\ Gone(u)'
  <2>1. Held(u) /\ Sits(u, NoSession, a, NoAgent, FALSE)
    BY <1>4, InAgentQueue
  <2>2. Sits(u, NoSession, NoAgent, NoAgent, TRUE)'
    BY <1>1, <1>2, <1>4, <2>1, RunManagerAssumption DEF Sits
  <2> QED
    BY <1>1, <2>1, <2>2 DEF Held, Gone
<1> QED
  BY <1>3, <1>4

(* An exit of the process loses all that waits.                               *)
LEMMA CrashPlaces ==
  ASSUME AgentInv, TypeOK, PlaceInv, Crash
  PROVE  \A u \in Turns : Same(u) \/ ((Queued(u) \/ Held(u)) /\ Gone(u)')
<1>1. /\ \A z \in Sessions : queued'[z] = <<>>
      /\ \A c \in Agents : queue'[c] = <<>>
      /\ UNCHANGED <<handed, sentTo>> /\ discarded' = discarded \cup Waiting
  BY DEF Crash
<1>2. /\ \A z \in Sessions : Items(queued'[z]) = {}
      /\ \A c \in Agents : Items(queue'[c]) = {}
  BY <1>1, ItemsEmpty
<1>3. ASSUME NEW u \in Turns, u \notin Waiting PROVE Same(u)
  BY <1>1, <1>2, <1>3 DEF Same, Waiting
<1>4. ASSUME NEW u \in Turns, u \in Waiting
      PROVE  (Queued(u) \/ Held(u)) /\ Gone(u)'
  <2>1. /\ (Queued(u) \/ Held(u))
        /\ \A c \in Agents : u \notin Items(handed[c])
    <3>1. CASE \E z \in Sessions : u \in Items(queued[z])
      BY <3>1, InQueue, RunManagerAssumption DEF Queued, Sits
    <3>2. CASE \E c \in Agents : u \in Items(queue[c])
      BY <3>2, InAgentQueue, RunManagerAssumption DEF Held, Sits
    <3> QED
      BY <1>4, <3>1, <3>2 DEF Waiting
  <2>2. Sits(u, NoSession, NoAgent, NoAgent, TRUE)'
    BY <1>1, <1>2, <1>4, <2>1, RunManagerAssumption DEF Sits
  <2>3. sentTo[u] \in Sessions
    BY <2>1 DEF Queued, Held
  <2> QED
    BY <1>1, <2>1, <2>2, <2>3 DEF Gone
<1> QED
  BY <1>3, <1>4

(* Nothing else touches a turn.                                               *)
LEMMA OtherPlaces ==
  ASSUME \/ \E s \in Sessions, a \in Agents : Launch(s, a) \/ LaunchRefused(s, a)
         \/ \E a \in Agents : AnnounceRoot(a)
         \/ Restart
         \/ UNCHANGED vars
  PROVE  \A u \in Turns : Same(u)
<1>1. UNCHANGED <<queued, queue, handed, sentTo, discarded>>
  BY DEF Launch, LaunchRefused, AnnounceRoot, Restart, vars, history
<1> QED
  BY <1>1 DEF Same

-----------------------------------------------------------------------------
(***************************************************************************)
(* Every step either sends one new turn, or settles some that wait, or moves  *)
(* some from one queue to another, and leaves the other turns alone.          *)
(***************************************************************************)

Waits(t) == Queued(t) \/ Held(t)

(* One new turn is sent; the others stay.                                     *)
SendsOne ==
  \E t \in Turns :
    /\ Unsent(t) /\ (Waits(t)' \/ Handed(t)' \/ Gone(t)')
    /\ \A u \in Turns \ {t} : Same(u)

(* Turns that wait for a resume go on to its agent.                           *)
MovesOn == \A u \in Turns : Same(u) \/ (Queued(u) /\ Held(u)')

(* Some of the turns that wait are handed over.                               *)
HandsOver == \A u \in Turns : Same(u) \/ (Waits(u) /\ Handed(u)')

(* Some of the turns that wait are thrown away.                               *)
ThrowsAway == \A u \in Turns : Same(u) \/ (Waits(u) /\ Gone(u)')

(* There is no other step.                                                    *)
LEMMA EveryStep ==
  ASSUME AgentInv, TypeOK, PlaceInv, [Next]_vars
  PROVE  SendsOne \/ MovesOn \/ HandsOver \/ ThrowsAway
<1>1. ASSUME NEW s \in Sessions, NEW t \in Turns, SendLive(s, t) PROVE SendsOne
  BY <1>1, SendLivePlaces DEF SendsOne, Waits
<1>2. ASSUME NEW s \in Sessions, NEW t \in Turns,
             SendQueued(s, t) \/ \E a \in Agents : SendResumes(s, t, a)
      PROVE  SendsOne
  BY <1>2, SendQueuedPlaces DEF SendsOne, Waits
<1>3. ASSUME NEW s \in Sessions, NEW t \in Turns, SendUnknown(s, t) PROVE SendsOne
  BY <1>3, SendUnknownPlaces DEF SendsOne
<1>4. ASSUME NEW a \in Agents, ResumeStarts(a) PROVE MovesOn
  BY <1>4, ResumeStartsPlaces DEF MovesOn, Waits
<1>5. ASSUME NEW a \in Agents, ResumeRefused(a) PROVE ThrowsAway
  BY <1>5, RefusedPlaces DEF ThrowsAway, Waits
<1>6. ASSUME NEW s \in Sessions, InterruptLive(s) \/ InterruptIdle(s) PROVE ThrowsAway
  BY <1>6, InterruptPlaces DEF ThrowsAway, Waits
<1>7. ASSUME NEW a \in Agents, AdapterReady(a) PROVE HandsOver
  BY <1>7, ReadyPlaces DEF HandsOver, Waits
<1>8. ASSUME NEW a \in Agents, FinishRoot(a) PROVE ThrowsAway
  BY <1>8, FinishPlaces DEF ThrowsAway, Waits
<1>9. CASE Crash
  BY <1>9, CrashPlaces DEF ThrowsAway, Waits
<1>10. CASE \/ \E s \in Sessions, a \in Agents : Launch(s, a) \/ LaunchRefused(s, a)
            \/ \E a \in Agents : AnnounceRoot(a)
            \/ Restart
            \/ UNCHANGED vars
  BY <1>10, OtherPlaces DEF MovesOn
<1> QED
  BY <1>1, <1>2, <1>3, <1>4, <1>5, <1>6, <1>7, <1>8, <1>9, <1>10
  DEF Next, AdapterFails, RootFinishes

(* Every turn stays in one place.                                             *)
LEMMA PlacesKept ==
  ASSUME AgentInv, TypeOK, PlaceInv, [Next]_vars, NEW u \in Turns
  PROVE  OnePlace(u)'
<1>1. Same(u) => OnePlace(u)'
  BY SameStays DEF PlaceInv, OnePlace
<1>2. CASE SendsOne
  <2>1. PICK t \in Turns : /\ Waits(t)' \/ Handed(t)' \/ Gone(t)'
                           /\ \A v \in Turns \ {t} : Same(v)
    BY <1>2 DEF SendsOne
  <2>2. u = t => OnePlace(u)'
    BY <2>1 DEF OnePlace, Waits
  <2> QED
    BY <1>1, <2>1, <2>2
<1>3. CASE MovesOn \/ HandsOver \/ ThrowsAway
  BY <1>1, <1>3 DEF MovesOn, HandsOver, ThrowsAway, OnePlace, Waits
<1> QED
  BY <1>2, <1>3, EveryStep

(* A queue is only ever filled together with its key.                         *)
LEMMA QueueKeyKept ==
  ASSUME AgentInv, TypeOK, PlaceInv, [Next]_vars
  PROVE  QueueOnlyInResume'
<1>0. queued \in [Sessions -> Seq(Turns)] /\ QueueOnlyInResume
  BY DEF PlaceInv, TypeOK, TurnTypeOK
<1>1. ASSUME NEW s \in Sessions, DropQueue(s) PROVE QueueOnlyInResume'
  BY <1>0, <1>1 DEF DropQueue, QueueOnlyInResume
<1>2. ASSUME NEW s \in Sessions, NEW t \in Turns,
             SendQueued(s, t) \/ \E a \in Agents : SendResumes(s, t, a)
      PROVE  QueueOnlyInResume'
  BY <1>0, <1>2 DEF SendQueued, SendResumes, QueueOnlyInResume
<1>3. ASSUME NEW s \in Sessions, InterruptLive(s) \/ InterruptIdle(s)
      PROVE  QueueOnlyInResume'
  BY <1>1, <1>3 DEF InterruptLive, InterruptIdle
<1>4. ASSUME NEW a \in Agents, ResumeStarts(a) \/ ResumeRefused(a)
      PROVE  QueueOnlyInResume'
  BY <1>1, <1>4 DEF ResumeStarts, ResumeRefused, AgentInv, OwnerKnown
<1>5. CASE Crash
  BY <1>5 DEF Crash, QueueOnlyInResume
<1>6. CASE UNCHANGED <<resuming, queued>>
  BY <1>0, <1>6 DEF QueueOnlyInResume
<1>8. ASSUME NEW s \in Sessions, NEW t \in Turns, SendLive(s, t) \/ SendUnknown(s, t)
      PROVE  QueueOnlyInResume'
  BY <1>6, <1>8 DEF SendLive, SendUnknown
<1>9. ASSUME NEW s \in Sessions, NEW a \in Agents, Launch(s, a) \/ LaunchRefused(s, a)
      PROVE  QueueOnlyInResume'
  BY <1>6, <1>9 DEF Launch, LaunchRefused
<1>10. ASSUME NEW a \in Agents, AnnounceRoot(a) \/ AdapterReady(a) \/ FinishRoot(a)
       PROVE  QueueOnlyInResume'
  BY <1>6, <1>10 DEF AnnounceRoot, AdapterReady, FinishRoot
<1>11. CASE Restart \/ UNCHANGED vars
  BY <1>6, <1>11 DEF Restart, vars
<1> QED
  BY <1>2, <1>3, <1>4, <1>5, <1>8, <1>9, <1>10, <1>11
  DEF Next, AdapterFails, RootFinishes

(* Commands only go to agents that have begun, and past the queue of one that *)
(* is ready.                                                                  *)
LEMMA AgentsStartEmptyKept ==
  ASSUME AgentInv, TypeOK, PlaceInv, [Next]_vars
  PROVE  AgentsStartEmpty'
<1> DEFINE Fine(a) == /\ a \notin Begun => queue[a] = <<>> /\ handed[a] = <<>>
                      /\ stage[a] \in {"ready", "over"} => queue[a] = <<>>
<1>0. /\ \A a \in Agents : Fine(a)
      /\ queue \in [Agents -> Seq(Commands)] /\ handed \in [Agents -> Seq(Commands)]
      /\ stage \in [Agents -> Stages]
  BY DEF PlaceInv, AgentsStartEmpty, TypeOK, TurnTypeOK, ControlTypeOK
<1>1. ASSUME NEW a \in Agents, NEW cmds, RunOrQueue(a, cmds), a \in Begun,
             stage[a] # "over", stage' = stage
      PROVE  AgentsStartEmpty'
  BY <1>0, <1>1 DEF RunOrQueue, AgentsStartEmpty, Begun
<1>2. ASSUME UNCHANGED <<queue, handed, stage>> PROVE AgentsStartEmpty'
  BY <1>0, <1>2 DEF AgentsStartEmpty, Begun
<1>3. ASSUME NEW s \in Sessions, NEW t \in Turns, SendLive(s, t)
      PROVE  AgentsStartEmpty'
  <2>1. PICK a \in Agents : a = live[s] /\ stage[a] \in Started
    BY <1>3 DEF SendLive, AgentInv, HandleIsTheAgent, AgentsOf
  <2> QED
    BY <1>1, <1>3, <2>1 DEF SendLive, SendAll, Begun, Started
<1>4. ASSUME NEW s \in Sessions, InterruptLive(s) PROVE AgentsStartEmpty'
  <2>1. PICK a \in Agents : a = live[s] /\ stage[a] \in Started
    BY <1>4 DEF InterruptLive, AgentInv, HandleIsTheAgent, AgentsOf
  <2> QED
    BY <1>1, <1>4, <2>1 DEF InterruptLive, Begun, Started
<1>6. ASSUME NEW s \in Sessions, NEW a \in Agents,
             \/ Launch(s, a) \/ LaunchRefused(s, a) \/ \E t \in Turns : SendResumes(s, t, a)
      PROVE  AgentsStartEmpty'
  <2>1. stage[a] = "unused" /\ UNCHANGED <<queue, handed>>
    BY <1>6 DEF Launch, LaunchRefused, SendResumes, FreshAgent
  <2>2. queue[a] = <<>> /\ handed[a] = <<>>
    BY <1>0, <2>1 DEF Begun
  <2>3. \A b \in Agents : b # a => stage'[b] = stage[b]
    BY <1>0, <1>6 DEF Launch, LaunchRefused, SendResumes
  <2> QED
    BY <1>0, <2>1, <2>2, <2>3 DEF AgentsStartEmpty, Begun
<1>7. ASSUME NEW a \in Agents, ResumeStarts(a) PROVE AgentsStartEmpty'
  <2>1. /\ stage[a] = "resolving" /\ stage' = [stage EXCEPT ![a] = "scheduled"]
        /\ RunOrQueue(a, queued[owner[a]])
    BY <1>7 DEF ResumeStarts, SendAll
  <2>2. \A b \in Agents : b # a => queue'[b] = queue[b] /\ handed'[b] = handed[b]
    BY <1>0, <2>1 DEF RunOrQueue
  <2> QED
    BY <1>0, <2>1, <2>2 DEF AgentsStartEmpty, Begun
<1>8. ASSUME NEW a \in Agents,
             ResumeRefused(a) \/ AnnounceRoot(a) \/ AdapterReady(a) \/ FinishRoot(a)
      PROVE  AgentsStartEmpty'
  <2>1. CASE ResumeRefused(a) \/ AnnounceRoot(a)
    BY <1>0, <2>1 DEF ResumeRefused, AnnounceRoot, AgentsStartEmpty, Begun
  <2>2. CASE AdapterReady(a)
    BY <1>0, <2>2 DEF AdapterReady, AgentsStartEmpty, Begun
  <2>3. CASE FinishRoot(a)
    BY <1>0, <2>3 DEF FinishRoot, AgentsStartEmpty, Begun
  <2> QED
    BY <1>8, <2>1, <2>2, <2>3
<1>9. CASE Crash
  BY <1>0, <1>9 DEF Crash, AgentsStartEmpty, Begun
<1>10. ASSUME NEW s \in Sessions, NEW t \in Turns,
              SendQueued(s, t) \/ SendUnknown(s, t) \/ InterruptIdle(s)
       PROVE  AgentsStartEmpty'
  BY <1>2, <1>10 DEF SendQueued, SendUnknown, InterruptIdle
<1>11. ASSUME NEW s \in Sessions, InterruptIdle(s) PROVE AgentsStartEmpty'
  BY <1>2, <1>11 DEF InterruptIdle
<1>12. CASE Restart \/ UNCHANGED vars
  BY <1>2, <1>12 DEF Restart, vars
<1> QED
  BY <1>3, <1>4, <1>6, <1>7, <1>8, <1>9, <1>10, <1>11, <1>12
  DEF Next, AdapterFails, RootFinishes

(* Before the first turn is sent every turn is nowhere.                       *)
LEMMA PlaceInvInit == Init => PlaceInv
<1> SUFFICES ASSUME Init PROVE PlaceInv
  OBVIOUS
<1>1. /\ \A s \in Sessions : Items(queued[s]) = {}
      /\ \A a \in Agents : Items(queue[a]) = {} /\ Items(handed[a]) = {}
  BY ItemsEmpty DEF Init
<1>2. \A t \in Turns : Unsent(t)
  BY <1>1, RunManagerAssumption DEF Init, Unsent, Sits
<1> QED
  BY <1>2 DEF Init, PlaceInv, QueueOnlyInResume, AgentsStartEmpty, OnePlace

(* The invariant of the places holds in every reachable state.                *)
LEMMA PlaceInvAlways == Spec => [](AgentInv /\ TypeOK /\ PlaceInv)
<1>1. Init => AgentInv /\ TypeOK /\ PlaceInv
  BY AgentInvInit, PlaceInvInit
<1>2. (AgentInv /\ TypeOK /\ PlaceInv) /\ [Next]_vars => (AgentInv /\ TypeOK /\ PlaceInv)'
  <2> SUFFICES ASSUME AgentInv, TypeOK, PlaceInv, [Next]_vars
               PROVE  (AgentInv /\ TypeOK /\ PlaceInv)'
    OBVIOUS
  <2>1. \A u \in Turns : OnePlace(u)'
    BY PlacesKept
  <2>2. PlaceInv'
    BY <2>1, QueueKeyKept, AgentsStartEmptyKept DEF PlaceInv
  <2> QED
    BY <2>2, AgentInvInductive
<1> QED
  BY <1>1, <1>2, PTL DEF Spec

(* Where a turn sits is its one place.                                        *)
LEMMA PlacesOf ==
  ASSUME NEW t
  PROVE  /\ Sits(t, NoSession, NoAgent, NoAgent, FALSE) => Places(t) = {}
         /\ \A s \in Sessions :
              Sits(t, s, NoAgent, NoAgent, FALSE) => Places(t) = {<<"queued", s>>}
         /\ \A a \in Agents :
              Sits(t, NoSession, a, NoAgent, FALSE) => Places(t) = {<<"queue", a>>}
         /\ \A a \in Agents :
              Sits(t, NoSession, NoAgent, a, FALSE) => Places(t) = {<<"handed", a>>}
         /\ Sits(t, NoSession, NoAgent, NoAgent, TRUE) => Places(t) = {<<"discarded", 0>>}
<1> DEFINE Z == {z \in Sessions : t \in Items(queued[z])}
           U == {c \in Agents : t \in Items(queue[c])}
           H == {c \in Agents : t \in Items(handed[c])}
           D == {d \in {0} : t \in discarded}
<1>0. Places(t) = ({"queued"} \X Z) \cup ({"queue"} \X U) \cup ({"handed"} \X H)
                    \cup ({"discarded"} \X D)
  BY DEF Places
<1>1. ASSUME Sits(t, NoSession, NoAgent, NoAgent, FALSE) PROVE Places(t) = {}
  <2>1. Z = {} /\ U = {} /\ H = {} /\ D = {}
    BY <1>1, RunManagerAssumption DEF Sits
  <2> HIDE DEF Z, U, H, D
  <2> QED
    BY <1>0, <2>1
<1>2. ASSUME NEW s \in Sessions, Sits(t, s, NoAgent, NoAgent, FALSE)
      PROVE  Places(t) = {<<"queued", s>>}
  <2>1. Z = {s} /\ U = {} /\ H = {} /\ D = {}
    BY <1>2, RunManagerAssumption DEF Sits
  <2> HIDE DEF Z, U, H, D
  <2> QED
    BY <1>0, <2>1
<1>3. ASSUME NEW a \in Agents, Sits(t, NoSession, a, NoAgent, FALSE)
      PROVE  Places(t) = {<<"queue", a>>}
  <2>1. Z = {} /\ U = {a} /\ H = {} /\ D = {}
    BY <1>3, RunManagerAssumption DEF Sits
  <2> HIDE DEF Z, U, H, D
  <2> QED
    BY <1>0, <2>1
<1>4. ASSUME NEW a \in Agents, Sits(t, NoSession, NoAgent, a, FALSE)
      PROVE  Places(t) = {<<"handed", a>>}
  <2>1. Z = {} /\ U = {} /\ H = {a} /\ D = {}
    BY <1>4, RunManagerAssumption DEF Sits
  <2> HIDE DEF Z, U, H, D
  <2> QED
    BY <1>0, <2>1
<1>5. ASSUME Sits(t, NoSession, NoAgent, NoAgent, TRUE)
      PROVE  Places(t) = {<<"discarded", 0>>}
  <2>1. Z = {} /\ U = {} /\ H = {} /\ D = {0}
    BY <1>5, RunManagerAssumption DEF Sits
  <2> HIDE DEF Z, U, H, D
  <2> QED
    BY <1>0, <2>1
<1> QED
  BY <1>1, <1>2, <1>3, <1>4, <1>5

(* A turn the user sent is in exactly one place, whatever resumes, interrupts,   *)
(* ends and crashes come in between (manager.ts 219-321, runtime.ts 142-159). *)
THEOREM TurnsInOnePlace == Spec => []TurnsAccounted
<1>1. ASSUME AgentInv, TypeOK, PlaceInv, NEW t \in Turns
      PROVE  Cardinality(Places(t)) = IF sentTo[t] = NoSession THEN 0 ELSE 1
  <2>0. OnePlace(t)
    BY <1>1 DEF PlaceInv
  <2>1. CASE Unsent(t)
    <3>1. Places(t) = {}
      BY <2>1, PlacesOf DEF Unsent
    <3> QED
      BY <2>1, <3>1, FS_EmptySet DEF Unsent
  <2>2. ASSUME NEW p, Places(t) = {p}, sentTo[t] \in Sessions
        PROVE  Cardinality(Places(t)) = IF sentTo[t] = NoSession THEN 0 ELSE 1
    BY <2>2, FS_Singleton, RunManagerAssumption
  <2>3. CASE Queued(t)
    <3>1. Places(t) = {<<"queued", sentTo[t]>>}
      BY <2>3, PlacesOf DEF Queued
    <3> QED
      BY <2>2, <2>3, <3>1 DEF Queued
  <2>4. CASE Held(t)
    <3>1. PICK a \in Agents : Sits(t, NoSession, a, NoAgent, FALSE)
      BY <2>4 DEF Held, Begun
    <3>2. Places(t) = {<<"queue", a>>}
      BY <3>1, PlacesOf
    <3> QED
      BY <2>2, <2>4, <3>2 DEF Held
  <2>5. CASE Handed(t)
    <3>1. PICK a \in Agents : Sits(t, NoSession, NoAgent, a, FALSE)
      BY <2>5 DEF Handed, Begun
    <3>2. Places(t) = {<<"handed", a>>}
      BY <3>1, PlacesOf
    <3> QED
      BY <2>2, <2>5, <3>2 DEF Handed
  <2>6. CASE Gone(t)
    <3>1. Places(t) = {<<"discarded", 0>>}
      BY <2>6, PlacesOf DEF Gone
    <3> QED
      BY <2>2, <2>6, <3>1 DEF Gone
  <2> QED
    BY <2>0, <2>1, <2>3, <2>4, <2>5, <2>6 DEF OnePlace
<1>2. ASSUME AgentInv, TypeOK, PlaceInv, NEW t \in Turns, NEW s \in Sessions,
             t \in Items(queued[s])
      PROVE  sentTo[t] = s
  BY <1>2, InQueue
<1>3. ASSUME AgentInv, TypeOK, PlaceInv, NEW t \in Turns, NEW a \in Agents,
             t \in Items(queue[a] \o handed[a])
      PROVE  sentTo[t] = owner[a]
  <2>1. t \in Items(queue[a]) \/ t \in Items(handed[a])
    BY <1>3, ItemsConcat DEF TypeOK, TurnTypeOK
  <2> QED
    BY <1>3, <2>1, RunManagerAssumption
    DEF PlaceInv, OnePlace, Unsent, Queued, Held, Handed, Gone, Sits, Begun
<1>4. AgentInv /\ TypeOK /\ PlaceInv => TurnsAccounted
  BY <1>1, <1>2, <1>3 DEF TurnsAccounted
<1> QED
  BY <1>4, PlaceInvAlways, PTL

-----------------------------------------------------------------------------
(* The refinement.                                                            *)

(* The place of a turn is its fate.                                           *)
LEMMA FateOfPlace ==
  ASSUME NEW t \in Turns
  PROVE  /\ Unsent(t) => Fate(t) = "unsent"
         /\ Queued(t) => Fate(t) = "waiting"
         /\ Waits(t) => Fate(t) \in Delivery!Unsettled
         /\ Waits(t)' => Fate(t)' \in Delivery!Unsettled
         /\ Handed(t)' => Fate(t)' = "handed"
         /\ Gone(t)' => Fate(t)' = "discarded"
BY RunManagerAssumption
DEF Fate, Unsent, Waits, Queued, Held, Handed, Gone, Sits, Begun, Delivery!Unsettled

(* An agent that stops connecting has no queue left, and one starts to when     *)
(* its root is announced.                                                    *)
LEMMA ConnectingKept ==
  ASSUME TypeOK, [Next]_vars, ~ \E a \in Agents : AnnounceRoot(a), NEW c \in Agents
  PROVE  /\ stage'[c] = "connecting" => stage[c] = "connecting"
         /\ stage[c] = "connecting" => stage'[c] = "connecting" \/ queue'[c] = <<>>
<1>0. stage \in [Agents -> Stages] /\ queue \in [Agents -> Seq(Commands)]
  BY DEF TypeOK, ControlTypeOK, TurnTypeOK
<1>1. CASE \E s \in Sessions, a \in Agents : Launch(s, a) \/ LaunchRefused(s, a)
  BY <1>0, <1>1 DEF Launch, LaunchRefused, FreshAgent
<1>2. CASE \E s \in Sessions, t \in Turns : SendLive(s, t) \/ SendQueued(s, t) \/ SendUnknown(s, t)
  BY <1>2 DEF SendLive, SendQueued, SendUnknown
<1>3. CASE \E s \in Sessions, t \in Turns, a \in Agents : SendResumes(s, t, a)
  BY <1>0, <1>3 DEF SendResumes, FreshAgent
<1>4. CASE \E s \in Sessions : InterruptLive(s) \/ InterruptIdle(s)
  BY <1>4 DEF InterruptLive, InterruptIdle
<1>5. CASE \E a \in Agents : ResumeStarts(a) \/ ResumeRefused(a)
  BY <1>0, <1>5 DEF ResumeStarts, ResumeRefused
<1>6. CASE \E a \in Agents : AdapterReady(a) \/ FinishRoot(a)
  BY <1>0, <1>6 DEF AdapterReady, FinishRoot
<1>7. CASE Crash \/ Restart \/ UNCHANGED vars
  BY <1>7 DEF Crash, Restart, vars
<1> QED
  BY <1>1, <1>2, <1>3, <1>4, <1>5, <1>6, <1>7 DEF Next, AdapterFails, RootFinishes

(* A turn to which nothing happens keeps its fate, unless its agent begins to   *)
(* connect.                                                                 *)
LEMMA SameFate ==
  ASSUME TypeOK, [Next]_vars, ~ \E a \in Agents : AnnounceRoot(a), NEW t \in Turns, Same(t)
  PROVE  Fate(t)' = Fate(t)
<1>1. \A a \in Agents : (stage[a] = "connecting" /\ t \in Items(queue[a]))
                       <=> (stage'[a] = "connecting" /\ t \in Items(queue'[a]))
  BY ConnectingKept, ItemsEmpty DEF Same
<1> QED
  BY <1>1 DEF Same, Fate

(* A step that takes some of the turns that wait to one fate settles them.    *)
LEMMA Settles ==
  ASSUME NEW f \in {"entrusted", "handed", "discarded"},
         \A u \in Turns : Fate(u)' = Fate(u) \/ (Fate(u) \in Delivery!Unsettled /\ Fate(u)' = f)
  PROVE  Delivery!Settle
<1> DEFINE settled == {u \in Turns : Fate(u) \in Delivery!Unsettled /\ Fate(u)' = f}
           fate == [t \in Turns |-> Fate(t)]
<1>1. fate' = [u \in Turns |-> IF u \in settled THEN f ELSE fate[u]]
  OBVIOUS
<1>2. settled \in SUBSET {u \in Turns : fate[u] \in Delivery!Unsettled}
  OBVIOUS
<1> QED
  BY <1>1, <1>2 DEF Delivery!Settle

(* Every behaviour of the run manager is one of TurnDelivery: a turn is handed   *)
(* over at most once, and what was handed over or thrown away stays so.       *)
THEOREM ImplementsTurnDelivery == Spec => Delivery!Spec
<1> DEFINE fate == [t \in Turns |-> Fate(t)]
<1>1. Init => Delivery!Init
  BY DEF Init, Delivery!Init, Fate
<1>2. ASSUME AgentInv, TypeOK, PlaceInv, [Next]_vars
      PROVE  Delivery!Next \/ UNCHANGED fate
  <2>0. CASE \E a \in Agents : AnnounceRoot(a)
    <3>1. UNCHANGED <<queue, handed, sentTo, discarded>>
      BY <2>0 DEF AnnounceRoot, history
    <3>2. \A a \in Agents : stage[a] = "connecting" => stage'[a] = "connecting"
      BY <1>2, <2>0 DEF AnnounceRoot, TypeOK, ControlTypeOK
    <3>3. \A u \in Turns : Fate(u)' = Fate(u) \/ (Fate(u) = "waiting" /\ Fate(u)' = "entrusted")
      BY <3>1, <3>2 DEF Fate
    <3> QED
      BY <3>3, Settles DEF Delivery!Next, Delivery!Unsettled
  <2> SUFFICES ASSUME ~ \E a \in Agents : AnnounceRoot(a)
               PROVE  Delivery!Next \/ UNCHANGED fate
    BY <2>0
  <2>1. CASE SendsOne
    <3>1. PICK t \in Turns : /\ Unsent(t) /\ (Waits(t)' \/ Handed(t)' \/ Gone(t)')
                             /\ \A u \in Turns \ {t} : Same(u)
      BY <2>1 DEF SendsOne
    <3>2. Fate(t) = "unsent" /\ \A u \in Turns \ {t} : Fate(u)' = Fate(u)
      BY <1>2, <3>1, FateOfPlace, SameFate
    <3>4. PICK f \in {"waiting", "entrusted", "handed", "discarded"} : Fate(t)' = f
      BY <3>1, FateOfPlace DEF Delivery!Unsettled
    <3>5. fate' = [fate EXCEPT ![t] = f]
      BY <3>2, <3>4
    <3> QED
      BY <3>2, <3>4, <3>5 DEF Delivery!Next, Delivery!Send, Delivery!Fates
  <2>2. CASE MovesOn
    <3>1. \A u \in Turns :
            Fate(u)' = Fate(u) \/ (Fate(u) = "waiting" /\ Fate(u)' = "entrusted")
      BY <1>2, <2>2, FateOfPlace, SameFate DEF MovesOn, Waits, Delivery!Unsettled
    <3> QED
      BY <3>1, Settles DEF Delivery!Next, Delivery!Unsettled
  <2>3. CASE HandsOver
    <3>1. \A u \in Turns :
            Fate(u)' = Fate(u) \/ (Fate(u) \in Delivery!Unsettled /\ Fate(u)' = "handed")
      BY <1>2, <2>3, FateOfPlace, SameFate DEF HandsOver
    <3> QED
      BY <3>1, Settles DEF Delivery!Next
  <2>4. CASE ThrowsAway
    <3>1. \A u \in Turns :
            Fate(u)' = Fate(u) \/ (Fate(u) \in Delivery!Unsettled /\ Fate(u)' = "discarded")
      BY <1>2, <2>4, FateOfPlace, SameFate DEF ThrowsAway
    <3> QED
      BY <3>1, Settles DEF Delivery!Next
  <2> QED
    BY <1>2, <2>1, <2>2, <2>3, <2>4, EveryStep
<1> QED
  BY <1>1, <1>2, PlaceInvAlways, PTL DEF Spec, Delivery!Spec

-----------------------------------------------------------------------------
(***************************************************************************)
(* The order of the turns.  Turns are numbered as they are sent, so a queue   *)
(* is in order when its numbers increase, and a turn that is sent now goes    *)
(* to the end of any queue.                                                   *)
(***************************************************************************)

(* The turns in a sequence have increasing numbers.                           *)
Increasing(seq) ==
  \A i, j \in DOMAIN seq :
    i < j /\ seq[i] \in Turns /\ seq[j] \in Turns => seq[i] < seq[j]

(* A turn that was sent has a lower number than one that was not.             *)
SentInOrder ==
  \A t, u \in Turns : sentTo[t] # NoSession /\ sentTo[u] = NoSession => t < u

OrderInv ==
  /\ SentInOrder
  /\ \A s \in Sessions : Increasing(queued[s])
  /\ \A a \in Agents : Increasing(handed[a] \o queue[a])

(* A command goes to the end when it is no turn, or a later one.              *)
LEMMA IncreasingAppend ==
  ASSUME NEW S, NEW seq \in Seq(S), NEW c \in S, Increasing(seq),
         c \in Turns => \A t \in Items(seq) \cap Turns : t < c
  PROVE  Increasing(seq \o <<c>>)
<1>1. /\ Len(seq) \in Nat /\ DOMAIN seq = 1..Len(seq)
      /\ <<c>> \in Seq(S) /\ Len(<<c>>) = 1 /\ seq \o <<c>> \in Seq(S)
  BY LenProperties, ConcatProperties
<1>2. /\ Len(seq \o <<c>>) = Len(seq) + 1
      /\ \A i \in 1..Len(seq) + 1 :
           (seq \o <<c>>)[i] = IF i <= Len(seq) THEN seq[i] ELSE <<c>>[i - Len(seq)]
  BY <1>1, ConcatProperties
<1>3. DOMAIN (seq \o <<c>>) = 1..Len(seq) + 1
  BY <1>1, <1>2, LenProperties
<1>4. /\ \A i \in 1..Len(seq) : (seq \o <<c>>)[i] = seq[i] /\ seq[i] \in Items(seq)
      /\ (seq \o <<c>>)[Len(seq) + 1] = c
  BY <1>1, <1>2 DEF Items
<1> QED
  BY <1>1, <1>3, <1>4 DEF Increasing

(* A prefix of a sequence in order is in order.                               *)
LEMMA IncreasingPrefix ==
  ASSUME NEW S, NEW p \in Seq(S), NEW q \in Seq(S), Increasing(p \o q)
  PROVE  Increasing(p)
<1>1. /\ Len(p) \in Nat /\ Len(q) \in Nat /\ DOMAIN p = 1..Len(p)
      /\ DOMAIN (p \o q) = 1..Len(p) + Len(q)
      /\ \A i \in 1..Len(p) : (p \o q)[i] = p[i]
  BY LenProperties, ConcatProperties
<1> QED
  BY <1>1 DEF Increasing

(* What waits or was handed over has been sent, so a turn sent now is later.  *)
LEMMA FreshIsLater ==
  ASSUME AgentInv, TypeOK, PlaceInv, OrderInv, NEW t \in Turns, sentTo[t] = NoSession
  PROVE  /\ \A s \in Sessions : \A u \in Items(queued[s]) : u < t
         /\ \A a \in Agents : \A u \in Items(handed[a] \o queue[a]) \cap Turns : u < t
<1>1. ASSUME NEW s \in Sessions, NEW u \in Items(queued[s]) PROVE u < t
  BY <1>1, InQueue, RunManagerAssumption DEF OrderInv, SentInOrder
<1>2. ASSUME NEW a \in Agents, NEW u \in Items(handed[a] \o queue[a]) \cap Turns
      PROVE  u < t
  <2>1. u \in Items(handed[a]) \/ u \in Items(queue[a])
    BY ItemsConcat DEF TypeOK, TurnTypeOK
  <2>2. sentTo[u] # NoSession
    BY <2>1, RunManagerAssumption
    DEF PlaceInv, OnePlace, Unsent, Queued, Held, Handed, Gone, Sits
  <2> QED
    BY <2>2 DEF OrderInv, SentInOrder
<1> QED
  BY <1>1, <1>2

(* Turns are sent in the order of their numbers.                              *)
LEMMA SentInOrderKept ==
  ASSUME TypeOK, SentInOrder, [Next]_vars
  PROVE  SentInOrder'
<1>1. ASSUME NEW s \in Sessions, NEW t \in Turns, Sends(s, t) PROVE SentInOrder'
  <2>1. /\ sentTo[t] = NoSession /\ \A u \in Turns : sentTo[u] = NoSession => t <= u
        /\ sentTo'[t] = s /\ \A u \in Turns : u # t => sentTo'[u] = sentTo[u]
    BY <1>1 DEF Sends, FreshTurn, TypeOK, TurnTypeOK
  <2>2. Turns \subseteq Nat /\ NoSession \notin Sessions
    BY RunManagerAssumption
  <2> QED
    BY <2>1, <2>2 DEF SentInOrder
<1>2. CASE UNCHANGED sentTo
  BY <1>2 DEF SentInOrder
<1>3. ASSUME NEW s \in Sessions, NEW t \in Turns,
             \/ SendLive(s, t) \/ SendQueued(s, t) \/ SendUnknown(s, t)
             \/ \E a \in Agents : SendResumes(s, t, a)
      PROVE  SentInOrder'
  BY <1>1, <1>3 DEF SendLive, SendQueued, SendUnknown, SendResumes
<1>4. ASSUME NEW s \in Sessions, NEW a \in Agents, Launch(s, a) \/ LaunchRefused(s, a)
      PROVE  SentInOrder'
  BY <1>2, <1>4 DEF Launch, LaunchRefused, history
<1>5. ASSUME NEW s \in Sessions, InterruptLive(s) \/ InterruptIdle(s) PROVE SentInOrder'
  BY <1>2, <1>5 DEF InterruptLive, InterruptIdle
<1>6. ASSUME NEW a \in Agents,
             \/ ResumeStarts(a) \/ ResumeRefused(a) \/ AnnounceRoot(a)
             \/ AdapterReady(a) \/ FinishRoot(a)
      PROVE  SentInOrder'
  BY <1>2, <1>6
  DEF ResumeStarts, ResumeRefused, AnnounceRoot, AdapterReady, FinishRoot, history
<1>7. CASE Crash \/ Restart \/ UNCHANGED vars
  BY <1>2, <1>7 DEF Crash, Restart, vars, history
<1> QED
  BY <1>3, <1>4, <1>5, <1>6, <1>7 DEF Next, AdapterFails, RootFinishes

(* The queues of the sessions stay in order.                                  *)
LEMMA QueuedOrderKept ==
  ASSUME AgentInv, TypeOK, PlaceInv, OrderInv, [Next]_vars, NEW z \in Sessions
  PROVE  Increasing(queued'[z])
<1>0. queued \in [Sessions -> Seq(Turns)] /\ Increasing(queued[z])
  BY DEF TypeOK, TurnTypeOK, OrderInv
<1>1. Increasing(<<>>)
  BY DEF Increasing
<1>2. ASSUME NEW s \in Sessions, DropQueue(s) PROVE Increasing(queued'[z])
  <2>1. queued'[z] = <<>> \/ queued'[z] = queued[z]
    BY <1>0, <1>2 DEF DropQueue
  <2> QED
    BY <1>0, <1>1, <2>1
<1>3. CASE UNCHANGED queued
  BY <1>0, <1>3
<1>4. ASSUME NEW s \in Sessions, NEW t \in Turns, SendQueued(s, t)
      PROVE  Increasing(queued'[z])
  <2>1. sentTo[t] = NoSession /\ queued' = [queued EXCEPT ![s] = Append(@, t)]
    BY <1>4 DEF SendQueued, Sends, FreshTurn
  <2>2. \A u \in Items(queued[s]) \cap Turns : u < t
    BY <2>1, FreshIsLater
  <2>3. Append(queued[s], t) = queued[s] \o <<t>>
    BY <1>0, AppendIsConcat
  <2>4. Increasing(queued[s] \o <<t>>)
    BY <1>0, <2>2, IncreasingAppend DEF OrderInv
  <2> QED
    BY <1>0, <2>1, <2>3, <2>4
<1>5. ASSUME NEW s \in Sessions, NEW t \in Turns, NEW a \in Agents, SendResumes(s, t, a)
      PROVE  Increasing(queued'[z])
  <2>1. queued' = [queued EXCEPT ![s] = <<t>>]
    BY <1>5 DEF SendResumes
  <2>2. Increasing(<<t>>)
    BY DEF Increasing
  <2> QED
    BY <1>0, <2>1, <2>2
<1>6. ASSUME NEW s \in Sessions, InterruptLive(s) \/ InterruptIdle(s)
      PROVE  Increasing(queued'[z])
  BY <1>2, <1>6 DEF InterruptLive, InterruptIdle
<1>7. ASSUME NEW a \in Agents, ResumeStarts(a) \/ ResumeRefused(a)
      PROVE  Increasing(queued'[z])
  BY <1>2, <1>7 DEF ResumeStarts, ResumeRefused, AgentInv, OwnerKnown
<1>8. ASSUME NEW s \in Sessions, NEW t \in Turns, SendLive(s, t) \/ SendUnknown(s, t)
      PROVE  Increasing(queued'[z])
  BY <1>3, <1>8 DEF SendLive, SendUnknown
<1>9. ASSUME NEW s \in Sessions, NEW a \in Agents, Launch(s, a) \/ LaunchRefused(s, a)
      PROVE  Increasing(queued'[z])
  BY <1>3, <1>9 DEF Launch, LaunchRefused
<1>10. ASSUME NEW a \in Agents, AnnounceRoot(a) \/ AdapterReady(a) \/ FinishRoot(a)
       PROVE  Increasing(queued'[z])
  BY <1>3, <1>10 DEF AnnounceRoot, AdapterReady, FinishRoot
<1>11. CASE Crash
  BY <1>1, <1>11 DEF Crash
<1>12. CASE Restart \/ UNCHANGED vars
  BY <1>3, <1>12 DEF Restart, vars
<1> QED
  BY <1>4, <1>5, <1>6, <1>7, <1>8, <1>9, <1>10, <1>11, <1>12
  DEF Next, AdapterFails, RootFinishes

(* A command given to an agent comes after all it was given before.           *)
LEMMA RunOrQueueAppends ==
  ASSUME TypeOK, AgentsStartEmpty, NEW a \in Agents, NEW cmds \in Seq(Commands),
         RunOrQueue(a, cmds)
  PROVE  /\ handed'[a] \o queue'[a] = (handed[a] \o queue[a]) \o cmds
         /\ \A b \in Agents \ {a} : handed'[b] = handed[b] /\ queue'[b] = queue[b]
<1>1. /\ queue \in [Agents -> Seq(Commands)] /\ handed \in [Agents -> Seq(Commands)]
      /\ queue[a] \in Seq(Commands) /\ handed[a] \in Seq(Commands)
      /\ handed[a] \o cmds \in Seq(Commands)
  BY ConcatProperties DEF TypeOK, TurnTypeOK
<1>2. CASE stage[a] = "ready"
  <2>1. queue[a] = <<>> /\ queue'[a] = <<>> /\ handed'[a] = handed[a] \o cmds
    BY <1>1, <1>2 DEF RunOrQueue, AgentsStartEmpty
  <2>2. handed[a] \o <<>> = handed[a] /\ (handed[a] \o cmds) \o <<>> = handed[a] \o cmds
    BY <1>1, ConcatEmptySeq
  <2> QED
    BY <1>1, <1>2, <2>1, <2>2 DEF RunOrQueue
<1>3. CASE stage[a] # "ready"
  <2>1. handed'[a] = handed[a] /\ queue'[a] = queue[a] \o cmds
    BY <1>1, <1>3 DEF RunOrQueue
  <2>2. handed[a] \o (queue[a] \o cmds) = (handed[a] \o queue[a]) \o cmds
    BY <1>1, ConcatAssociative
  <2> QED
    BY <1>1, <1>3, <2>1, <2>2 DEF RunOrQueue
<1> QED
  BY <1>2, <1>3

(* What an agent is given stays in order.                                     *)
LEMMA GivenOrderKept ==
  ASSUME AgentInv, TypeOK, PlaceInv, OrderInv, [Next]_vars, NEW b \in Agents
  PROVE  Increasing(handed'[b] \o queue'[b])
<1>0. /\ queue \in [Agents -> Seq(Commands)] /\ handed \in [Agents -> Seq(Commands)]
      /\ queued \in [Sessions -> Seq(Turns)]
      /\ AgentsStartEmpty /\ Increasing(handed[b] \o queue[b])
  BY DEF TypeOK, TurnTypeOK, PlaceInv, OrderInv
<1>1. ASSUME handed'[b] = handed[b], queue'[b] = queue[b]
      PROVE  Increasing(handed'[b] \o queue'[b])
  BY <1>0, <1>1
<1>2. ASSUME handed'[b] = handed[b], queue'[b] = <<>>
      PROVE  Increasing(handed'[b] \o queue'[b])
  <2>1. Increasing(handed[b]) /\ handed[b] \o <<>> = handed[b]
    BY <1>0, IncreasingPrefix, ConcatEmptySeq
  <2> QED
    BY <1>2, <2>1
<1>3. ASSUME NEW a \in Agents, NEW c \in Commands, RunOrQueue(a, <<c>>),
             c \in Turns => sentTo[c] = NoSession
      PROVE  Increasing(handed'[b] \o queue'[b])
  <2>1. <<c>> \in Seq(Commands) /\ handed[a] \o queue[a] \in Seq(Commands)
    BY <1>0, ConcatProperties
  <2>2. /\ handed'[a] \o queue'[a] = (handed[a] \o queue[a]) \o <<c>>
        /\ \A d \in Agents \ {a} : handed'[d] = handed[d] /\ queue'[d] = queue[d]
    BY <1>0, <1>3, <2>1, RunOrQueueAppends
  <2>3. c \in Turns => \A u \in Items(handed[a] \o queue[a]) \cap Turns : u < c
    BY <1>3, FreshIsLater
  <2>4. Increasing((handed[a] \o queue[a]) \o <<c>>)
    BY <2>1, <2>3, IncreasingAppend DEF OrderInv
  <2> QED
    BY <1>1, <2>2, <2>4
<1>4. ASSUME NEW s \in Sessions, NEW t \in Turns, SendLive(s, t)
      PROVE  Increasing(handed'[b] \o queue'[b])
  <2>1. PICK a \in Agents : a = live[s]
    BY <1>4 DEF SendLive, AgentInv, HandleIsTheAgent, AgentsOf
  <2>2. RunOrQueue(a, <<t>>) /\ sentTo[t] = NoSession /\ t \in Commands
    BY <1>4, <2>1 DEF SendLive, SendAll, Sends, FreshTurn, Commands
  <2> QED
    BY <1>3, <2>2
<1>5. ASSUME NEW s \in Sessions, InterruptLive(s)
      PROVE  Increasing(handed'[b] \o queue'[b])
  <2>1. PICK a \in Agents : a = live[s]
    BY <1>5 DEF InterruptLive, AgentInv, HandleIsTheAgent, AgentsOf
  <2>2. RunOrQueue(a, <<Interrupt>>) /\ Interrupt \in Commands
    BY <1>5, <2>1 DEF InterruptLive, Commands
  <2> QED
    BY <1>3, <2>2, RunManagerAssumption
<1>6. ASSUME NEW a \in Agents, ResumeStarts(a) PROVE Increasing(handed'[b] \o queue'[b])
  <2>1. PICK s \in Sessions : s = owner[a]
    BY <1>6 DEF AgentInv, OwnerKnown, ResumeStarts
  <2>2. RunOrQueue(a, queued[s]) /\ stage[a] = "resolving"
    BY <1>6, <2>1 DEF ResumeStarts, SendAll
  <2>3. queued[s] \in Seq(Commands) /\ <<>> \in Seq(Commands)
    BY <1>0, SeqMonotonic, EmptySeq DEF Commands
  <2>4. queue[a] = <<>> /\ handed[a] = <<>>
    BY <1>0, <2>2 DEF AgentsStartEmpty, Begun
  <2>5. (handed[a] \o queue[a]) \o queued[s] = queued[s]
    BY <2>3, <2>4, ConcatEmptySeq
  <2>6. /\ handed'[a] \o queue'[a] = queued[s]
        /\ \A d \in Agents \ {a} : handed'[d] = handed[d] /\ queue'[d] = queue[d]
    BY <1>0, <2>2, <2>3, <2>5, RunOrQueueAppends
  <2>7. Increasing(queued[s])
    BY DEF OrderInv
  <2> QED
    BY <1>1, <2>6, <2>7
<1>7. ASSUME NEW a \in Agents, AdapterReady(a) PROVE Increasing(handed'[b] \o queue'[b])
  <2>1. /\ handed'[a] = handed[a] \o queue[a] /\ queue'[a] = <<>>
        /\ \A d \in Agents \ {a} : handed'[d] = handed[d] /\ queue'[d] = queue[d]
    BY <1>0, <1>7 DEF AdapterReady
  <2>2. handed[a] \o queue[a] \in Seq(Commands)
    BY <1>0, ConcatProperties
  <2>3. (handed[a] \o queue[a]) \o <<>> = handed[a] \o queue[a]
    BY <2>2, ConcatEmptySeq
  <2> QED
    BY <1>0, <1>1, <2>1, <2>3
<1>8. ASSUME NEW a \in Agents, FinishRoot(a) PROVE Increasing(handed'[b] \o queue'[b])
  <2>1. handed'[b] = handed[b] /\ (queue'[b] = queue[b] \/ queue'[b] = <<>>)
    BY <1>0, <1>8 DEF FinishRoot
  <2> QED
    BY <1>1, <1>2, <2>1
<1>9. CASE Crash
  BY <1>2, <1>9 DEF Crash
<1>10. CASE UNCHANGED <<queue, handed>>
  BY <1>1, <1>10
<1>11. ASSUME NEW s \in Sessions, NEW t \in Turns, SendQueued(s, t) \/ SendUnknown(s, t)
       PROVE  Increasing(handed'[b] \o queue'[b])
  BY <1>10, <1>11 DEF SendQueued, SendUnknown
<1>12. ASSUME NEW s \in Sessions, NEW a \in Agents,
              \/ Launch(s, a) \/ LaunchRefused(s, a)
              \/ \E t \in Turns : SendResumes(s, t, a)
       PROVE  Increasing(handed'[b] \o queue'[b])
  BY <1>10, <1>12 DEF Launch, LaunchRefused, SendResumes
<1>13. ASSUME NEW s \in Sessions, InterruptIdle(s)
       PROVE  Increasing(handed'[b] \o queue'[b])
  BY <1>10, <1>13 DEF InterruptIdle
<1>14. ASSUME NEW a \in Agents, ResumeRefused(a) \/ AnnounceRoot(a)
       PROVE  Increasing(handed'[b] \o queue'[b])
  BY <1>10, <1>14 DEF ResumeRefused, AnnounceRoot
<1>15. CASE Restart \/ UNCHANGED vars
  BY <1>10, <1>15 DEF Restart, vars
<1> QED
  BY <1>4, <1>5, <1>6, <1>7, <1>8, <1>9, <1>11, <1>12, <1>13, <1>14, <1>15
  DEF Next, AdapterFails, RootFinishes

(* Before the first turn all is in order.                                     *)
LEMMA OrderInvInit == Init => OrderInv
<1>1. Increasing(<<>>) /\ <<>> \o <<>> = <<>>
  BY EmptySeq, ConcatEmptySeq DEF Increasing
<1> QED
  BY <1>1 DEF Init, OrderInv, SentInOrder

(* An agent is given a session's turns in the order the user sent them, through   *)
(* the resume queue and the runtime's queue (manager.ts 309-315, runtime.ts   *)
(* 142-159).                                                                  *)
THEOREM TurnsInOrder == Spec => []OrderKept
<1> DEFINE Inv == AgentInv /\ TypeOK /\ PlaceInv
<1>1. ASSUME Inv, OrderInv, [Next]_vars PROVE OrderInv'
  <2>1. SentInOrder'
    BY <1>1, SentInOrderKept DEF OrderInv
  <2>2. \A z \in Sessions : Increasing(queued'[z])
    BY <1>1, QueuedOrderKept
  <2>3. \A b \in Agents : Increasing(handed'[b] \o queue'[b])
    BY <1>1, GivenOrderKept
  <2> QED
    BY <2>1, <2>2, <2>3 DEF OrderInv, Increasing
<1>2. OrderInv => OrderKept
  BY DEF OrderInv, OrderKept, Increasing
<1> QED
  BY <1>1, <1>2, OrderInvInit, PlaceInvAlways, PTL DEF Spec

-----------------------------------------------------------------------------
(***************************************************************************)
(* The log.                                                                   *)
(***************************************************************************)

(* A root that has reported its end is over.                                  *)
FinishedAreOver ==
  \A s \in Sessions : \A e \in Items(log[s]) :
    e.kind = "finished" => stage[e.runner] = "over"

LogInv == FinishedAreOver /\ PersistedFirst /\ NothingAfterFinish

(* Events that are added under agents not over do not follow their end.       *)
LEMMA NothingAfterAppended ==
  ASSUME NEW p \in Seq(Events), NEW q \in Seq(Events), NEW a,
         \A i, j \in DOMAIN p :
           i < j /\ p[i].kind = "finished" => p[j].runner # p[i].runner,
         \A e \in Items(p) : e.kind = "finished" => e.runner # a,
         \A e \in Items(q) : e.runner = a,
         Len(q) = 1 \/ \A e \in Items(q) : e.kind # "finished"
  PROVE  \A i, j \in DOMAIN (p \o q) :
           i < j /\ (p \o q)[i].kind = "finished" => (p \o q)[j].runner # (p \o q)[i].runner
<1>1. /\ Len(p) \in Nat /\ Len(q) \in Nat /\ DOMAIN p = 1..Len(p) /\ DOMAIN q = 1..Len(q)
      /\ DOMAIN (p \o q) = 1..Len(p) + Len(q)
      /\ \A i \in 1..Len(p) + Len(q) :
           (p \o q)[i] = IF i <= Len(p) THEN p[i] ELSE q[i - Len(p)]
  BY LenProperties, ConcatProperties
<1>2. SUFFICES ASSUME NEW i \in 1..Len(p) + Len(q), NEW j \in 1..Len(p) + Len(q), i < j,
                      (p \o q)[i].kind = "finished"
               PROVE  (p \o q)[j].runner # (p \o q)[i].runner
  BY <1>1
<1>3. CASE j <= Len(p)
  BY <1>1, <1>2, <1>3
<1>4. CASE i <= Len(p) /\ ~(j <= Len(p))
  <2>1. (p \o q)[i] = p[i] /\ p[i] \in Items(p)
    BY <1>1, <1>4 DEF Items
  <2>2. j - Len(p) \in 1..Len(q) /\ (p \o q)[j] = q[j - Len(p)]
    BY <1>1, <1>4
  <2>3. q[j - Len(p)] \in Items(q)
    BY <1>1, <2>2 DEF Items
  <2> QED
    BY <1>2, <2>1, <2>2, <2>3
<1>5. CASE ~(i <= Len(p))
  <2>1. i - Len(p) \in 1..Len(q) /\ j - Len(p) \in 1..Len(q) /\ (p \o q)[i] = q[i - Len(p)]
    BY <1>1, <1>2, <1>5
  <2>2. q[i - Len(p)] \in Items(q) /\ Len(q) # 1
    BY <1>1, <1>2, <2>1 DEF Items
  <2> QED
    BY <1>2, <2>1, <2>2
<1> QED
  BY <1>1, <1>2, <1>3, <1>4, <1>5

(* Agent a, which is not over, adds the events q to its session's log.        *)
Logs(a, q) ==
  /\ stage[a] \in Working /\ owner[a] \in Sessions
  /\ log' = [log EXCEPT ![owner[a]] = @ \o q]
  /\ \A e \in Items(q) : e.runner = a /\ (e.kind = "finished" => stage'[a] = "over")
  /\ Len(q) = 1 \/ \A e \in Items(q) : e.kind # "finished"

(* An event that is appended is logged.                                       *)
LEMMA AppendLogs ==
  ASSUME TypeOK, NEW a \in Agents, NEW e \in Events, e.runner = a,
         stage[a] \in Working, owner[a] \in Sessions,
         e.kind = "finished" => stage'[a] = "over",
         log' = [log EXCEPT ![owner[a]] = Append(@, e)]
  PROVE  <<e>> \in Seq(Events) /\ Logs(a, <<e>>)
<1>1. <<e>> \in Seq(Events) /\ Len(<<e>>) = 1 /\ Items(<<e>>) = {e}
  BY ItemsOne
<1>2. Append(log[owner[a]], e) = log[owner[a]] \o <<e>>
  BY AppendIsConcat DEF TypeOK, TurnTypeOK
<1>3. log' = [log EXCEPT ![owner[a]] = @ \o <<e>>]
  BY <1>2
<1> QED
  BY <1>1, <1>3 DEF Logs

(* The echo of some turns is logged.                                          *)
LEMMA SendLogs ==
  ASSUME TypeOK, NEW a \in Agents, NEW turns \in Seq(Turns), SendAll(a, owner[a], turns),
         stage[a] \in Working, owner[a] \in Sessions
  PROVE  \E q \in Seq(Events) :
           Logs(a, q) /\ Items(q) = {UserEvent(a, t) : t \in Items(turns)}
<1> DEFINE q == [i \in DOMAIN turns |-> UserEvent(a, turns[i])]
<1>1. q \in Seq(Events) /\ Items(q) = {UserEvent(a, t) : t \in Items(turns)}
  BY UserEventsType, ItemsEcho
<1>2. log' = [log EXCEPT ![owner[a]] = @ \o q]
  BY DEF SendAll
<1> HIDE DEF q
<1>3. \A e \in Items(q) : e.runner = a /\ e.kind = "user"
  BY <1>1 DEF UserEvent
<1>4. Logs(a, q)
  BY <1>2, <1>3 DEF Logs
<1> QED
  BY <1>1, <1>4

(* Every event is logged by an agent that is not over.                        *)
LEMMA EveryLog ==
  ASSUME AgentInv, TypeOK, [Next]_vars
  PROVE  UNCHANGED log \/ \E a \in Agents, q \in Seq(Events) : Logs(a, q)
<1>0. /\ \A a \in Agents : stage[a] # "unused" => owner[a] \in Sessions
      /\ stage \in [Agents -> Stages]
  BY DEF AgentInv, OwnerKnown, ControlTypeOK
<1>1. ASSUME NEW s \in Sessions, NEW t \in Turns, SendLive(s, t)
      PROVE  \E a \in Agents, q \in Seq(Events) : Logs(a, q)
  <2>1. PICK a \in Agents : a = live[s] /\ stage[a] \in Started /\ owner[a] = s
    BY <1>1 DEF SendLive, AgentInv, HandleIsTheAgent, AgentsOf
  <2>2. SendAll(a, owner[a], <<t>>) /\ <<t>> \in Seq(Turns) /\ stage[a] \in Working
    BY <1>1, <2>1 DEF SendLive, Working
  <2> QED
    BY <2>1, <2>2, SendLogs
<1>2. ASSUME NEW a \in Agents, ResumeStarts(a)
      PROVE  \E q \in Seq(Events) : Logs(a, q)
  <2>1. /\ SendAll(a, owner[a], queued[owner[a]]) /\ stage[a] \in Working
        /\ owner[a] \in Sessions /\ queued[owner[a]] \in Seq(Turns)
    BY <1>0, <1>2 DEF ResumeStarts, Working, TypeOK, TurnTypeOK
  <2> QED
    BY <2>1, SendLogs
<1>3. ASSUME NEW a \in Agents, AnnounceRoot(a) PROVE \E q \in Seq(Events) : Logs(a, q)
  <2>1. /\ StartedEvent(a) \in Events /\ StartedEvent(a).runner = a
        /\ StartedEvent(a).kind # "finished"
    BY DEF StartedEvent, Events
  <2> QED
    BY <1>0, <1>3, <2>1, AppendLogs DEF AnnounceRoot, Working, Started
<1>4. ASSUME NEW a \in Agents, AdapterFails(a) \/ RootFinishes(a)
      PROVE  \E q \in Seq(Events) : Logs(a, q)
  <2>1. FinishedEvent(a) \in Events /\ FinishedEvent(a).runner = a
    BY DEF FinishedEvent, Events
  <2>2. stage[a] \in {"connecting", "ready"} /\ FinishRoot(a)
    BY <1>4 DEF AdapterFails, RootFinishes
  <2>3. stage'[a] = "over"
    BY <1>0, <2>2 DEF FinishRoot
  <2> QED
    BY <1>0, <2>1, <2>2, <2>3, AppendLogs DEF FinishRoot, Working, Started
<1>5. ASSUME NEW s \in Sessions, NEW t \in Turns, SendQueued(s, t) \/ SendUnknown(s, t)
      PROVE  UNCHANGED log
  BY <1>5 DEF SendQueued, SendUnknown
<1>6. ASSUME NEW s \in Sessions, NEW a \in Agents,
             \/ Launch(s, a) \/ LaunchRefused(s, a)
             \/ \E t \in Turns : SendResumes(s, t, a)
      PROVE  UNCHANGED log
  BY <1>6 DEF Launch, LaunchRefused, SendResumes
<1>7. ASSUME NEW s \in Sessions, InterruptLive(s) \/ InterruptIdle(s) PROVE UNCHANGED log
  BY <1>7 DEF InterruptLive, InterruptIdle
<1>8. ASSUME NEW a \in Agents, ResumeRefused(a) \/ AdapterReady(a) PROVE UNCHANGED log
  BY <1>8 DEF ResumeRefused, AdapterReady
<1>9. CASE Crash \/ Restart \/ UNCHANGED vars
  BY <1>9 DEF Crash, Restart, vars
<1> QED
  BY <1>1, <1>2, <1>3, <1>4, <1>5, <1>6, <1>7, <1>8, <1>9 DEF Next

(* What is over stays so.                                                     *)
LEMMA OverStays ==
  ASSUME AgentInv, [Next]_vars, NEW b \in Agents, stage[b] = "over"
  PROVE  stage'[b] = "over"
<1>0. stage \in [Agents -> Stages]
  BY DEF AgentInv, ControlTypeOK
<1>1. ASSUME NEW s \in Sessions, NEW a \in Agents,
             \/ Launch(s, a) \/ LaunchRefused(s, a)
             \/ \E t \in Turns : SendResumes(s, t, a)
      PROVE  stage'[b] = "over"
  BY <1>0, <1>1 DEF Launch, LaunchRefused, SendResumes, FreshAgent
<1>2. ASSUME NEW s \in Sessions, NEW t \in Turns,
             SendLive(s, t) \/ SendQueued(s, t) \/ SendUnknown(s, t)
      PROVE  stage'[b] = "over"
  BY <1>2 DEF SendLive, SendQueued, SendUnknown
<1>3. ASSUME NEW s \in Sessions, InterruptLive(s) \/ InterruptIdle(s)
      PROVE  stage'[b] = "over"
  BY <1>3 DEF InterruptLive, InterruptIdle
<1>4. ASSUME NEW a \in Agents,
             \/ ResumeStarts(a) \/ ResumeRefused(a) \/ AnnounceRoot(a)
             \/ AdapterReady(a) \/ FinishRoot(a)
      PROVE  stage'[b] = "over"
  BY <1>0, <1>4 DEF ResumeStarts, ResumeRefused, AnnounceRoot, AdapterReady, FinishRoot
<1>5. CASE Crash \/ Restart \/ UNCHANGED vars
  BY <1>5 DEF Crash, Restart, vars
<1> QED
  BY <1>1, <1>2, <1>3, <1>4, <1>5 DEF Next, AdapterFails, RootFinishes

(* No root logs anything after its end.                                       *)
LEMMA FinishKept ==
  ASSUME AgentInv, TypeOK, LogInv, [Next]_vars
  PROVE  FinishedAreOver' /\ NothingAfterFinish'
<1>0. log \in [Sessions -> Seq(Events)] /\ FinishedAreOver /\ NothingAfterFinish
  BY DEF TypeOK, TurnTypeOK, LogInv
<1>1. ASSUME NEW s \in Sessions, NEW e \in Items(log[s]), e.kind = "finished"
      PROVE  stage'[e.runner] = "over"
  <2>1. log[s] \in Seq(Events)
    BY <1>0
  <2>2. e \in Events
    BY <2>1, ItemsType
  <2>3. e.runner \in Agents
    BY <2>2 DEF Events
  <2> QED
    BY <1>0, <1>1, <2>3, OverStays DEF FinishedAreOver
<1>2. CASE UNCHANGED log
  BY <1>0, <1>1, <1>2 DEF FinishedAreOver, NothingAfterFinish
<1>3. ASSUME NEW a \in Agents, NEW q \in Seq(Events), Logs(a, q)
      PROVE  FinishedAreOver' /\ NothingAfterFinish'
  <2> DEFINE s == owner[a]
  <2>1. /\ s \in Sessions /\ log'[s] = log[s] \o q /\ stage[a] # "over"
        /\ \A z \in Sessions : z # s => log'[z] = log[z]
        /\ \A e \in Items(q) : e.runner = a /\ (e.kind = "finished" => stage'[a] = "over")
        /\ Len(q) = 1 \/ \A e \in Items(q) : e.kind # "finished"
    BY <1>0, <1>3 DEF Logs, Working, Started
  <2> HIDE DEF s
  <2>2. Items(log'[s]) = Items(log[s]) \cup Items(q)
    BY <1>0, <2>1, ItemsConcat
  <2>3. FinishedAreOver'
    BY <1>1, <2>1, <2>2 DEF FinishedAreOver
  <2>4. \A e \in Items(log[s]) : e.kind = "finished" => e.runner # a
    BY <1>0, <2>1 DEF FinishedAreOver
  <2>5. /\ log[s] \in Seq(Events)
        /\ \A i, j \in DOMAIN log[s] :
             i < j /\ log[s][i].kind = "finished" => log[s][j].runner # log[s][i].runner
    BY <1>0, <2>1 DEF NothingAfterFinish
  <2>6. \A i, j \in DOMAIN (log[s] \o q) :
          i < j /\ (log[s] \o q)[i].kind = "finished"
            => (log[s] \o q)[j].runner # (log[s] \o q)[i].runner
    BY <2>1, <2>4, <2>5, NothingAfterAppended
  <2>7. ASSUME NEW z \in Sessions, NEW i \in DOMAIN log'[z], NEW j \in DOMAIN log'[z],
               i < j, log'[z][i].kind = "finished"
        PROVE  log'[z][j].runner # log'[z][i].runner
    <3>1. CASE z = s
      BY <2>1, <2>6, <2>7, <3>1
    <3>2. CASE z # s
      BY <1>0, <2>1, <2>7, <3>2 DEF NothingAfterFinish
    <3> QED
      BY <3>1, <3>2
  <2>8. NothingAfterFinish'
    BY <2>7 DEF NothingAfterFinish
  <2> QED
    BY <2>3, <2>8
<1> QED
  BY <1>2, <1>3, EveryLog

(* The log only grows.                                                        *)
LEMMA LogGrows ==
  ASSUME AgentInv, TypeOK, [Next]_vars, NEW s \in Sessions
  PROVE  Items(log[s]) \subseteq Items(log'[s])
<1>0. log \in [Sessions -> Seq(Events)]
  BY DEF TypeOK, TurnTypeOK
<1>1. ASSUME NEW a \in Agents, NEW q \in Seq(Events), Logs(a, q)
      PROVE  Items(log[s]) \subseteq Items(log'[s])
  <2>1. log'[s] = log[s] \/ log'[s] = log[s] \o q
    BY <1>0, <1>1 DEF Logs
  <2>2. Items(log[s] \o q) = Items(log[s]) \cup Items(q)
    BY <1>0, ItemsConcat
  <2> QED
    BY <2>1, <2>2
<1> QED
  BY <1>1, EveryLog

(* What an agent has been given, or has waiting for it.                       *)
Has(a) == Items(handed[a]) \cup Items(queue[a])

(* A turn an agent gets is either one it has, or one that is echoed now.      *)
LEMMA GetsEchoed ==
  ASSUME AgentInv, TypeOK, PlaceInv, [Next]_vars, NEW b \in Agents,
         NEW t \in Turns, t \in Has(b)', t \notin Has(b)
  PROVE  owner'[b] \in Sessions /\ UserEvent(b, t) \in Items(log'[owner'[b]])
<1>0. /\ queue \in [Agents -> Seq(Commands)] /\ handed \in [Agents -> Seq(Commands)]
      /\ log \in [Sessions -> Seq(Events)]
      /\ \A a \in Agents : stage[a] # "unused" => owner[a] \in Sessions
  BY DEF TypeOK, TurnTypeOK, AgentInv, OwnerKnown
<1>1. ASSUME NEW a \in Agents, NEW turns \in Seq(Turns), SendAll(a, owner[a], turns),
             stage[a] \in Working, owner' = owner
      PROVE  owner'[b] \in Sessions /\ UserEvent(b, t) \in Items(log'[owner'[b]])
  <2>1. owner[a] \in Sessions
    BY <1>0, <1>1 DEF Working, Started
  <2>2. PICK q \in Seq(Events) :
          Logs(a, q) /\ Items(q) = {UserEvent(a, u) : u \in Items(turns)}
    BY <1>1, <2>1, SendLogs
  <2>3. b = a /\ t \in Items(turns)
    <3>1. turns \in Seq(Commands) /\ RunOrQueue(a, turns)
      BY <1>1, SeqMonotonic DEF Commands, SendAll
    <3> QED
      BY <3>1, RunOrQueueItems DEF Has
  <2>4. log'[owner[a]] = log[owner[a]] \o q
    BY <1>0, <2>1, <2>2 DEF Logs
  <2>5. Items(log[owner[a]] \o q) = Items(log[owner[a]]) \cup Items(q)
    BY <1>0, <2>1, ItemsConcat
  <2> QED
    BY <1>1, <2>1, <2>2, <2>3, <2>4, <2>5
<1>2. ASSUME NEW s \in Sessions, NEW u \in Turns, SendLive(s, u)
      PROVE  owner'[b] \in Sessions /\ UserEvent(b, t) \in Items(log'[owner'[b]])
  <2>1. PICK a \in Agents : a = live[s] /\ stage[a] \in Started /\ owner[a] = s
    BY <1>2 DEF SendLive, AgentInv, HandleIsTheAgent, AgentsOf
  <2>2. /\ SendAll(a, owner[a], <<u>>) /\ <<u>> \in Seq(Turns) /\ stage[a] \in Working
        /\ owner' = owner
    BY <1>2, <2>1 DEF SendLive, Working
  <2> QED
    BY <1>1, <2>2
<1>3. ASSUME NEW a \in Agents, ResumeStarts(a)
      PROVE  owner'[b] \in Sessions /\ UserEvent(b, t) \in Items(log'[owner'[b]])
  <2>1. /\ SendAll(a, owner[a], queued[owner[a]]) /\ stage[a] \in Working
        /\ queued[owner[a]] \in Seq(Turns) /\ owner' = owner
    BY <1>0, <1>3 DEF ResumeStarts, Working, TypeOK, TurnTypeOK
  <2> QED
    BY <1>1, <2>1
<1>4. ASSUME handed'[b] = handed[b], queue'[b] \in {queue[b], <<>>} PROVE FALSE
  BY <1>4, ItemsEmpty DEF Has
<1>5. ASSUME NEW a \in Agents, AdapterReady(a) PROVE FALSE
  <2>1. /\ handed'[a] = handed[a] \o queue[a] /\ queue'[a] = <<>>
        /\ \A c \in Agents : c # a => queue'[c] = queue[c] /\ handed'[c] = handed[c]
    BY <1>0, <1>5 DEF AdapterReady
  <2>2. Items(handed'[a]) = Items(handed[a]) \cup Items(queue[a]) /\ Items(queue'[a]) = {}
    BY <1>0, <2>1, ItemsConcat, ItemsEmpty
  <2>3. CASE b = a
    <3>1. Has(b)' = Has(b)
      BY <2>2, <2>3 DEF Has
    <3> QED
      BY <3>1
  <2>4. CASE b # a
    BY <1>4, <2>1, <2>4
  <2> QED
    BY <2>3, <2>4
<1>6. ASSUME NEW a \in Agents, FinishRoot(a) PROVE FALSE
  BY <1>0, <1>4, <1>6 DEF FinishRoot
<1>7. ASSUME NEW s \in Sessions, InterruptLive(s) PROVE FALSE
  <2>1. PICK a \in Agents : a = live[s]
    BY <1>7 DEF InterruptLive, AgentInv, HandleIsTheAgent, AgentsOf
  <2>2. RunOrQueue(a, <<Interrupt>>) /\ <<Interrupt>> \in Seq(Commands)
    BY <1>7, <2>1 DEF InterruptLive, Commands
  <2>3. Items(<<Interrupt>>) = {Interrupt}
    BY ItemsOne
  <2>4. /\ Items(handed'[b]) \subseteq Items(handed[b]) \cup Items(<<Interrupt>>)
        /\ Items(queue'[b]) \subseteq Items(queue[b]) \cup Items(<<Interrupt>>)
    BY <2>2, RunOrQueueItems
  <2>5. t # Interrupt
    BY RunManagerAssumption
  <2> QED
    BY <2>3, <2>4, <2>5 DEF Has
<1>8. ASSUME NEW s \in Sessions, NEW u \in Turns, SendQueued(s, u) \/ SendUnknown(s, u)
      PROVE  FALSE
  BY <1>4, <1>8 DEF SendQueued, SendUnknown
<1>9. ASSUME NEW s \in Sessions, NEW a \in Agents,
             \/ Launch(s, a) \/ LaunchRefused(s, a)
             \/ \E u \in Turns : SendResumes(s, u, a)
      PROVE  FALSE
  BY <1>4, <1>9 DEF Launch, LaunchRefused, SendResumes
<1>10. ASSUME NEW s \in Sessions, InterruptIdle(s) PROVE FALSE
  BY <1>4, <1>10 DEF InterruptIdle
<1>11. ASSUME NEW a \in Agents, ResumeRefused(a) \/ AnnounceRoot(a) PROVE FALSE
  BY <1>4, <1>11 DEF ResumeRefused, AnnounceRoot
<1>12. CASE Crash \/ Restart \/ UNCHANGED vars
  BY <1>4, <1>12 DEF Crash, Restart, vars
<1> QED
  BY <1>2, <1>3, <1>5, <1>6, <1>7, <1>8, <1>9, <1>10, <1>11, <1>12
  DEF Next, AdapterFails, RootFinishes

(* The items of both parts, as PersistedFirst has them.                       *)
LEMMA HasItems ==
  ASSUME TypeOK, NEW a \in Agents
  PROVE  Items(handed[a] \o queue[a]) = Has(a)
BY ItemsConcat DEF TypeOK, TurnTypeOK, Has

(* An agent has nothing that was not persisted before.                        *)
LEMMA PersistedKept ==
  ASSUME AgentInv, TypeOK, TypeOK', PlaceInv, PersistedFirst, [Next]_vars
  PROVE  PersistedFirst'
<1>1. ASSUME NEW b \in Agents, NEW t \in Turns, t \in Has(b)'
      PROVE  UserEvent(b, t) \in Items(log'[owner'[b]])
  <2>1. CASE t \notin Has(b)
    BY <1>1, <2>1, GetsEchoed
  <2>2. CASE t \in Has(b)
    <3>1. b \in Begun
      BY <2>2, ItemsEmpty DEF PlaceInv, AgentsStartEmpty, Has
    <3>2. owner'[b] = owner[b] /\ owner[b] \in Sessions
      BY <3>1, BegunStays DEF Begun, AgentInv, OwnerKnown
    <3>3. UserEvent(b, t) \in Items(log[owner[b]])
      BY <2>2, HasItems DEF PersistedFirst
    <3> QED
      BY <3>2, <3>3, LogGrows
  <2> QED
    BY <2>1, <2>2
<1>2. \A a \in Agents : Items(handed'[a] \o queue'[a]) = Has(a)'
  BY ItemsConcat DEF TypeOK, TurnTypeOK, Has
<1> QED
  BY <1>1, <1>2 DEF PersistedFirst

(* What is said of the log holds in every reachable state.                    *)
LEMMA LogInvAlways == Spec => []LogInv
<1> DEFINE Inv == AgentInv /\ TypeOK /\ PlaceInv
<1>1. Init => LogInv
  <2> SUFFICES ASSUME Init PROVE LogInv
    OBVIOUS
  <2>1. \A a \in Agents : handed[a] \o queue[a] = <<>>
    BY EmptySeq, ConcatEmptySeq DEF Init
  <2>2. \A s \in Sessions : log[s] = <<>>
    BY DEF Init
  <2>3. PersistedFirst
    BY <2>1, ItemsEmpty DEF PersistedFirst
  <2>4. FinishedAreOver
    BY <2>2, ItemsEmpty DEF FinishedAreOver
  <2>5. NothingAfterFinish
    BY <2>2 DEF NothingAfterFinish
  <2> QED
    BY <2>3, <2>4, <2>5 DEF LogInv
<1>2. ASSUME Inv, LogInv, [Next]_vars PROVE LogInv'
  <2>1. TypeOK'
    BY <1>2, AgentInvInductive
  <2>2. PersistedFirst'
    BY <1>2, <2>1, PersistedKept DEF LogInv
  <2>3. FinishedAreOver' /\ NothingAfterFinish'
    BY <1>2, FinishKept
  <2> QED
    BY <2>2, <2>3 DEF LogInv
<1> QED
  BY <1>1, <1>2, PlaceInvAlways, PTL DEF Spec

(* No turn waits for an agent, or is handed to it, before its user event is in    *)
(* the log of the session (runtime.ts 142-159, manager.ts 172-189).           *)
THEOREM TurnsPersistedFirst == Spec => []PersistedFirst
<1>1. LogInv => PersistedFirst
  BY DEF LogInv
<1> QED
  BY <1>1, LogInvAlways, PTL

(* No event is logged under a root that has reported its end (manager.ts 172-189, *)
(* runtime.ts 142-159).                                                       *)
THEOREM FinishIsLast == Spec => []NothingAfterFinish
<1>1. LogInv => NothingAfterFinish
  BY DEF LogInv
<1> QED
  BY <1>1, LogInvAlways, PTL
===============================================================================

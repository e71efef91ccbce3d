---------------------------- MODULE SetupFlowProofs ----------------------------
(***************************************************************************)
(* Proofs about a provider's setup flow, for any number of flows, of steps, of  *)
(* faults and any cap on the steps.                                          *)
(***************************************************************************)
EXTENDS SetupFlow, FiniteSetTheorems, TLAPS

-----------------------------------------------------------------------------
(***************************************************************************)
(* The inductive invariant: where a flow is, said four times - by the calls    *)
(* about it, by the runner's maps, by the answers it ended with and by the      *)
(* window.                                                                  *)
(***************************************************************************)

Opening == {"spawning", "spawned", "calling"}
Unopened == Opening \cup {"unused"}
Stepping == {"verifying", "posting"}

(* The counters, which the bounds of TypeOK follow from: a child in the making  *)
(* stands for one more process, and each but the first costs a fault.         *)
CountersAgree ==
  /\ faults \in 0..MaxFaults
  /\ \A f \in Flows :
       /\ pid[f] + (IF child[f] = "starting" THEN 1 ELSE 0) <= faults + 1
       /\ home[f] <= MaxFaults + 1
       /\ child[f] = "none" <=> stage[f] = "unused"
       /\ stage[f] = "unused" => pid[f] = 0

(* A call is about its own flow, or about one whose start has been received.    *)
CallsKnowTheirFlow ==
  \A c \in Calls :
    IF stage[c] = "unused" THEN on[c] = None /\ answer[c] = None
    ELSE on[c] \in Flows /\ (c \in Flows => on[c] = c)
                         /\ (c \in Advances => stage[on[c]] = "over")

(* What a call has for an answer where it is suspended.                       *)
AnswersFitStages ==
  \A c \in Calls :
    /\ stage[c] \in Opening => c \in Flows
    /\ stage[c] \in Stepping => c \in Advances
    /\ stage[c] \in Unopened \cup Stepping => answer[c] = None
    /\ stage[c] = "stopping" => answer[c] \in Terminal
    /\ stage[c] = "saving" => answer[c] = "done"
    /\ answer[c] \in {"not-found", "in-flight"} => c \in Advances
    /\ reply[c] = "none" => c \in Advances

(* One step of a session at a time, and none past the cap.                    *)
OneStepAtATime ==
  /\ \A a \in Advances : stage[a] \in Stepping => on[a] \in inFlight
  /\ \A a, b \in Advances :
       stage[a] \in Stepping /\ stage[b] \in Stepping /\ on[a] = on[b] => a = b
  /\ \A a \in Advances : stage[a] = "verifying" => stepCount[on[a]] < MaxSteps

(* A flow that is opening is in `starting` until it is interrupted.            *)
OpeningIsKnown ==
  \A f \in Flows :
    /\ f \in starting <=> stage[f] \in Opening /\ interrupted[f] = "no"
    /\ interrupted[f] # "no" => stage[f] \in Opening /\ child[f] = "stopped"

(* A session, or what the runner remembers of one, is of a flow that opened.    *)
SessionsAreOpen ==
  \A f \in Flows :
    /\ f \in sessions => stage[f] \notin Unopened /\ abandoned[f] = "no"
    /\ abandoned[f] # "no" => stage[f] \notin Unopened

(* A deadline is armed for what lives, from the moment the child is up.         *)
DeadlinesAreArmed ==
  /\ deadlines \subseteq Active
  /\ \A f \in starting : f \in deadlines <=> stage[f] = "calling"

(* A flow that got its final answer is gone.                                  *)
EndedIsGone ==
  \A f \in Flows : \A c \in Ended(f) :
    /\ f \notin sessions /\ abandoned[f] = "no" /\ stage[f] \notin Unopened
    /\ \A d \in Ended(f) : c = d

(* A flow that opened lives, is remembered, got its answer or was cancelled.    *)
OpenedIsAccountedFor ==
  \A f \in Flows :
    stage[f] \notin Unopened =>
      f \in sessions \/ abandoned[f] # "no" \/ Ended(f) # {} \/ f \in cancelled

(* A flow of which a call was told that it is not found got its answer before.  *)
NotFoundIsOver ==
  \A c \in Calls : answer[c] = "not-found" => Ended(on[c]) # {} \/ on[c] \in cancelled

(* A flow that was cancelled leaves nothing that could still come of it.        *)
CancelledIsGone ==
  \A f \in cancelled :
    /\ stage[f] \notin Unopened
    /\ f \notin sessions \cup completions
    /\ abandoned[f] = "no"

(* A completion is held by the call that takes it, and is spent once.           *)
CompletionsAreHeld ==
  \A f \in completions :
    \E c \in Calls :
      on[c] = f /\ answer[c] = "done" /\ stage[c] \in {"stopping", "returned"}

Spent(f) == f \in saved \/ \E c \in Calls : on[c] = f /\ stage[c] = "saving"
SpentIsDone ==
  \A f \in Flows : Spent(f) => Ended(f) # {} /\ f \notin completions \cup cancelled

(* The handlers answer for a session from the first reply on, and a final reply *)
(* is sent for no session.                                                  *)
HandlersKnowSessions ==
  /\ \A f \in sessions : stage[f] \in {"opening", "replied", "over"} => f \in origins
  /\ \A c \in Calls :
       stage[c] = "replied" /\ reply[c] \in {"done", "error"} => on[c] \notin sessions

(* The session and the timer of the hook, and the replies of its generation, are *)
(* all about one flow; there is none while the modal is closed.                *)
Awaited == {c \in Calls : stage[c] \notin {"unused", "over"} /\ asked[c] = generation}
OneFlowOnDisplay ==
  /\ \A c \in Calls : asked[c] <= generation
  /\ \A f \in Flows : f \in {session, timer} => stage[f] = "over"
  /\ session # None /\ timer # None => session = timer
  /\ \A c \in Awaited : /\ session # None => on[c] = session
                        /\ timer # None => on[c] = timer
                        /\ \A d \in Awaited : on[c] = on[d]
  /\ ~open => session = None /\ timer = None /\ Awaited = {}

(* A session whose first reply was received is the hook's.                     *)
ReceivedIsHeld ==
  mounted => \A f \in sessions : stage[f] = "over" => f = session \/ f \in lost

CallsInv == CountersAgree /\ CallsKnowTheirFlow /\ AnswersFitStages /\ OneStepAtATime
RunnerInv == OpeningIsKnown /\ SessionsAreOpen /\ DeadlinesAreArmed /\ ChildHasAnOwner
EndsInv ==
  /\ EndedIsGone
  /\ OpenedIsAccountedFor
  /\ NotFoundIsOver
  /\ CancelledIsGone
  /\ CompletionsAreHeld
  /\ SpentIsDone
WindowInv == HandlersKnowSessions /\ OneFlowOnDisplay /\ ReceivedIsHeld
FlowInv == TypeOK /\ CallsInv /\ RunnerInv /\ EndsInv /\ WindowInv

USE FlowRunnerAssumption
DEF host, runner, calls, rest, handlers, hook, Calls, Opening, Unopened, Stepping, Steps,
    Live, Refusals, Terminal, Stages, Children, Kinds, Active

-----------------------------------------------------------------------------
(***************************************************************************)
(* Before the first start there is no flow.                                   *)
(***************************************************************************)
(* The invariant holds at the start.                                          *)
LEMMA FlowInvInit == Init => FlowInv
<1> SUFFICES ASSUME Init PROVE FlowInv
  OBVIOUS
<1> USE DEF Init, RunnerInit
<1>1. RunnerTypeOK
  BY DEF RunnerTypeOK
<1>2. TypeOK
  BY <1>1 DEF TypeOK
<1>3. CallsInv
  BY DEF CallsInv, CountersAgree, CallsKnowTheirFlow, AnswersFitStages, OneStepAtATime
<1>4. RunnerInv
  BY DEF RunnerInv, OpeningIsKnown, SessionsAreOpen, DeadlinesAreArmed, ChildHasAnOwner
<1>5. EndsInv
  BY DEF EndsInv, EndedIsGone, Ended, OpenedIsAccountedFor, NotFoundIsOver,
         CancelledIsGone, CompletionsAreHeld, SpentIsDone, Spent
<1>6. WindowInv
  BY DEF WindowInv, HandlersKnowSessions, OneFlowOnDisplay, Awaited, ReceivedIsHeld
<1> QED
  BY <1>2, <1>3, <1>4, <1>5, <1>6 DEF FlowInv

-----------------------------------------------------------------------------
(***************************************************************************)
(* Every action keeps it: one lemma for each, and in it one step for each part  *)
(* that the action can disturb.                                               *)
(***************************************************************************)

(* A child answers its probe: the start of its flow is woken, once.          *)
LEMMA ChildReadyKeeps ==
  ASSUME FlowInv, NEW f \in Flows, ChildReady(f), UNCHANGED rest
  PROVE FlowInv'
<1> USE DEF FlowInv, CallsInv, RunnerInv, EndsInv, WindowInv, ChildReady
<1>1. RunnerTypeOK'
  BY DEF RunnerTypeOK, TypeOK, CountersAgree, CallsKnowTheirFlow, AnswersFitStages,
         OneStepAtATime
<1>2. TypeOK'
  BY <1>1 DEF TypeOK
<1>3. CountersAgree'
  BY DEF CountersAgree, TypeOK, RunnerTypeOK
<1>4. CallsKnowTheirFlow'
  BY DEF CallsKnowTheirFlow, TypeOK, RunnerTypeOK
<1>5. AnswersFitStages'
  BY DEF AnswersFitStages, TypeOK, RunnerTypeOK
<1>6. OneStepAtATime'
  BY DEF OneStepAtATime, TypeOK, RunnerTypeOK
<1>7. OpeningIsKnown'
  BY DEF OpeningIsKnown, TypeOK, RunnerTypeOK
<1>8. SessionsAreOpen'
  BY DEF SessionsAreOpen, TypeOK, RunnerTypeOK
<1>9. DeadlinesAreArmed'
  BY DEF DeadlinesAreArmed, TypeOK, RunnerTypeOK
<1>10. ChildHasAnOwner'
  BY DEF ChildHasAnOwner, TypeOK, RunnerTypeOK
<1>11. EndedIsGone'
  BY DEF EndedIsGone, Ended, TypeOK, RunnerTypeOK
<1>12. OpenedIsAccountedFor'
  BY DEF OpenedIsAccountedFor, Ended, TypeOK, RunnerTypeOK
<1>13. CancelledIsGone'
  BY DEF CancelledIsGone, TypeOK, RunnerTypeOK
<1>14. CompletionsAreHeld'
  BY DEF CompletionsAreHeld, TypeOK, RunnerTypeOK
<1>15. SpentIsDone'
  BY DEF SpentIsDone, Spent, TypeOK, RunnerTypeOK, CallsKnowTheirFlow, AnswersFitStages,
         SessionsAreOpen, EndedIsGone, Ended, CancelledIsGone, CompletionsAreHeld
<1>16. HandlersKnowSessions'
  BY DEF HandlersKnowSessions, TypeOK, RunnerTypeOK
<1>17. OneFlowOnDisplay'
  BY DEF OneFlowOnDisplay, Awaited, TypeOK, RunnerTypeOK
<1>18. ReceivedIsHeld'
  BY DEF ReceivedIsHeld, TypeOK, RunnerTypeOK
<1>19. NotFoundIsOver'
  BY DEF NotFoundIsOver, Ended
<1> QED
  BY <1>1, <1>2, <1>3, <1>4, <1>5, <1>6, <1>7, <1>8, <1>9, <1>10, <1>11, <1>12, <1>13,
     <1>14, <1>15, <1>16, <1>17, <1>18, <1>19

(* A child that failed to start takes nothing from the runner.               *)
LEMMA ChildFailsKeeps ==
  ASSUME FlowInv, NEW f \in Flows, ChildFails(f), UNCHANGED rest
  PROVE FlowInv'
<1> USE DEF FlowInv, CallsInv, RunnerInv, EndsInv, WindowInv, ChildFails
<1>1. RunnerTypeOK'
  BY DEF RunnerTypeOK, TypeOK
<1>2. TypeOK'
  BY <1>1 DEF TypeOK
<1>3. CountersAgree'
  BY DEF CountersAgree, TypeOK, RunnerTypeOK
<1>4. OpeningIsKnown'
  BY DEF OpeningIsKnown, TypeOK, RunnerTypeOK
<1>5. ChildHasAnOwner'
  BY DEF ChildHasAnOwner, TypeOK, RunnerTypeOK
<1>6. (CallsKnowTheirFlow /\ AnswersFitStages /\ OneStepAtATime /\ SessionsAreOpen /\
       DeadlinesAreArmed /\ EndedIsGone /\ OpenedIsAccountedFor /\ NotFoundIsOver /\
       CancelledIsGone /\ CompletionsAreHeld /\ SpentIsDone /\ HandlersKnowSessions /\
       OneFlowOnDisplay /\ ReceivedIsHeld)'
  BY DEF CallsKnowTheirFlow, AnswersFitStages, OneStepAtATime, SessionsAreOpen,
         DeadlinesAreArmed, EndedIsGone, OpenedIsAccountedFor, NotFoundIsOver,
         CancelledIsGone, CompletionsAreHeld, SpentIsDone, HandlersKnowSessions,
         OneFlowOnDisplay, ReceivedIsHeld, Ended, Spent, Awaited
<1> QED
  BY <1>1, <1>2, <1>3, <1>4, <1>5, <1>6

(* A child that exits is started again, and that costs a fault.              *)
LEMMA ChildCrashesKeeps ==
  ASSUME FlowInv, NEW f \in Flows, ChildCrashes(f), UNCHANGED rest
  PROVE FlowInv'
<1> USE DEF FlowInv, CallsInv, RunnerInv, EndsInv, WindowInv, ChildCrashes, Fault
<1>1. RunnerTypeOK'
  BY DEF RunnerTypeOK, TypeOK
<1>2. TypeOK'
  BY <1>1 DEF TypeOK
<1>3. CountersAgree'
  BY DEF CountersAgree, TypeOK, RunnerTypeOK
<1>4. OpeningIsKnown'
  BY DEF OpeningIsKnown, TypeOK, RunnerTypeOK
<1>5. ChildHasAnOwner'
  BY DEF ChildHasAnOwner, TypeOK, RunnerTypeOK
<1>6. (CallsKnowTheirFlow /\ AnswersFitStages /\ OneStepAtATime /\ SessionsAreOpen /\
       DeadlinesAreArmed /\ EndedIsGone /\ OpenedIsAccountedFor /\ NotFoundIsOver /\
       CancelledIsGone /\ CompletionsAreHeld /\ SpentIsDone /\ HandlersKnowSessions /\
       OneFlowOnDisplay /\ ReceivedIsHeld)'
  BY DEF CallsKnowTheirFlow, AnswersFitStages, OneStepAtATime, SessionsAreOpen,
         DeadlinesAreArmed, EndedIsGone, OpenedIsAccountedFor, NotFoundIsOver,
         CancelledIsGone, CompletionsAreHeld, SpentIsDone, HandlersKnowSessions,
         OneFlowOnDisplay, ReceivedIsHeld, Ended, Spent, Awaited
<1> QED
  BY <1>1, <1>2, <1>3, <1>4, <1>5, <1>6

(* A start whose child did not come up answers, and leaves `starting`.       *)
LEMMA SpawnFailsKeeps ==
  ASSUME FlowInv, NEW f \in Flows, SpawnFails(f), UNCHANGED rest
  PROVE FlowInv'
<1> USE DEF FlowInv, CallsInv, RunnerInv, EndsInv, WindowInv, SpawnFails,
            AnswersInterrupt, Return
<1>1. RunnerTypeOK'
  BY DEF RunnerTypeOK, TypeOK
<1>2. TypeOK'
  BY <1>1 DEF TypeOK
<1>3. CountersAgree'
  BY DEF CountersAgree, TypeOK, RunnerTypeOK
<1>4. CallsKnowTheirFlow'
  BY DEF CallsKnowTheirFlow, TypeOK, RunnerTypeOK
<1>5. AnswersFitStages'
  BY DEF AnswersFitStages, TypeOK, RunnerTypeOK
<1>6. OneStepAtATime'
  BY DEF OneStepAtATime, TypeOK, RunnerTypeOK
<1>7. OpeningIsKnown'
  BY DEF OpeningIsKnown, TypeOK, RunnerTypeOK
<1>8. SessionsAreOpen'
  BY DEF SessionsAreOpen, TypeOK, RunnerTypeOK
<1>9. DeadlinesAreArmed'
  BY DEF DeadlinesAreArmed, TypeOK, RunnerTypeOK
<1>10. ChildHasAnOwner'
  BY DEF ChildHasAnOwner, TypeOK, RunnerTypeOK
<1>11. EndedIsGone'
  BY DEF EndedIsGone, Ended, TypeOK, RunnerTypeOK, CallsKnowTheirFlow, AnswersFitStages,
         OpeningIsKnown, SessionsAreOpen
<1>12. OpenedIsAccountedFor'
  BY DEF OpenedIsAccountedFor, Ended, TypeOK, RunnerTypeOK, CallsKnowTheirFlow,
         AnswersFitStages
<1>13. NotFoundIsOver'
  BY DEF NotFoundIsOver, Ended, TypeOK, RunnerTypeOK
<1>14. CancelledIsGone'
  BY DEF CancelledIsGone, TypeOK, RunnerTypeOK
<1>15. CompletionsAreHeld'
  BY DEF CompletionsAreHeld, TypeOK, RunnerTypeOK
<1>16. SpentIsDone'
  BY DEF SpentIsDone, Spent, TypeOK, RunnerTypeOK, CallsKnowTheirFlow, AnswersFitStages,
         SessionsAreOpen, EndedIsGone, Ended, CancelledIsGone, CompletionsAreHeld
<1>17. HandlersKnowSessions'
  BY DEF HandlersKnowSessions, TypeOK, RunnerTypeOK
<1>18. OneFlowOnDisplay'
  BY DEF OneFlowOnDisplay, Awaited, TypeOK, RunnerTypeOK
<1>19. ReceivedIsHeld'
  BY DEF ReceivedIsHeld, TypeOK, RunnerTypeOK
<1> QED
  BY <1>1, <1>2, <1>3, <1>4, <1>5, <1>6, <1>7, <1>8, <1>9, <1>10, <1>11, <1>12, <1>13,
     <1>14, <1>15, <1>16, <1>17, <1>18, <1>19

(* A start arms its deadline, unless it was interrupted.                     *)
LEMMA OpenFlowKeeps ==
  ASSUME FlowInv, NEW f \in Flows, OpenFlow(f), UNCHANGED rest
  PROVE FlowInv'
<1> USE DEF FlowInv, CallsInv, RunnerInv, EndsInv, WindowInv, OpenFlow, AnswersInterrupt,
            Return
<1>1. RunnerTypeOK'
  BY DEF RunnerTypeOK, TypeOK
<1>2. TypeOK'
  BY <1>1 DEF TypeOK
<1>3. CountersAgree'
  BY DEF CountersAgree, TypeOK, RunnerTypeOK
<1>4. CallsKnowTheirFlow'
  BY DEF CallsKnowTheirFlow, TypeOK, RunnerTypeOK
<1>5. AnswersFitStages'
  BY DEF AnswersFitStages, TypeOK, RunnerTypeOK
<1>6. OneStepAtATime'
  BY DEF OneStepAtATime, TypeOK, RunnerTypeOK
<1>7. OpeningIsKnown'
  BY DEF OpeningIsKnown, TypeOK, RunnerTypeOK
<1>8. SessionsAreOpen'
  BY DEF SessionsAreOpen, TypeOK, RunnerTypeOK
<1>9. DeadlinesAreArmed'
  BY DEF DeadlinesAreArmed, TypeOK, RunnerTypeOK, CallsKnowTheirFlow, AnswersFitStages,
         OpeningIsKnown, SessionsAreOpen, ChildHasAnOwner
<1>10. ChildHasAnOwner'
  BY DEF ChildHasAnOwner, TypeOK, RunnerTypeOK, CountersAgree, CallsKnowTheirFlow,
         AnswersFitStages, OpeningIsKnown, SessionsAreOpen, DeadlinesAreArmed
<1>11. EndedIsGone'
  BY DEF EndedIsGone, Ended, TypeOK, RunnerTypeOK, CallsKnowTheirFlow, AnswersFitStages,
         OpeningIsKnown, SessionsAreOpen
<1>12. OpenedIsAccountedFor'
  BY DEF OpenedIsAccountedFor, Ended, TypeOK, RunnerTypeOK, CallsKnowTheirFlow,
         AnswersFitStages
<1>13. NotFoundIsOver'
  BY DEF NotFoundIsOver, Ended, TypeOK, RunnerTypeOK
<1>14. CancelledIsGone'
  BY DEF CancelledIsGone, TypeOK, RunnerTypeOK
<1>15. CompletionsAreHeld'
  BY DEF CompletionsAreHeld, TypeOK, RunnerTypeOK
<1>16. SpentIsDone'
  BY DEF SpentIsDone, Spent, TypeOK, RunnerTypeOK, CallsKnowTheirFlow, AnswersFitStages,
         SessionsAreOpen, EndedIsGone, Ended, CancelledIsGone, CompletionsAreHeld
<1>17. HandlersKnowSessions'
  BY DEF HandlersKnowSessions, TypeOK, RunnerTypeOK
<1>18. OneFlowOnDisplay'
  BY DEF OneFlowOnDisplay, Awaited, TypeOK, RunnerTypeOK
<1>19. ReceivedIsHeld'
  BY DEF ReceivedIsHeld, TypeOK, RunnerTypeOK
<1> QED
  BY <1>1, <1>2, <1>3, <1>4, <1>5, <1>6, <1>7, <1>8, <1>9, <1>10, <1>11, <1>12, <1>13,
     <1>14, <1>15, <1>16, <1>17, <1>18, <1>19

(* The first answer of the plugin makes a session of a flow, or ends it.     *)
LEMMA OpenedKeeps ==
  ASSUME FlowInv, NEW f \in Flows, NEW kind \in Kinds, Opened(f, kind), UNCHANGED rest
  PROVE FlowInv'
<1> USE DEF FlowInv, CallsInv, RunnerInv, EndsInv, WindowInv, Opened, AnswersInterrupt,
            Return, EndAnswering, End, Deliver, Stopped
<1>1. RunnerTypeOK'
  BY SMTT(20) DEF RunnerTypeOK, TypeOK
<1>2. TypeOK'
  BY <1>1 DEF TypeOK
<1>3. CountersAgree'
  BY DEF CountersAgree, TypeOK, RunnerTypeOK
<1>4. CallsKnowTheirFlow'
  BY DEF CallsKnowTheirFlow, TypeOK, RunnerTypeOK
<1>5. AnswersFitStages'
  BY DEF AnswersFitStages, TypeOK, RunnerTypeOK
<1>6. OneStepAtATime'
  BY DEF OneStepAtATime, TypeOK, RunnerTypeOK, CallsKnowTheirFlow, AnswersFitStages
<1>7. OpeningIsKnown'
  BY DEF OpeningIsKnown, TypeOK, RunnerTypeOK
<1>8. SessionsAreOpen'
  BY DEF SessionsAreOpen, TypeOK, RunnerTypeOK
<1>9. DeadlinesAreArmed'
  BY DEF DeadlinesAreArmed, TypeOK, RunnerTypeOK, CallsKnowTheirFlow, AnswersFitStages,
         OpeningIsKnown, SessionsAreOpen, ChildHasAnOwner
<1>10. ChildHasAnOwner'
  BY DEF ChildHasAnOwner, TypeOK, RunnerTypeOK, CountersAgree, CallsKnowTheirFlow,
         AnswersFitStages, OpeningIsKnown, SessionsAreOpen, DeadlinesAreArmed
<1>11. EndedIsGone'
  BY DEF EndedIsGone, Ended, TypeOK, RunnerTypeOK, CallsKnowTheirFlow, AnswersFitStages,
         OpeningIsKnown, SessionsAreOpen
<1>12. OpenedIsAccountedFor'
  BY DEF OpenedIsAccountedFor, Ended, TypeOK, RunnerTypeOK, CallsKnowTheirFlow,
         AnswersFitStages
<1>13. NotFoundIsOver'
  BY DEF NotFoundIsOver, Ended, TypeOK, RunnerTypeOK, CallsKnowTheirFlow,
         AnswersFitStages
<1>14. CancelledIsGone'
  BY DEF CancelledIsGone, TypeOK, RunnerTypeOK
<1>15. CompletionsAreHeld'
  BY SMTT(60) DEF CompletionsAreHeld, TypeOK, RunnerTypeOK, CallsKnowTheirFlow,
                  AnswersFitStages
<1>16. SpentIsDone'
  BY DEF SpentIsDone, Spent, TypeOK, RunnerTypeOK, CallsKnowTheirFlow, AnswersFitStages,
         SessionsAreOpen, EndedIsGone, Ended, CancelledIsGone, CompletionsAreHeld
<1>17. HandlersKnowSessions'
  BY DEF HandlersKnowSessions, TypeOK, RunnerTypeOK, CallsKnowTheirFlow, AnswersFitStages
<1>18. OneFlowOnDisplay'
  BY DEF OneFlowOnDisplay, Awaited, TypeOK, RunnerTypeOK
<1>19. ReceivedIsHeld'
  BY DEF ReceivedIsHeld, TypeOK, RunnerTypeOK
<1> QED
  BY <1>1, <1>2, <1>3, <1>4, <1>5, <1>6, <1>7, <1>8, <1>9, <1>10, <1>11, <1>12, <1>13,
     <1>14, <1>15, <1>16, <1>17, <1>18, <1>19

(* A deadline ends what it was armed for, and the runner remembers why.      *)
LEMMA ExpireKeeps ==
  ASSUME FlowInv, NEW f \in Flows, Expire(f), UNCHANGED rest
  PROVE FlowInv'
<1> USE DEF FlowInv, CallsInv, RunnerInv, EndsInv, WindowInv, Expire, Stopped
<1>1. RunnerTypeOK'
  BY DEF RunnerTypeOK, TypeOK
<1>2. TypeOK'
  BY <1>1 DEF TypeOK
<1>3. CountersAgree'
  BY DEF CountersAgree, TypeOK, RunnerTypeOK
<1>4. OpeningIsKnown'
  BY DEF OpeningIsKnown, TypeOK, RunnerTypeOK, CountersAgree, CallsKnowTheirFlow,
         AnswersFitStages, SessionsAreOpen
<1>5. SessionsAreOpen'
  BY DEF SessionsAreOpen, TypeOK, RunnerTypeOK
<1>6. DeadlinesAreArmed'
  BY DEF DeadlinesAreArmed, TypeOK, RunnerTypeOK
<1>7. ChildHasAnOwner'
  BY DEF ChildHasAnOwner, TypeOK, RunnerTypeOK, CountersAgree, CallsKnowTheirFlow,
         AnswersFitStages, OpeningIsKnown, SessionsAreOpen, DeadlinesAreArmed
<1>8. EndedIsGone'
  BY DEF EndedIsGone, Ended, TypeOK, RunnerTypeOK
<1>9. OpenedIsAccountedFor'
  BY DEF OpenedIsAccountedFor, Ended, TypeOK, RunnerTypeOK
<1>10. CancelledIsGone'
  BY DEF CancelledIsGone, TypeOK, RunnerTypeOK
<1>11. CompletionsAreHeld'
  BY DEF CompletionsAreHeld, TypeOK, RunnerTypeOK
<1>12. SpentIsDone'
  BY DEF SpentIsDone, Spent, TypeOK, RunnerTypeOK, CallsKnowTheirFlow, AnswersFitStages,
         SessionsAreOpen, EndedIsGone, Ended, CancelledIsGone, CompletionsAreHeld
<1>13. HandlersKnowSessions'
  BY DEF HandlersKnowSessions, TypeOK, RunnerTypeOK
<1>14. ReceivedIsHeld'
  BY DEF ReceivedIsHeld, TypeOK, RunnerTypeOK
<1>15. (CallsKnowTheirFlow /\ AnswersFitStages /\ OneStepAtATime /\ NotFoundIsOver /\
        OneFlowOnDisplay)'
  BY DEF CallsKnowTheirFlow, AnswersFitStages, OneStepAtATime, NotFoundIsOver,
         OneFlowOnDisplay, Ended, Awaited
<1> QED
  BY <1>1, <1>2, <1>3, <1>4, <1>5, <1>6, <1>7, <1>8, <1>9, <1>10, <1>11, <1>12, <1>13,
     <1>14, <1>15

(* A step goes to the plugin only for the session and the child it is of.    *)
LEMMA VerifiedKeeps ==
  ASSUME FlowInv, NEW a \in Advances, Verified(a), UNCHANGED rest
  PROVE FlowInv'
<1> USE DEF FlowInv, CallsInv, RunnerInv, EndsInv, WindowInv, Verified, Gone, Return,
            EndAnswering, End, Stopped
<1>1. RunnerTypeOK'
  BY SMTT(60) DEF RunnerTypeOK, TypeOK, OneStepAtATime, CallsKnowTheirFlow
<1>2. TypeOK'
  BY <1>1 DEF TypeOK
<1>3. CountersAgree'
  BY DEF CountersAgree, TypeOK, RunnerTypeOK
<1>4. CallsKnowTheirFlow'
  BY DEF CallsKnowTheirFlow, TypeOK, RunnerTypeOK
<1>5. AnswersFitStages'
  BY DEF AnswersFitStages, TypeOK, RunnerTypeOK
<1>6. OneStepAtATime'
  BY DEF OneStepAtATime, TypeOK, RunnerTypeOK
<1>7. OpeningIsKnown'
  BY DEF OpeningIsKnown, TypeOK, RunnerTypeOK
<1>8. SessionsAreOpen'
  BY DEF SessionsAreOpen, TypeOK, RunnerTypeOK
<1>9. DeadlinesAreArmed'
  BY DEF DeadlinesAreArmed, TypeOK, RunnerTypeOK, CallsKnowTheirFlow, AnswersFitStages
<1>10. ChildHasAnOwner'
  BY DEF ChildHasAnOwner, TypeOK, RunnerTypeOK, CountersAgree, CallsKnowTheirFlow,
         AnswersFitStages, OpeningIsKnown, SessionsAreOpen, DeadlinesAreArmed
<1>11. EndedIsGone'
  BY DEF EndedIsGone, Ended, TypeOK, RunnerTypeOK, CallsKnowTheirFlow, AnswersFitStages,
         OpeningIsKnown, SessionsAreOpen
<1>12. OpenedIsAccountedFor'
  BY DEF OpenedIsAccountedFor, Ended, TypeOK, RunnerTypeOK, CallsKnowTheirFlow,
         AnswersFitStages
<1>13. NotFoundIsOver'
  BY DEF NotFoundIsOver, Ended, TypeOK, RunnerTypeOK, CallsKnowTheirFlow,
         AnswersFitStages, OpenedIsAccountedFor
<1>14. CancelledIsGone'
  BY DEF CancelledIsGone, TypeOK, RunnerTypeOK
<1>15. CompletionsAreHeld'
  BY DEF CompletionsAreHeld, TypeOK, RunnerTypeOK
<1>16. SpentIsDone'
  BY DEF SpentIsDone, Spent, TypeOK, RunnerTypeOK, CallsKnowTheirFlow, AnswersFitStages,
         SessionsAreOpen, EndedIsGone, Ended, CancelledIsGone, CompletionsAreHeld
<1>17. HandlersKnowSessions'
  BY DEF HandlersKnowSessions, TypeOK, RunnerTypeOK
<1>18. OneFlowOnDisplay'
  BY DEF OneFlowOnDisplay, Awaited, TypeOK, RunnerTypeOK
<1>19. ReceivedIsHeld'
  BY DEF ReceivedIsHeld, TypeOK, RunnerTypeOK
<1> QED
  BY <1>1, <1>2, <1>3, <1>4, <1>5, <1>6, <1>7, <1>8, <1>9, <1>10, <1>11, <1>12, <1>13,
     <1>14, <1>15, <1>16, <1>17, <1>18, <1>19

(* A late answer of the plugin is for nobody.                                *)
LEMMA PostedKeeps ==
  ASSUME FlowInv, NEW a \in Advances, NEW kind \in Kinds, Posted(a, kind), UNCHANGED rest
  PROVE FlowInv'
<1> USE DEF FlowInv, CallsInv, RunnerInv, EndsInv, WindowInv, Posted, Gone, Return,
            EndAnswering, End, Deliver, Stopped
<1>1. RunnerTypeOK'
  BY DEF RunnerTypeOK, TypeOK
<1>2. TypeOK'
  BY <1>1 DEF TypeOK
<1>3. CountersAgree'
  BY DEF CountersAgree, TypeOK, RunnerTypeOK
<1>4. CallsKnowTheirFlow'
  BY DEF CallsKnowTheirFlow, TypeOK, RunnerTypeOK
<1>5. AnswersFitStages'
  BY DEF AnswersFitStages, TypeOK, RunnerTypeOK
<1>6. OneStepAtATime'
  BY DEF OneStepAtATime, TypeOK, RunnerTypeOK
<1>7. OpeningIsKnown'
  BY DEF OpeningIsKnown, TypeOK, RunnerTypeOK
<1>8. SessionsAreOpen'
  BY DEF SessionsAreOpen, TypeOK, RunnerTypeOK
<1>9. DeadlinesAreArmed'
  BY DEF DeadlinesAreArmed, TypeOK, RunnerTypeOK, CallsKnowTheirFlow, AnswersFitStages
<1>10. ChildHasAnOwner'
  BY DEF ChildHasAnOwner, TypeOK, RunnerTypeOK, CountersAgree, CallsKnowTheirFlow,
         AnswersFitStages, OpeningIsKnown, SessionsAreOpen, DeadlinesAreArmed
<1>11. EndedIsGone'
  BY DEF EndedIsGone, Ended, TypeOK, RunnerTypeOK, CallsKnowTheirFlow, AnswersFitStages,
         OpeningIsKnown, SessionsAreOpen
<1>12. OpenedIsAccountedFor'
  BY DEF OpenedIsAccountedFor, Ended, TypeOK, RunnerTypeOK, CallsKnowTheirFlow,
         AnswersFitStages
<1>13. NotFoundIsOver'
  BY DEF NotFoundIsOver, Ended, TypeOK, RunnerTypeOK, CallsKnowTheirFlow,
         AnswersFitStages, OpenedIsAccountedFor
<1>14. CancelledIsGone'
  BY DEF CancelledIsGone, TypeOK, RunnerTypeOK
<1>15. CompletionsAreHeld'
  BY SMTT(60) DEF CompletionsAreHeld, TypeOK, RunnerTypeOK
<1>16. SpentIsDone'
  BY DEF SpentIsDone, Spent, TypeOK, RunnerTypeOK, CallsKnowTheirFlow, AnswersFitStages,
         SessionsAreOpen, EndedIsGone, Ended, CancelledIsGone, CompletionsAreHeld
<1>17. HandlersKnowSessions'
  BY DEF HandlersKnowSessions, TypeOK, RunnerTypeOK
<1>18. OneFlowOnDisplay'
  BY DEF OneFlowOnDisplay, Awaited, TypeOK, RunnerTypeOK
<1>19. ReceivedIsHeld'
  BY DEF ReceivedIsHeld, TypeOK, RunnerTypeOK
<1> QED
  BY <1>1, <1>2, <1>3, <1>4, <1>5, <1>6, <1>7, <1>8, <1>9, <1>10, <1>11, <1>12, <1>13,
     <1>14, <1>15, <1>16, <1>17, <1>18, <1>19

(* The call that ended a flow keeps its answer while the child is stopped.   *)
LEMMA StopResolvesKeeps ==
  ASSUME FlowInv, NEW c \in Calls, StopResolves(c), UNCHANGED rest
  PROVE FlowInv'
<1> USE DEF FlowInv, CallsInv, RunnerInv, EndsInv, WindowInv, StopResolves, Return
<1>1. RunnerTypeOK'
  BY DEF RunnerTypeOK, TypeOK
<1>2. TypeOK'
  BY <1>1 DEF TypeOK
<1>3. CountersAgree'
  BY DEF CountersAgree, TypeOK, RunnerTypeOK
<1>4. CallsKnowTheirFlow'
  BY DEF CallsKnowTheirFlow, TypeOK, RunnerTypeOK
<1>5. AnswersFitStages'
  BY DEF AnswersFitStages, TypeOK, RunnerTypeOK
<1>6. OneStepAtATime'
  BY DEF OneStepAtATime, TypeOK, RunnerTypeOK
<1>7. OpeningIsKnown'
  BY DEF OpeningIsKnown, TypeOK, RunnerTypeOK
<1>8. SessionsAreOpen'
  BY DEF SessionsAreOpen, TypeOK, RunnerTypeOK
<1>9. DeadlinesAreArmed'
  BY DEF DeadlinesAreArmed, TypeOK, RunnerTypeOK
<1>10. ChildHasAnOwner'
  BY DEF ChildHasAnOwner, TypeOK, RunnerTypeOK
<1>11. EndedIsGone'
  BY DEF EndedIsGone, Ended, TypeOK, RunnerTypeOK
<1>12. OpenedIsAccountedFor'
  BY DEF OpenedIsAccountedFor, Ended, TypeOK, RunnerTypeOK
<1>13. NotFoundIsOver'
  BY DEF NotFoundIsOver, Ended, TypeOK, RunnerTypeOK
<1>14. CancelledIsGone'
  BY DEF CancelledIsGone, TypeOK, RunnerTypeOK
<1>15. CompletionsAreHeld'
  BY DEF CompletionsAreHeld, TypeOK, RunnerTypeOK
<1>16. SpentIsDone'
  BY DEF SpentIsDone, Spent, TypeOK, RunnerTypeOK, CallsKnowTheirFlow, AnswersFitStages,
         SessionsAreOpen, EndedIsGone, Ended, CancelledIsGone, CompletionsAreHeld
<1>17. HandlersKnowSessions'
  BY DEF HandlersKnowSessions, TypeOK, RunnerTypeOK
<1>18. OneFlowOnDisplay'
  BY DEF OneFlowOnDisplay, Awaited, TypeOK, RunnerTypeOK
<1>19. ReceivedIsHeld'
  BY DEF ReceivedIsHeld, TypeOK, RunnerTypeOK
<1> QED
  BY <1>1, <1>2, <1>3, <1>4, <1>5, <1>6, <1>7, <1>8, <1>9, <1>10, <1>11, <1>12, <1>13,
     <1>14, <1>15, <1>16, <1>17, <1>18, <1>19

(* A save sweeps the flows of an extension it disables, and no others.       *)
LEMMA SaveSettingsKeeps ==
  ASSUME FlowInv, SaveSettings, UNCHANGED rest
  PROVE FlowInv'
<1> USE DEF FlowInv, CallsInv, RunnerInv, EndsInv, WindowInv, SaveSettings, Fault, Sweep,
            Stopped
<1>1. RunnerTypeOK'
  BY DEF RunnerTypeOK, TypeOK
<1>2. TypeOK'
  BY <1>1 DEF TypeOK
<1>3. CountersAgree'
  BY DEF CountersAgree, TypeOK, RunnerTypeOK
<1>4. OpeningIsKnown'
  BY DEF OpeningIsKnown, TypeOK, RunnerTypeOK, CountersAgree, CallsKnowTheirFlow,
         AnswersFitStages, SessionsAreOpen
<1>5. SessionsAreOpen'
  BY DEF SessionsAreOpen, TypeOK, RunnerTypeOK
<1>6. DeadlinesAreArmed'
  BY DEF DeadlinesAreArmed, TypeOK, RunnerTypeOK
<1>7. ChildHasAnOwner'
  BY DEF ChildHasAnOwner, TypeOK, RunnerTypeOK
<1>8. EndedIsGone'
  BY DEF EndedIsGone, Ended, TypeOK, RunnerTypeOK
<1>9. OpenedIsAccountedFor'
  BY DEF OpenedIsAccountedFor, Ended, TypeOK, RunnerTypeOK
<1>10. CancelledIsGone'
  BY DEF CancelledIsGone, TypeOK, RunnerTypeOK
<1>11. CompletionsAreHeld'
  BY DEF CompletionsAreHeld, TypeOK, RunnerTypeOK
<1>12. SpentIsDone'
  BY DEF SpentIsDone, Spent, TypeOK, RunnerTypeOK, CallsKnowTheirFlow, AnswersFitStages,
         SessionsAreOpen, EndedIsGone, Ended, CancelledIsGone, CompletionsAreHeld
<1>13. HandlersKnowSessions'
  BY DEF HandlersKnowSessions, TypeOK, RunnerTypeOK
<1>14. ReceivedIsHeld'
  BY DEF ReceivedIsHeld, TypeOK, RunnerTypeOK
<1>15. (CallsKnowTheirFlow /\ AnswersFitStages /\ OneStepAtATime /\ NotFoundIsOver /\
        OneFlowOnDisplay)'
  BY DEF CallsKnowTheirFlow, AnswersFitStages, OneStepAtATime, NotFoundIsOver,
         OneFlowOnDisplay, Ended, Awaited
<1> QED
  BY <1>1, <1>2, <1>3, <1>4, <1>5, <1>6, <1>7, <1>8, <1>9, <1>10, <1>11, <1>12, <1>13,
     <1>14, <1>15

(* So does the refresh of the registries.                                    *)
LEMMA RefreshKeeps ==
  ASSUME FlowInv, Refresh, UNCHANGED rest
  PROVE FlowInv'
<1> USE DEF FlowInv, CallsInv, RunnerInv, EndsInv, WindowInv, Refresh, Sweep, Stopped
<1>1. RunnerTypeOK'
  BY DEF RunnerTypeOK, TypeOK
<1>2. TypeOK'
  BY <1>1 DEF TypeOK
<1>3. CountersAgree'
  BY DEF CountersAgree, TypeOK, RunnerTypeOK
<1>4. OpeningIsKnown'
  BY DEF OpeningIsKnown, TypeOK, RunnerTypeOK, CountersAgree, CallsKnowTheirFlow,
         AnswersFitStages, SessionsAreOpen
<1>5. SessionsAreOpen'
  BY DEF SessionsAreOpen, TypeOK, RunnerTypeOK
<1>6. DeadlinesAreArmed'
  BY DEF DeadlinesAreArmed, TypeOK, RunnerTypeOK
<1>7. ChildHasAnOwner'
  BY DEF ChildHasAnOwner, TypeOK, RunnerTypeOK
<1>8. EndedIsGone'
  BY DEF EndedIsGone, Ended, TypeOK, RunnerTypeOK
<1>9. OpenedIsAccountedFor'
  BY DEF OpenedIsAccountedFor, Ended, TypeOK, RunnerTypeOK
<1>10. CancelledIsGone'
  BY DEF CancelledIsGone, TypeOK, RunnerTypeOK
<1>11. CompletionsAreHeld'
  BY DEF CompletionsAreHeld, TypeOK, RunnerTypeOK
<1>12. SpentIsDone'
  BY DEF SpentIsDone, Spent, TypeOK, RunnerTypeOK, CallsKnowTheirFlow, AnswersFitStages,
         SessionsAreOpen, EndedIsGone, Ended, CancelledIsGone, CompletionsAreHeld
<1>13. HandlersKnowSessions'
  BY DEF HandlersKnowSessions, TypeOK, RunnerTypeOK
<1>14. ReceivedIsHeld'
  BY DEF ReceivedIsHeld, TypeOK, RunnerTypeOK
<1>15. (CallsKnowTheirFlow /\ AnswersFitStages /\ OneStepAtATime /\ NotFoundIsOver /\
        OneFlowOnDisplay)'
  BY DEF CallsKnowTheirFlow, AnswersFitStages, OneStepAtATime, NotFoundIsOver,
         OneFlowOnDisplay, Ended, Awaited
<1> QED
  BY <1>1, <1>2, <1>3, <1>4, <1>5, <1>6, <1>7, <1>8, <1>9, <1>10, <1>11, <1>12, <1>13,
     <1>14, <1>15

(* A handler takes the answer of the runner, and the completion with it.     *)
LEMMA HandlerTakesKeeps ==
  ASSUME FlowInv, NEW c \in Calls, HandlerTakes(c)
  PROVE FlowInv'
<1> USE DEF FlowInv, CallsInv, RunnerInv, EndsInv, WindowInv, HandlerTakes, Reply
<1>1. RunnerTypeOK'
  BY DEF RunnerTypeOK, TypeOK
<1>2. TypeOK'
  BY <1>1 DEF TypeOK, CallsKnowTheirFlow, AnswersFitStages
<1>3. CountersAgree'
  BY DEF CountersAgree, TypeOK, RunnerTypeOK
<1>4. CallsKnowTheirFlow'
  BY DEF CallsKnowTheirFlow, TypeOK, RunnerTypeOK
<1>5. AnswersFitStages'
  BY DEF AnswersFitStages, TypeOK, RunnerTypeOK
<1>6. OneStepAtATime'
  BY DEF OneStepAtATime, TypeOK, RunnerTypeOK
<1>7. OpeningIsKnown'
  BY DEF OpeningIsKnown, TypeOK, RunnerTypeOK
<1>8. SessionsAreOpen'
  BY DEF SessionsAreOpen, TypeOK, RunnerTypeOK
<1>9. DeadlinesAreArmed'
  BY DEF DeadlinesAreArmed, TypeOK, RunnerTypeOK
<1>10. ChildHasAnOwner'
  BY DEF ChildHasAnOwner, TypeOK, RunnerTypeOK
<1>11. EndedIsGone'
  BY DEF EndedIsGone, Ended, TypeOK, RunnerTypeOK
<1>12. OpenedIsAccountedFor'
  BY DEF OpenedIsAccountedFor, Ended, TypeOK, RunnerTypeOK
<1>13. CancelledIsGone'
  BY DEF CancelledIsGone, TypeOK, RunnerTypeOK
<1>14. CompletionsAreHeld'
  BY DEF CompletionsAreHeld, TypeOK, RunnerTypeOK
<1>15. SpentIsDone'
  <2>1. CASE answer[c] = "done" /\ on[c] \in completions
    BY <2>1 DEF SpentIsDone, Spent, TypeOK, RunnerTypeOK, CallsKnowTheirFlow,
                AnswersFitStages, SessionsAreOpen, EndedIsGone, Ended, CancelledIsGone,
                CompletionsAreHeld
  <2>2. CASE answer[c] = "done" /\ on[c] \notin completions
    BY <2>2 DEF SpentIsDone, Spent, TypeOK, RunnerTypeOK, CallsKnowTheirFlow,
                AnswersFitStages, SessionsAreOpen, EndedIsGone, Ended, CancelledIsGone,
                CompletionsAreHeld
  <2>3. CASE answer[c] # "done"
    BY <2>3 DEF SpentIsDone, Spent, TypeOK, RunnerTypeOK, CallsKnowTheirFlow,
                AnswersFitStages, SessionsAreOpen, EndedIsGone, Ended, CancelledIsGone,
                CompletionsAreHeld
  <2> QED
    BY <2>1, <2>2, <2>3
<1>16. HandlersKnowSessions'
  <2>1. CASE answer[c] = "done" /\ on[c] \in completions
    BY <2>1 DEF HandlersKnowSessions, TypeOK, RunnerTypeOK, CallsKnowTheirFlow,
                AnswersFitStages, SessionsAreOpen, EndedIsGone, Ended,
                OpenedIsAccountedFor, CancelledIsGone, SpentIsDone, Spent, NotFoundIsOver
  <2>2. CASE answer[c] = "done" /\ on[c] \notin completions
    BY <2>2 DEF HandlersKnowSessions, TypeOK, RunnerTypeOK, CallsKnowTheirFlow,
                AnswersFitStages, SessionsAreOpen, EndedIsGone, Ended,
                OpenedIsAccountedFor, CancelledIsGone, SpentIsDone, Spent, NotFoundIsOver
  <2>3. CASE answer[c] # "done"
    BY <2>3 DEF HandlersKnowSessions, TypeOK, RunnerTypeOK, CallsKnowTheirFlow,
                AnswersFitStages, SessionsAreOpen, EndedIsGone, Ended,
                OpenedIsAccountedFor, CancelledIsGone, SpentIsDone, Spent, NotFoundIsOver
  <2> QED
    BY <2>1, <2>2, <2>3
<1>17. OneFlowOnDisplay'
  BY DEF OneFlowOnDisplay, Awaited, TypeOK, RunnerTypeOK
<1>18. ReceivedIsHeld'
  BY DEF ReceivedIsHeld, TypeOK, RunnerTypeOK
<1>19. NotFoundIsOver'
  BY DEF NotFoundIsOver, Ended
<1> QED
  BY <1>1, <1>2, <1>3, <1>4, <1>5, <1>6, <1>7, <1>8, <1>9, <1>10, <1>11, <1>12, <1>13,
     <1>14, <1>15, <1>16, <1>17, <1>18, <1>19

(* A page that cannot be opened gives the session up.                        *)
LEMMA OpensKeeps ==
  ASSUME FlowInv, NEW c \in Calls, NEW opened \in BOOLEAN, Opens(c, opened)
  PROVE FlowInv'
<1> USE DEF FlowInv, CallsInv, RunnerInv, EndsInv, WindowInv, Opens, Reply, Cancel, End,
            Stopped, Remembered
<1>1. RunnerTypeOK'
  BY DEF RunnerTypeOK, TypeOK, CallsKnowTheirFlow, AnswersFitStages
<1>2. TypeOK'
  BY <1>1 DEF TypeOK
<1>3. CountersAgree'
  BY DEF CountersAgree, TypeOK, RunnerTypeOK
<1>4. CallsKnowTheirFlow'
  BY DEF CallsKnowTheirFlow, TypeOK, RunnerTypeOK
<1>5. AnswersFitStages'
  BY DEF AnswersFitStages, TypeOK, RunnerTypeOK
<1>6. OneStepAtATime'
  BY DEF OneStepAtATime, TypeOK, RunnerTypeOK
<1>7. OpeningIsKnown'
  BY DEF OpeningIsKnown, TypeOK, RunnerTypeOK
<1>8. SessionsAreOpen'
  BY DEF SessionsAreOpen, TypeOK, RunnerTypeOK
<1>9. DeadlinesAreArmed'
  BY DEF DeadlinesAreArmed, TypeOK, RunnerTypeOK, CallsKnowTheirFlow, AnswersFitStages
<1>10. ChildHasAnOwner'
  BY DEF ChildHasAnOwner, TypeOK, RunnerTypeOK, CountersAgree, CallsKnowTheirFlow,
         AnswersFitStages, OpeningIsKnown, SessionsAreOpen, DeadlinesAreArmed
<1>11. EndedIsGone'
  BY DEF EndedIsGone, Ended, TypeOK, RunnerTypeOK
<1>12. OpenedIsAccountedFor'
  BY DEF OpenedIsAccountedFor, Ended, TypeOK, RunnerTypeOK
<1>13. NotFoundIsOver'
  BY DEF NotFoundIsOver, Ended, TypeOK, RunnerTypeOK
<1>14. CancelledIsGone'
  BY DEF CancelledIsGone, TypeOK, RunnerTypeOK, CallsKnowTheirFlow, AnswersFitStages
<1>15. CompletionsAreHeld'
  BY DEF CompletionsAreHeld, TypeOK, RunnerTypeOK
<1>16. SpentIsDone'
  BY DEF SpentIsDone, Spent, TypeOK, RunnerTypeOK, CallsKnowTheirFlow, AnswersFitStages,
         SessionsAreOpen, EndedIsGone, Ended, CancelledIsGone, CompletionsAreHeld
<1>17. HandlersKnowSessions'
  <2>1. CASE opened
    BY <2>1 DEF HandlersKnowSessions, TypeOK, RunnerTypeOK
  <2>2. CASE ~opened
    BY <2>2 DEF HandlersKnowSessions, TypeOK, RunnerTypeOK
  <2> QED
    BY <2>1, <2>2
<1>18. OneFlowOnDisplay'
  BY DEF OneFlowOnDisplay, Awaited, TypeOK, RunnerTypeOK
<1>19. ReceivedIsHeld'
  BY DEF ReceivedIsHeld, TypeOK, RunnerTypeOK
<1> QED
  BY <1>1, <1>2, <1>3, <1>4, <1>5, <1>6, <1>7, <1>8, <1>9, <1>10, <1>11, <1>12, <1>13,
     <1>14, <1>15, <1>16, <1>17, <1>18, <1>19

(* A completion that is saved is of a flow that was not cancelled.           *)
LEMMA PersistsKeeps ==
  ASSUME FlowInv, NEW c \in Calls, Persists(c)
  PROVE FlowInv'
<1> USE DEF FlowInv, CallsInv, RunnerInv, EndsInv, WindowInv, Persists, Reply, Sweep,
            Stopped
<1>1. RunnerTypeOK'
  BY DEF RunnerTypeOK, TypeOK
<1>2. TypeOK'
  BY <1>1 DEF TypeOK, CallsKnowTheirFlow, AnswersFitStages
<1>3. CountersAgree'
  BY DEF CountersAgree, TypeOK, RunnerTypeOK
<1>4. CallsKnowTheirFlow'
  BY DEF CallsKnowTheirFlow, TypeOK, RunnerTypeOK
<1>5. AnswersFitStages'
  BY DEF AnswersFitStages, TypeOK, RunnerTypeOK
<1>6. OneStepAtATime'
  BY DEF OneStepAtATime, TypeOK, RunnerTypeOK
<1>7. OpeningIsKnown'
  BY DEF OpeningIsKnown, TypeOK, RunnerTypeOK, CountersAgree, CallsKnowTheirFlow,
         AnswersFitStages, SessionsAreOpen
<1>8. SessionsAreOpen'
  BY DEF SessionsAreOpen, TypeOK, RunnerTypeOK
<1>9. DeadlinesAreArmed'
  BY DEF DeadlinesAreArmed, TypeOK, RunnerTypeOK
<1>10. ChildHasAnOwner'
  BY DEF ChildHasAnOwner, TypeOK, RunnerTypeOK
<1>11. EndedIsGone'
  BY DEF EndedIsGone, Ended, TypeOK, RunnerTypeOK
<1>12. OpenedIsAccountedFor'
  BY DEF OpenedIsAccountedFor, Ended, TypeOK, RunnerTypeOK
<1>13. CancelledIsGone'
  BY DEF CancelledIsGone, TypeOK, RunnerTypeOK
<1>14. CompletionsAreHeld'
  BY DEF CompletionsAreHeld, TypeOK, RunnerTypeOK
<1>15. SpentIsDone'
  BY DEF SpentIsDone, Spent, TypeOK, RunnerTypeOK, CallsKnowTheirFlow, AnswersFitStages,
         SessionsAreOpen, EndedIsGone, Ended, CancelledIsGone, CompletionsAreHeld
<1>16. HandlersKnowSessions'
  BY DEF HandlersKnowSessions, TypeOK, RunnerTypeOK, CallsKnowTheirFlow,
         AnswersFitStages, SessionsAreOpen, EndedIsGone, Ended, OpenedIsAccountedFor,
         CancelledIsGone, SpentIsDone, Spent, NotFoundIsOver
<1>17. OneFlowOnDisplay'
  BY DEF OneFlowOnDisplay, Awaited, TypeOK, RunnerTypeOK
<1>18. ReceivedIsHeld'
  BY DEF ReceivedIsHeld, TypeOK, RunnerTypeOK
<1>19. NotFoundIsOver'
  BY DEF NotFoundIsOver, Ended
<1> QED
  BY <1>1, <1>2, <1>3, <1>4, <1>5, <1>6, <1>7, <1>8, <1>9, <1>10, <1>11, <1>12, <1>13,
     <1>14, <1>15, <1>16, <1>17, <1>18, <1>19

(* A start is about a flow nothing is known of, in a window that shows none. *)
LEMMA UserStartsKeeps ==
  ASSUME FlowInv, NEW f \in Flows, UserStarts(f)
  PROVE FlowInv'
<1> USE DEF FlowInv, CallsInv, RunnerInv, EndsInv, WindowInv, UserStarts, Start, Asks
<1>1. RunnerTypeOK'
  BY DEF RunnerTypeOK, TypeOK
<1>2. TypeOK'
  BY <1>1 DEF TypeOK
<1>3. CountersAgree'
  BY DEF CountersAgree, TypeOK, RunnerTypeOK
<1>4. CallsKnowTheirFlow'
  BY DEF CallsKnowTheirFlow, TypeOK, RunnerTypeOK
<1>5. AnswersFitStages'
  BY DEF AnswersFitStages, TypeOK, RunnerTypeOK
<1>6. OneStepAtATime'
  BY DEF OneStepAtATime, TypeOK, RunnerTypeOK
<1>7. OpeningIsKnown'
  BY DEF OpeningIsKnown, TypeOK, RunnerTypeOK
<1>8. SessionsAreOpen'
  BY DEF SessionsAreOpen, TypeOK, RunnerTypeOK
<1>9. DeadlinesAreArmed'
  BY DEF DeadlinesAreArmed, TypeOK, RunnerTypeOK, CallsKnowTheirFlow, AnswersFitStages,
         OpeningIsKnown, SessionsAreOpen, ChildHasAnOwner
<1>10. ChildHasAnOwner'
  BY DEF ChildHasAnOwner, TypeOK, RunnerTypeOK
<1>11. EndedIsGone'
  BY DEF EndedIsGone, Ended, TypeOK, RunnerTypeOK, CallsKnowTheirFlow, AnswersFitStages
<1>12. OpenedIsAccountedFor'
  BY DEF OpenedIsAccountedFor, Ended, TypeOK, RunnerTypeOK, CallsKnowTheirFlow,
         AnswersFitStages
<1>13. NotFoundIsOver'
  BY DEF NotFoundIsOver, Ended, TypeOK, RunnerTypeOK, CallsKnowTheirFlow,
         AnswersFitStages
<1>14. CancelledIsGone'
  BY DEF CancelledIsGone, TypeOK, RunnerTypeOK
<1>15. CompletionsAreHeld'
  BY DEF CompletionsAreHeld, TypeOK, RunnerTypeOK
<1>16. SpentIsDone'
  BY DEF SpentIsDone, Spent, TypeOK, RunnerTypeOK, CallsKnowTheirFlow, AnswersFitStages,
         SessionsAreOpen, EndedIsGone, Ended, CancelledIsGone, CompletionsAreHeld
<1>17. HandlersKnowSessions'
  BY DEF HandlersKnowSessions, TypeOK, RunnerTypeOK
<1>18. OneFlowOnDisplay'
  BY DEF OneFlowOnDisplay, Awaited, TypeOK, RunnerTypeOK
<1>19. ReceivedIsHeld'
  BY DEF ReceivedIsHeld, TypeOK, RunnerTypeOK
<1> QED
  BY <1>1, <1>2, <1>3, <1>4, <1>5, <1>6, <1>7, <1>8, <1>9, <1>10, <1>11, <1>12, <1>13,
     <1>14, <1>15, <1>16, <1>17, <1>18, <1>19

(* A cancel forgets the session on both sides.                               *)
LEMMA UserCancelsKeeps ==
  ASSUME FlowInv, UserCancels
  PROVE FlowInv'
<1> USE DEF FlowInv, CallsInv, RunnerInv, EndsInv, WindowInv, UserCancels, CancelRemote,
            Cancel, End, Stopped, Remembered
<1>1. RunnerTypeOK'
  BY SMTT(60) DEF RunnerTypeOK, TypeOK
<1>2. TypeOK'
  <2>1. origins' \subseteq Flows
    BY DEF TypeOK
  <2>2. open' \in BOOLEAN
    BY DEF TypeOK
  <2>6. generation' \in Nat
    BY DEF TypeOK
  <2> QED
    BY <1>1, <2>1, <2>2, <2>6 DEF TypeOK
<1>3. CountersAgree'
  BY DEF CountersAgree, TypeOK, RunnerTypeOK
<1>4. OpeningIsKnown'
  BY DEF OpeningIsKnown, TypeOK, RunnerTypeOK
<1>5. SessionsAreOpen'
  BY DEF SessionsAreOpen, TypeOK, RunnerTypeOK
<1>6. DeadlinesAreArmed'
  BY DEF DeadlinesAreArmed, TypeOK, RunnerTypeOK, CallsKnowTheirFlow, AnswersFitStages,
         OpeningIsKnown, SessionsAreOpen, ChildHasAnOwner
<1>7. ChildHasAnOwner'
  BY DEF ChildHasAnOwner, TypeOK, RunnerTypeOK, CountersAgree, CallsKnowTheirFlow,
         AnswersFitStages, OpeningIsKnown, SessionsAreOpen, DeadlinesAreArmed
<1>8. EndedIsGone'
  BY DEF EndedIsGone, Ended, TypeOK, RunnerTypeOK
<1>9. OpenedIsAccountedFor'
  BY DEF OpenedIsAccountedFor, Ended, TypeOK, RunnerTypeOK
<1>10. NotFoundIsOver'
  BY DEF NotFoundIsOver, Ended, TypeOK, RunnerTypeOK
<1>11. CancelledIsGone'
  BY DEF CancelledIsGone, TypeOK, RunnerTypeOK, CallsKnowTheirFlow, AnswersFitStages,
         OpeningIsKnown, SessionsAreOpen, EndedIsGone, Ended, CompletionsAreHeld
<1>12. CompletionsAreHeld'
  BY DEF CompletionsAreHeld, TypeOK, RunnerTypeOK
<1>13. SpentIsDone'
  BY DEF SpentIsDone, Spent, TypeOK, RunnerTypeOK, CallsKnowTheirFlow, AnswersFitStages,
         SessionsAreOpen, EndedIsGone, Ended, CancelledIsGone, CompletionsAreHeld
<1>14. HandlersKnowSessions'
  BY DEF HandlersKnowSessions, TypeOK, RunnerTypeOK
<1>15. OneFlowOnDisplay'
  BY DEF OneFlowOnDisplay, Awaited, TypeOK, RunnerTypeOK
<1>16. ReceivedIsHeld'
  BY DEF ReceivedIsHeld, TypeOK, RunnerTypeOK, CallsKnowTheirFlow, AnswersFitStages,
         SessionsAreOpen, HandlersKnowSessions, OneFlowOnDisplay, Awaited
<1>17. (CallsKnowTheirFlow /\ AnswersFitStages /\ OneStepAtATime)'
  BY DEF CallsKnowTheirFlow, AnswersFitStages, OneStepAtATime
<1> QED
  BY <1>1, <1>2, <1>3, <1>4, <1>5, <1>6, <1>7, <1>8, <1>9, <1>10, <1>11, <1>12, <1>13,
     <1>14, <1>15, <1>16, <1>17

(* A step the handlers refuse is about no session.                           *)
LEMMA RefusedKeeps ==
  ASSUME FlowInv, NEW a \in Advances, NEW f \in Flows \cap {session, timer},
         stage[a] = "unused", f \notin origins,
         on' = [on EXCEPT ![a] = f], stage' = [stage EXCEPT ![a] = "replied"],
         reply' = [reply EXCEPT ![a] = "error"], Asks(a), timer' \in {timer, None},
         UNCHANGED <<answer, host, runner, cancelled, faults, generation, handlers,
                     mounted, open, session, shown, lost>>
  PROVE FlowInv'
<1> USE DEF FlowInv, CallsInv, RunnerInv, EndsInv, WindowInv, Asks
<1>1. RunnerTypeOK'
  BY DEF RunnerTypeOK, TypeOK
<1>2. TypeOK'
  BY <1>1 DEF TypeOK
<1>3. CountersAgree'
  BY DEF CountersAgree, TypeOK, RunnerTypeOK
<1>4. CallsKnowTheirFlow'
  BY DEF CallsKnowTheirFlow, TypeOK, RunnerTypeOK, AnswersFitStages, OneFlowOnDisplay,
         Awaited
<1>5. AnswersFitStages'
  BY DEF AnswersFitStages, TypeOK, RunnerTypeOK
<1>6. OneStepAtATime'
  BY DEF OneStepAtATime, TypeOK, RunnerTypeOK
<1>7. OpeningIsKnown'
  BY DEF OpeningIsKnown, TypeOK, RunnerTypeOK
<1>8. SessionsAreOpen'
  BY DEF SessionsAreOpen, TypeOK, RunnerTypeOK
<1>9. DeadlinesAreArmed'
  BY DEF DeadlinesAreArmed, TypeOK, RunnerTypeOK
<1>10. ChildHasAnOwner'
  BY DEF ChildHasAnOwner, TypeOK, RunnerTypeOK
<1>11. EndedIsGone'
  BY DEF EndedIsGone, Ended, TypeOK, RunnerTypeOK, CallsKnowTheirFlow, AnswersFitStages
<1>12. OpenedIsAccountedFor'
  BY DEF OpenedIsAccountedFor, Ended, TypeOK, RunnerTypeOK, CallsKnowTheirFlow,
         AnswersFitStages
<1>13. NotFoundIsOver'
  BY DEF NotFoundIsOver, Ended, TypeOK, RunnerTypeOK, CallsKnowTheirFlow,
         AnswersFitStages
<1>14. CancelledIsGone'
  BY DEF CancelledIsGone, TypeOK, RunnerTypeOK
<1>15. CompletionsAreHeld'
  BY DEF CompletionsAreHeld, TypeOK, RunnerTypeOK
<1>16. SpentIsDone'
  BY DEF SpentIsDone, Spent, TypeOK, RunnerTypeOK, CallsKnowTheirFlow, AnswersFitStages,
         SessionsAreOpen, EndedIsGone, Ended, CancelledIsGone, CompletionsAreHeld
<1>17. HandlersKnowSessions'
  <2>1. f \notin sessions
    BY DEF HandlersKnowSessions, OneFlowOnDisplay
  <2> QED
    BY <2>1 DEF HandlersKnowSessions, TypeOK, RunnerTypeOK, CallsKnowTheirFlow
<1>18. OneFlowOnDisplay'
  BY DEF OneFlowOnDisplay, Awaited, TypeOK, RunnerTypeOK
<1>19. ReceivedIsHeld'
  BY DEF ReceivedIsHeld, TypeOK, RunnerTypeOK
<1> QED
  BY <1>1, <1>2, <1>3, <1>4, <1>5, <1>6, <1>7, <1>8, <1>9, <1>10, <1>11, <1>12, <1>13,
     <1>14, <1>15, <1>16, <1>17, <1>18, <1>19

(* A step the runner is asked for is about a flow whose start was received.  *)
LEMMA AskedKeeps ==
  ASSUME FlowInv, NEW a \in Advances, NEW f \in Flows \cap {session, timer},
         NEW late \in BOOLEAN, Advance(a, f, late),
         Asks(a), timer' \in {timer, None},
         UNCHANGED <<reply, generation, handlers, mounted, open, session, shown, lost>>
  PROVE FlowInv'
<1> USE DEF FlowInv, CallsInv, RunnerInv, EndsInv, WindowInv, Advance, Asks, Gone,
            Return, EndAnswering, End, Stopped
<1>1. RunnerTypeOK'
  <2>1. child' \in [Flows -> Children] /\ sessions' \subseteq Flows
        /\ deadlines' \subseteq Flows /\ inFlight' \subseteq Flows
    BY DEF TypeOK, RunnerTypeOK
  <2>2. abandoned' \in [Flows -> {"no", "timeout", "disabled"}]
    BY DEF TypeOK, RunnerTypeOK
  <2>3. stage' \in [Calls -> Stages] /\ on' \in [Calls -> Flows \cup {None}]
    BY DEF TypeOK, RunnerTypeOK
  <2>4. answer' \in [Calls -> Steps \cup Refusals \cup {None}]
    BY DEF TypeOK, RunnerTypeOK
  <2> QED
    BY <2>1, <2>2, <2>3, <2>4 DEF TypeOK, RunnerTypeOK
<1>2. TypeOK'
  BY <1>1 DEF TypeOK
<1>3. CountersAgree'
  BY DEF CountersAgree, TypeOK, RunnerTypeOK
<1>4. CallsKnowTheirFlow'
  BY DEF CallsKnowTheirFlow, TypeOK, RunnerTypeOK, AnswersFitStages, OneFlowOnDisplay,
         Awaited
<1>5. AnswersFitStages'
  BY DEF AnswersFitStages, TypeOK, RunnerTypeOK
<1>6. OneStepAtATime'
  <2>1. CASE f \notin sessions
    BY <2>1 DEF OneStepAtATime, TypeOK, RunnerTypeOK
  <2>2. CASE f \in sessions \cap inFlight
    BY <2>2 DEF OneStepAtATime, TypeOK, RunnerTypeOK
  <2>3. CASE f \in sessions \ inFlight /\ (late \/ AtCap(f))
    BY <2>3 DEF OneStepAtATime, TypeOK, RunnerTypeOK
  <2>4. CASE f \in sessions \ inFlight /\ ~(late \/ AtCap(f))
    BY <2>4 DEF OneStepAtATime, TypeOK, RunnerTypeOK, AtCap
  <2> QED
    BY <2>1, <2>2, <2>3, <2>4
<1>7. OpeningIsKnown'
  BY DEF OpeningIsKnown, TypeOK, RunnerTypeOK
<1>8. SessionsAreOpen'
  BY DEF SessionsAreOpen, TypeOK, RunnerTypeOK
<1>9. DeadlinesAreArmed'
  BY DEF DeadlinesAreArmed, TypeOK, RunnerTypeOK, CallsKnowTheirFlow, AnswersFitStages,
         OpeningIsKnown, SessionsAreOpen, ChildHasAnOwner
<1>10. ChildHasAnOwner'
  BY DEF ChildHasAnOwner, TypeOK, RunnerTypeOK, CountersAgree, CallsKnowTheirFlow,
         AnswersFitStages, OpeningIsKnown, SessionsAreOpen, DeadlinesAreArmed
<1>11. EndedIsGone'
  <2>1. CASE f \notin sessions
    BY <2>1 DEF EndedIsGone, Ended, TypeOK, RunnerTypeOK, CallsKnowTheirFlow,
                AnswersFitStages, OpeningIsKnown, SessionsAreOpen
  <2>2. CASE f \in sessions \cap inFlight
    BY <2>2 DEF EndedIsGone, Ended, TypeOK, RunnerTypeOK, CallsKnowTheirFlow,
                AnswersFitStages, OpeningIsKnown, SessionsAreOpen
  <2>3. CASE f \in sessions \ inFlight /\ (late \/ AtCap(f))
    BY <2>3 DEF EndedIsGone, Ended, TypeOK, RunnerTypeOK, CallsKnowTheirFlow,
                AnswersFitStages, OpeningIsKnown, SessionsAreOpen
  <2>4. CASE f \in sessions \ inFlight /\ ~(late \/ AtCap(f))
    BY <2>4 DEF EndedIsGone, Ended, TypeOK, RunnerTypeOK, CallsKnowTheirFlow,
                AnswersFitStages, OpeningIsKnown, SessionsAreOpen, AtCap
  <2> QED
    BY <2>1, <2>2, <2>3, <2>4
<1>12. OpenedIsAccountedFor'
  <2>1. CASE f \notin sessions
    BY <2>1 DEF OpenedIsAccountedFor, Ended, TypeOK, RunnerTypeOK, CallsKnowTheirFlow,
                AnswersFitStages, OpeningIsKnown, SessionsAreOpen, EndedIsGone
  <2>2. CASE f \in sessions \cap inFlight
    BY <2>2 DEF OpenedIsAccountedFor, Ended, TypeOK, RunnerTypeOK, CallsKnowTheirFlow,
                AnswersFitStages, OpeningIsKnown, SessionsAreOpen, EndedIsGone
  <2>3. CASE f \in sessions \ inFlight /\ (late \/ AtCap(f))
    BY <2>3 DEF OpenedIsAccountedFor, Ended, TypeOK, RunnerTypeOK, CallsKnowTheirFlow,
                AnswersFitStages, OpeningIsKnown, SessionsAreOpen, EndedIsGone
  <2>4. CASE f \in sessions \ inFlight /\ ~(late \/ AtCap(f))
    BY <2>4 DEF OpenedIsAccountedFor, Ended, TypeOK, RunnerTypeOK, CallsKnowTheirFlow,
                AnswersFitStages, OpeningIsKnown, SessionsAreOpen, EndedIsGone, AtCap
  <2> QED
    BY <2>1, <2>2, <2>3, <2>4
<1>13. NotFoundIsOver'
  <2>1. \A g \in Flows : Ended(g) \subseteq Ended(g)'
    BY DEF Ended, TypeOK, RunnerTypeOK, CallsKnowTheirFlow, AnswersFitStages
  <2>2. answer'[a] = "not-found" => Ended(f) # {} \/ f \in cancelled
    BY DEF OneFlowOnDisplay, OpenedIsAccountedFor, CallsKnowTheirFlow, AnswersFitStages,
           TypeOK, RunnerTypeOK
  <2>3. \A c \in Calls \ {a} : answer'[c] = answer[c] /\ on'[c] = on[c]
    BY DEF TypeOK, RunnerTypeOK
  <2>4. on'[a] = f /\ cancelled' = cancelled
    BY DEF TypeOK, RunnerTypeOK
  <2>5. \A c \in Calls : answer[c] = "not-found" => on[c] \in Flows
    BY DEF CallsKnowTheirFlow
  <2> QED
    BY <2>1, <2>2, <2>3, <2>4, <2>5 DEF NotFoundIsOver
<1>14. CancelledIsGone'
  BY DEF CancelledIsGone, TypeOK, RunnerTypeOK
<1>15. CompletionsAreHeld'
  <2>1. CASE f \notin sessions
    BY <2>1 DEF CompletionsAreHeld, TypeOK, RunnerTypeOK
  <2>2. CASE f \in sessions \cap inFlight
    BY <2>2 DEF CompletionsAreHeld, TypeOK, RunnerTypeOK
  <2>3. CASE f \in sessions \ inFlight /\ (late \/ AtCap(f))
    BY <2>3 DEF CompletionsAreHeld, TypeOK, RunnerTypeOK
  <2>4. CASE f \in sessions \ inFlight /\ ~(late \/ AtCap(f))
    BY <2>4 DEF CompletionsAreHeld, TypeOK, RunnerTypeOK, AtCap
  <2> QED
    BY <2>1, <2>2, <2>3, <2>4
<1>16. SpentIsDone'
  <2>1. CASE f \notin sessions
    BY <2>1 DEF SpentIsDone, Spent, TypeOK, RunnerTypeOK, CallsKnowTheirFlow,
                AnswersFitStages, SessionsAreOpen, EndedIsGone, Ended, CancelledIsGone,
                CompletionsAreHeld
  <2>2. CASE f \in sessions \cap inFlight
    BY <2>2 DEF SpentIsDone, Spent, TypeOK, RunnerTypeOK, CallsKnowTheirFlow,
                AnswersFitStages, SessionsAreOpen, EndedIsGone, Ended, CancelledIsGone,
                CompletionsAreHeld
  <2>3. CASE f \in sessions \ inFlight /\ (late \/ AtCap(f))
    BY <2>3 DEF SpentIsDone, Spent, TypeOK, RunnerTypeOK, CallsKnowTheirFlow,
                AnswersFitStages, SessionsAreOpen, EndedIsGone, Ended, CancelledIsGone,
                CompletionsAreHeld
  <2>4. CASE f \in sessions \ inFlight /\ ~(late \/ AtCap(f))
    BY <2>4 DEF SpentIsDone, Spent, TypeOK, RunnerTypeOK, CallsKnowTheirFlow,
                AnswersFitStages, SessionsAreOpen, EndedIsGone, Ended, CancelledIsGone,
                CompletionsAreHeld, AtCap
  <2> QED
    BY <2>1, <2>2, <2>3, <2>4
<1>17. HandlersKnowSessions'
  <2>1. CASE f \notin sessions
    BY <2>1 DEF HandlersKnowSessions, TypeOK, RunnerTypeOK
  <2>2. CASE f \in sessions \cap inFlight
    BY <2>2 DEF HandlersKnowSessions, TypeOK, RunnerTypeOK
  <2>3. CASE f \in sessions \ inFlight /\ (late \/ AtCap(f))
    BY <2>3 DEF HandlersKnowSessions, TypeOK, RunnerTypeOK
  <2>4. CASE f \in sessions \ inFlight /\ ~(late \/ AtCap(f))
    BY <2>4 DEF HandlersKnowSessions, TypeOK, RunnerTypeOK, AtCap
  <2> QED
    BY <2>1, <2>2, <2>3, <2>4
<1>18. OneFlowOnDisplay'
  BY DEF OneFlowOnDisplay, Awaited, TypeOK, RunnerTypeOK
<1>19. ReceivedIsHeld'
  BY DEF ReceivedIsHeld, TypeOK, RunnerTypeOK
<1> QED
  BY <1>1, <1>2, <1>3, <1>4, <1>5, <1>6, <1>7, <1>8, <1>9, <1>10, <1>11, <1>12, <1>13,
     <1>14, <1>15, <1>16, <1>17, <1>18, <1>19

(* A reply that is received is about the flow on display, or is given up.    *)
LEMMA ReceiveKeeps ==
  ASSUME FlowInv, NEW c \in Calls, Receive(c)
  PROVE FlowInv'
<1> USE DEF FlowInv, CallsInv, RunnerInv, EndsInv, WindowInv, Receive, CancelRemote,
            Cancel, End, Stopped, Remembered, Apply, Forget
<1>1. RunnerTypeOK'
  <2>1. CASE asked[c] = generation /\ reply[c] = "none"
    BY <2>1 DEF RunnerTypeOK, TypeOK
  <2>2. CASE asked[c] = generation /\ reply[c] # "none"
    BY <2>2 DEF RunnerTypeOK, TypeOK
  <2>3. CASE asked[c] # generation /\ c # on[c]
    BY <2>3 DEF RunnerTypeOK, TypeOK
  <2>4. CASE asked[c] # generation /\ c = on[c] /\ c \in origins
    BY <2>4 DEF RunnerTypeOK, TypeOK
  <2>5. CASE asked[c] # generation /\ c = on[c] /\ c \notin origins
    BY <2>5 DEF RunnerTypeOK, TypeOK
  <2> QED
    BY <2>1, <2>2, <2>3, <2>4, <2>5
<1>2. TypeOK'
  <2>1. origins' \subseteq Flows
    BY DEF TypeOK
  <2>2. open' \in BOOLEAN
    BY DEF TypeOK
  <2>6. generation' \in Nat
    BY DEF TypeOK
  <2>3. session' \in Flows \cup {None} /\ timer' \in Flows \cup {None}
    BY DEF TypeOK, CallsKnowTheirFlow
  <2>4. shown' \in Steps \cup {None}
    BY DEF TypeOK, AnswersFitStages
  <2>5. reply' \in [Calls -> Steps \cup {"none", None}] /\ asked' \in [Calls -> Nat]
    BY DEF TypeOK
  <2> QED
    BY <1>1, <2>1, <2>2, <2>3, <2>4, <2>5, <2>6 DEF TypeOK
<1>3. CountersAgree'
  BY DEF CountersAgree, TypeOK, RunnerTypeOK
<1>4. CallsKnowTheirFlow'
  BY DEF CallsKnowTheirFlow, TypeOK, RunnerTypeOK
<1>5. AnswersFitStages'
  BY DEF AnswersFitStages, TypeOK, RunnerTypeOK
<1>6. OneStepAtATime'
  BY DEF OneStepAtATime, TypeOK, RunnerTypeOK
<1>7. OpeningIsKnown'
  BY DEF OpeningIsKnown, TypeOK, RunnerTypeOK
<1>8. SessionsAreOpen'
  BY DEF SessionsAreOpen, TypeOK, RunnerTypeOK
<1>9. DeadlinesAreArmed'
  BY DEF DeadlinesAreArmed, TypeOK, RunnerTypeOK
<1>10. ChildHasAnOwner'
  BY DEF ChildHasAnOwner, TypeOK, RunnerTypeOK, CountersAgree, CallsKnowTheirFlow,
         AnswersFitStages, OpeningIsKnown, SessionsAreOpen, DeadlinesAreArmed
<1>11. EndedIsGone'
  BY DEF EndedIsGone, Ended, TypeOK, RunnerTypeOK
<1>12. OpenedIsAccountedFor'
  BY DEF OpenedIsAccountedFor, Ended, TypeOK, RunnerTypeOK
<1>13. NotFoundIsOver'
  BY DEF NotFoundIsOver, Ended, TypeOK, RunnerTypeOK
<1>14. CancelledIsGone'
  BY DEF CancelledIsGone, TypeOK, RunnerTypeOK
<1>15. CompletionsAreHeld'
  BY DEF CompletionsAreHeld, TypeOK, RunnerTypeOK
<1>16. SpentIsDone'
  BY DEF SpentIsDone, Spent, TypeOK, RunnerTypeOK, CallsKnowTheirFlow, AnswersFitStages,
         SessionsAreOpen, EndedIsGone, Ended, CancelledIsGone, CompletionsAreHeld
<1>17. HandlersKnowSessions'
  BY DEF HandlersKnowSessions, TypeOK, RunnerTypeOK
<1>18. OneFlowOnDisplay'
  BY DEF OneFlowOnDisplay, Awaited, TypeOK, RunnerTypeOK, CallsKnowTheirFlow,
         AnswersFitStages
<1>19. ReceivedIsHeld'
  BY DEF ReceivedIsHeld, TypeOK, RunnerTypeOK, CallsKnowTheirFlow, AnswersFitStages,
         SessionsAreOpen, HandlersKnowSessions, OneFlowOnDisplay, Awaited
<1> QED
  BY <1>1, <1>2, <1>3, <1>4, <1>5, <1>6, <1>7, <1>8, <1>9, <1>10, <1>11, <1>12, <1>13,
     <1>14, <1>15, <1>16, <1>17, <1>18, <1>19

(* A reply that is lost leaves its session to the deadline.                  *)
LEMMA LosesKeeps ==
  ASSUME FlowInv, NEW c \in Calls, Loses(c)
  PROVE FlowInv'
<1> USE DEF FlowInv, CallsInv, RunnerInv, EndsInv, WindowInv, Loses, CancelRemote,
            Cancel, End, Stopped, Remembered, Forget, Fault
<1>1. RunnerTypeOK'
  BY DEF RunnerTypeOK, TypeOK
<1>2. TypeOK'
  BY <1>1 DEF TypeOK, CallsKnowTheirFlow, AnswersFitStages
<1>3. CountersAgree'
  BY DEF CountersAgree, TypeOK, RunnerTypeOK
<1>4. CallsKnowTheirFlow'
  BY DEF CallsKnowTheirFlow, TypeOK, RunnerTypeOK
<1>5. AnswersFitStages'
  BY DEF AnswersFitStages, TypeOK, RunnerTypeOK
<1>6. OneStepAtATime'
  BY DEF OneStepAtATime, TypeOK, RunnerTypeOK
<1>7. OpeningIsKnown'
  BY DEF OpeningIsKnown, TypeOK, RunnerTypeOK
<1>8. SessionsAreOpen'
  BY DEF SessionsAreOpen, TypeOK, RunnerTypeOK
<1>9. DeadlinesAreArmed'
  BY DEF DeadlinesAreArmed, TypeOK, RunnerTypeOK, CallsKnowTheirFlow, AnswersFitStages
<1>10. ChildHasAnOwner'
  BY DEF ChildHasAnOwner, TypeOK, RunnerTypeOK, CountersAgree, CallsKnowTheirFlow,
         AnswersFitStages, OpeningIsKnown, SessionsAreOpen, DeadlinesAreArmed
<1>11. EndedIsGone'
  BY DEF EndedIsGone, Ended, TypeOK, RunnerTypeOK
<1>12. OpenedIsAccountedFor'
  BY DEF OpenedIsAccountedFor, Ended, TypeOK, RunnerTypeOK
<1>13. NotFoundIsOver'
  BY DEF NotFoundIsOver, Ended, TypeOK, RunnerTypeOK
<1>14. CancelledIsGone'
  BY DEF CancelledIsGone, TypeOK, RunnerTypeOK, CallsKnowTheirFlow, AnswersFitStages
<1>15. CompletionsAreHeld'
  BY DEF CompletionsAreHeld, TypeOK, RunnerTypeOK
<1>16. SpentIsDone'
  BY DEF SpentIsDone, Spent, TypeOK, RunnerTypeOK, CallsKnowTheirFlow, AnswersFitStages,
         SessionsAreOpen, EndedIsGone, Ended, CancelledIsGone, CompletionsAreHeld
<1>17. HandlersKnowSessions'
  BY DEF HandlersKnowSessions, TypeOK, RunnerTypeOK
<1>18. OneFlowOnDisplay'
  BY DEF OneFlowOnDisplay, Awaited, TypeOK, RunnerTypeOK
<1>19. ReceivedIsHeld'
  BY DEF ReceivedIsHeld, TypeOK, RunnerTypeOK, CallsKnowTheirFlow, AnswersFitStages,
         SessionsAreOpen, HandlersKnowSessions, OneFlowOnDisplay, Awaited
<1> QED
  BY <1>1, <1>2, <1>3, <1>4, <1>5, <1>6, <1>7, <1>8, <1>9, <1>10, <1>11, <1>12, <1>13,
     <1>14, <1>15, <1>16, <1>17, <1>18, <1>19

(* A page that is left cancels the session it holds.                         *)
LEMMA UnmountsKeeps ==
  ASSUME FlowInv, Unmounts
  PROVE FlowInv'
<1> USE DEF FlowInv, CallsInv, RunnerInv, EndsInv, WindowInv, Unmounts, CancelRemote,
            Cancel, End, Stopped, Remembered
<1>1. RunnerTypeOK'
  BY SMTT(60) DEF RunnerTypeOK, TypeOK
<1>2. TypeOK'
  BY <1>1 DEF TypeOK
<1>3. CountersAgree'
  BY DEF CountersAgree, TypeOK, RunnerTypeOK
<1>4. OpeningIsKnown'
  BY DEF OpeningIsKnown, TypeOK, RunnerTypeOK
<1>5. SessionsAreOpen'
  BY DEF SessionsAreOpen, TypeOK, RunnerTypeOK
<1>6. DeadlinesAreArmed'
  BY DEF DeadlinesAreArmed, TypeOK, RunnerTypeOK, CallsKnowTheirFlow, AnswersFitStages,
         OpeningIsKnown, SessionsAreOpen, ChildHasAnOwner
<1>7. ChildHasAnOwner'
  BY DEF ChildHasAnOwner, TypeOK, RunnerTypeOK, CountersAgree, CallsKnowTheirFlow,
         AnswersFitStages, OpeningIsKnown, SessionsAreOpen, DeadlinesAreArmed
<1>8. EndedIsGone'
  BY DEF EndedIsGone, Ended, TypeOK, RunnerTypeOK
<1>9. OpenedIsAccountedFor'
  BY DEF OpenedIsAccountedFor, Ended, TypeOK, RunnerTypeOK
<1>10. NotFoundIsOver'
  BY DEF NotFoundIsOver, Ended, TypeOK, RunnerTypeOK
<1>11. CancelledIsGone'
  BY DEF CancelledIsGone, TypeOK, RunnerTypeOK, CallsKnowTheirFlow, AnswersFitStages,
         OpeningIsKnown, SessionsAreOpen, EndedIsGone, Ended, CompletionsAreHeld
<1>12. CompletionsAreHeld'
  BY DEF CompletionsAreHeld, TypeOK, RunnerTypeOK
<1>13. SpentIsDone'
  BY DEF SpentIsDone, Spent, TypeOK, RunnerTypeOK, CallsKnowTheirFlow, AnswersFitStages,
         SessionsAreOpen, EndedIsGone, Ended, CancelledIsGone, CompletionsAreHeld
<1>14. HandlersKnowSessions'
  BY DEF HandlersKnowSessions, TypeOK, RunnerTypeOK
<1>15. OneFlowOnDisplay'
  BY DEF OneFlowOnDisplay, Awaited, TypeOK, RunnerTypeOK
<1>16. ReceivedIsHeld'
  BY DEF ReceivedIsHeld, TypeOK, RunnerTypeOK
<1>17. (CallsKnowTheirFlow /\ AnswersFitStages /\ OneStepAtATime)'
  BY DEF CallsKnowTheirFlow, AnswersFitStages, OneStepAtATime
<1> QED
  BY <1>1, <1>2, <1>3, <1>4, <1>5, <1>6, <1>7, <1>8, <1>9, <1>10, <1>11, <1>12, <1>13,
     <1>14, <1>15, <1>16, <1>17


(* A step of the hook is refused by the handlers, or asked of the runner.       *)
LEMMA RequestStepKeeps ==
  ASSUME FlowInv, NEW a \in Advances, NEW f \in Flows \cap {session, timer},
         NEW late \in BOOLEAN, RequestStep(a, f, late), timer' \in {timer, None}
  PROVE FlowInv'
<1>1. CASE f \in origins
  BY <1>1, AskedKeeps DEF RequestStep
<1>2. CASE f \notin origins
  BY <1>2, RefusedKeeps DEF RequestStep, NextOf
<1> QED
  BY <1>1, <1>2

(* The user and the timer ask for a step of the session they hold.             *)
LEMMA WindowAsksKeep ==
  ASSUME FlowInv, NEW a \in Advances, NEW late \in BOOLEAN,
         UserSubmits(a, late) \/ Polls(a, late)
  PROVE FlowInv'
<1> TypeOK
  BY DEF FlowInv
<1>1. CASE UserSubmits(a, late)
  <2>1. session \in Flows \cap {session, timer} /\ RequestStep(a, session, late)
    BY <1>1 DEF UserSubmits, TypeOK
  <2>2. timer' \in {timer, None}
    BY <1>1 DEF UserSubmits
  <2> QED
    BY <2>1, <2>2, RequestStepKeeps
<1>2. CASE Polls(a, late)
  <2>1. timer \in Flows \cap {session, timer} /\ RequestStep(a, timer, late)
    BY <1>2 DEF Polls, TypeOK
  <2>2. timer' \in {timer, None}
    BY <1>2 DEF Polls
  <2> QED
    BY <2>1, <2>2, RequestStepKeeps
<1> QED
  BY <1>1, <1>2

(* Where nothing changes, nothing is disturbed.                               *)
LEMMA StutterKeeps == FlowInv /\ UNCHANGED vars => FlowInv'
<1> SUFFICES ASSUME FlowInv, UNCHANGED vars PROVE FlowInv'
  OBVIOUS
<1> USE DEF vars
<1>1. (TypeOK /\ CallsInv)'
  BY DEF FlowInv, TypeOK, RunnerTypeOK, CallsInv, CountersAgree, CallsKnowTheirFlow,
         AnswersFitStages, OneStepAtATime
<1>2. (RunnerInv /\ EndsInv)'
  BY DEF FlowInv, RunnerInv, OpeningIsKnown, SessionsAreOpen, DeadlinesAreArmed,
         ChildHasAnOwner, EndsInv, EndedIsGone, Ended, OpenedIsAccountedFor,
         NotFoundIsOver, CancelledIsGone, CompletionsAreHeld, SpentIsDone, Spent
<1>3. WindowInv'
  BY DEF FlowInv, WindowInv, HandlersKnowSessions, OneFlowOnDisplay, Awaited,
         ReceivedIsHeld
<1> QED
  BY <1>1, <1>2, <1>3 DEF FlowInv

-----------------------------------------------------------------------------
(***************************************************************************)
(* The invariant holds of every behaviour, and the properties follow.          *)
(***************************************************************************)

(* The invariant holds in every state of a setup flow.                         *)
THEOREM FlowsAreAccountedFor == Spec => []FlowInv
<1>1. FlowInv /\ [Next]_vars => FlowInv'
  <2> SUFFICES ASSUME FlowInv, [Next]_vars PROVE FlowInv'
    OBVIOUS
  <2>1. CASE Main
    <3>1. ASSUME NEW f \in Flows, UNCHANGED rest,
                 ChildReady(f) \/ ChildFails(f) \/ ChildCrashes(f)
          PROVE FlowInv'
      BY <3>1, ChildReadyKeeps, ChildFailsKeeps, ChildCrashesKeeps
    <3>2. ASSUME NEW f \in Flows, UNCHANGED rest,
                 SpawnFails(f) \/ OpenFlow(f) \/ Expire(f)
          PROVE FlowInv'
      BY <3>2, SpawnFailsKeeps, OpenFlowKeeps, ExpireKeeps
    <3>3. ASSUME NEW f \in Flows, NEW kind \in Kinds, UNCHANGED rest, Opened(f, kind)
          PROVE FlowInv'
      BY <3>3, OpenedKeeps
    <3>4. ASSUME NEW a \in Advances, UNCHANGED rest, Verified(a)
          PROVE FlowInv'
      BY <3>4, VerifiedKeeps
    <3>5. ASSUME NEW a \in Advances, NEW kind \in Kinds, UNCHANGED rest, Posted(a, kind)
          PROVE FlowInv'
      BY <3>5, PostedKeeps
    <3>6. ASSUME UNCHANGED rest, SaveSettings \/ Refresh
          PROVE FlowInv'
      BY <3>6, SaveSettingsKeeps, RefreshKeeps
    <3>7. ASSUME NEW c \in Calls, UNCHANGED rest, StopResolves(c)
          PROVE FlowInv'
      BY <3>7, StopResolvesKeeps
    <3>8. ASSUME NEW c \in Calls, NEW opened \in BOOLEAN,
                 HandlerTakes(c) \/ Opens(c, opened) \/ Persists(c)
          PROVE FlowInv'
      BY <3>8, HandlerTakesKeeps, OpensKeeps, PersistsKeeps
    <3> HIDE DEF rest
    <3> QED
      BY <2>1, <3>1, <3>2, <3>3, <3>4, <3>5, <3>6, <3>7, <3>8 DEF Main
  <2>2. CASE Window
    <3>1. ASSUME NEW f \in Flows, UserStarts(f)
          PROVE FlowInv'
      BY <3>1, UserStartsKeeps
    <3>2. ASSUME NEW a \in Advances, NEW late \in BOOLEAN,
                 UserSubmits(a, late) \/ Polls(a, late)
          PROVE FlowInv'
      BY <3>2, WindowAsksKeep
    <3>3. ASSUME NEW c \in Calls, Receive(c) \/ Loses(c)
          PROVE FlowInv'
      BY <3>3, ReceiveKeeps, LosesKeeps
    <3>4. ASSUME UserCancels \/ Unmounts
          PROVE FlowInv'
      BY <3>4, UserCancelsKeeps, UnmountsKeeps
    <3> QED
      BY <2>2, <3>1, <3>2, <3>3, <3>4 DEF Window
  <2>3. CASE UNCHANGED vars
    BY <2>3, StutterKeeps
  <2> QED
    BY <2>1, <2>2, <2>3 DEF Next
<1> QED
  BY <1>1, FlowInvInit, PTL DEF Spec

(* Every variable keeps its type: the counters stay within the caps.           *)
THEOREM FlowsTyped == Spec => []TypeOK
<1>1. FlowInv => TypeOK
  BY DEF FlowInv
<1> QED
  BY <1>1, FlowsAreAccountedFor, PTL

(* While a flow's child runs, its start is suspended or a deadline is armed for *)
(* it; a live session is under a deadline and its child was not stopped        *)
(* (flow-runner.ts 194-205).                                                *)
THEOREM FlowChildrenAreOwned == Spec => []ChildHasAnOwner
<1>1. FlowInv => ChildHasAnOwner
  BY DEF FlowInv, RunnerInv
<1> QED
  BY <1>1, FlowsAreAccountedFor, PTL

(* A set no two elements of which differ has one at most.                      *)
LEMMA AtMostOne ==
  ASSUME NEW S, \A x, y \in S : x = y
  PROVE Cardinality(S) <= 1
<1>1. CASE S = {}
  BY <1>1, FS_EmptySet
<1>2. ASSUME NEW x \in S PROVE Cardinality(S) <= 1
  <2>1. S = {x}
    OBVIOUS
  <2> QED
    BY <2>1, FS_Singleton
<1> QED
  BY <1>1, <1>2

(* One call at most gets a flow's final answer, and a later one is told that    *)
(* the flow is not found only if one did or the user gave it up               *)
(* (flow-runner.ts 454-468).                                                *)
THEOREM FlowsEndOnce == Spec => []EndsOnceAndSaysWhy
<1>1. FlowInv => EndsOnceAndSaysWhy
  <2> SUFFICES ASSUME FlowInv, NEW f \in Flows
               PROVE /\ Cardinality(Ended(f)) <= 1
                     /\ (\E a \in Advances : on[a] = f /\ answer[a] = "not-found") =>
                          Ended(f) # {} \/ f \in cancelled
    BY DEF EndsOnceAndSaysWhy
  <2>1. \A x, y \in Ended(f) : x = y
    BY DEF FlowInv, EndsInv, EndedIsGone
  <2>2. Cardinality(Ended(f)) <= 1
    BY <2>1, AtMostOne
  <2>3. (\E a \in Advances : on[a] = f /\ answer[a] = "not-found") =>
          Ended(f) # {} \/ f \in cancelled
    BY DEF FlowInv, EndsInv, NotFoundIsOver
  <2> QED
    BY <2>2, <2>3
<1> QED
  BY <1>1, FlowsAreAccountedFor, PTL

(* The secrets of a completion are in memory only while the call that produced   *)
(* it is on its way, and those of a cancelled flow are never saved.            *)
THEOREM FlowSecretsAreDrained == Spec => []SecretsAreDrained
<1>1. FlowInv => SecretsAreDrained
  BY DEF FlowInv, EndsInv, SecretsAreDrained, CompletionsAreHeld, SpentIsDone, Spent,
         TypeOK, RunnerTypeOK
<1> QED
  BY <1>1, FlowsAreAccountedFor, PTL

(* The window can reach every live session, unless a reply about it was lost     *)
(* (useProviderFlow.ts 153-158).                                            *)
THEOREM FlowSessionsAreReachable == Spec => []NoStrandedSession
<1>1. FlowInv => NoStrandedSession
  <2> SUFFICES ASSUME FlowInv, mounted, NEW f \in sessions, stage[f] # "over"
               PROVE Pending(f) # {}
    BY DEF FlowInv, WindowInv, ReceivedIsHeld, NoStrandedSession
  <2> f \in Flows /\ stage[f] # "unused" /\ on[f] = f
    BY DEF FlowInv, TypeOK, RunnerTypeOK, RunnerInv, SessionsAreOpen, CallsInv,
           CallsKnowTheirFlow
  <2> QED
    BY DEF Pending
<1> QED
  BY <1>1, FlowsAreAccountedFor, PTL
================================================================================

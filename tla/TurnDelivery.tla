----------------------------- MODULE TurnDelivery -----------------------------
(***************************************************************************)
(* What the run manager promises about a user turn: it is handed to a       *)
(* harness at most once, it is handed over or discarded for good, and one    *)
(* that was accepted does not wait for the manager for ever: only an agent   *)
(* that is starting and never answers can keep it.  Which agent, and which   *)
(* queues, resumes and crashes there are, is invisible here.                *)
(***************************************************************************)
CONSTANT Turns
VARIABLE fate

(* "entrusted": with an agent whose start has still to be answered.           *)
Fates == {"unsent", "waiting", "entrusted", "handed", "discarded"}
Unsettled == {"waiting", "entrusted"}

Init == fate = [t \in Turns |-> "unsent"]

(* The user sends a turn: it waits, or a ready agent takes it at once, or     *)
(* there is no such session.                                                *)
Send(t) ==
  /\ fate[t] = "unsent"
  /\ \E f \in Fates \ {"unsent"} : fate' = [fate EXCEPT ![t] = f]

(* Some turns move on together.  None goes back.                              *)
Settle ==
  \E settled \in SUBSET {t \in Turns : fate[t] \in Unsettled} :
    \E f \in {"entrusted", "handed", "discarded"} :
      fate' = [t \in Turns |-> IF t \in settled THEN f ELSE fate[t]]

Next == Settle \/ \E t \in Turns : Send(t)

Spec == Init /\ [][Next]_fate

(* The manager does not keep a turn for ever.                                 *)
Progress == \A t \in Turns : (fate[t] = "waiting") ~> (fate[t] # "waiting")

(* What is expected of agents that answer: every turn is settled.             *)
AllSettle == \A t \in Turns : (fate[t] \in Unsettled) ~> (fate[t] \notin Unsettled)

FairSpec == Spec /\ Progress
===============================================================================

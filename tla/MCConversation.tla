--------------------------- MODULE MCConversation ---------------------------
(***************************************************************************)
(* Four instances side by side, one chosen at the start: the conversation of    *)
(* one session; the agent behind it; the settings of its composer; and any short *)
(* log, for the reducer's replay.  What one does is not limited by the others' bounds.                *)
(***************************************************************************)
EXTENDS Conversation

CONSTANTS Turns, Unsendable, Asks, MaxUpdates, MaxLog, MaxChoices, MaxRuns, MaxMishaps

VARIABLES focus, phase, proc, closed, offer, wanted, settledAs, agentMode, sets, commands,
          sent, running, ranIn, ends, output, calls, updates, waits, cards, allowed, answers,
          slots, place, composer, prefs, saving, link, toHost, toView, log, row, run, asked,
          resolving, options, wire, has, runs, choices, mishaps, latest, applied, picked, astray,
          unsaved

Agent == INSTANCE AgentSession
agentVars == <<phase, proc, closed, offer, wanted, settledAs, agentMode, sets, commands, sent,
               running, ranIn, ends, output, calls, updates, waits, cards, allowed, answers>>
Settings == INSTANCE SessionSettings
settingsVars == <<slots, place, composer, prefs, saving, link, toHost, toView, log, row, run, asked,
                  resolving, options, wire, has, runs, choices, mishaps, latest, applied, picked,
                  astray, unsaved>>

MCInit ==
  /\ focus \in {"conversation", "agent", "settings", "replay"}
  /\ ConvInit
  /\ Agent!AgentInit
  /\ Settings!SettingsInit
  /\ IF focus = "settings" THEN prefs # Settings!Nothing ELSE prefs = Settings!Nothing

(* One event of every case of the reducer, for two roots and a sub-agent.        *)
Catalogue ==
  {Started(1), Started(2), Event("runner-started", 3, 1, <<"call", 1>>), Finished(3, "done")}
    \cup {Echo(2, 1), Event("text-delta", 1, <<"answer", 1>>, <<"a">>),
          Event("reasoning-delta", 2, <<"thought", 2>>, <<"a">>)}
    \cup {Event(type, 1, <<"call", 1>>, <<"ok">>) :
            type \in {"tool-call-started", "tool-output-delta", "tool-call-finished",
                      "file-change"}}
    \cup {Event(type, 3, <<"ask", 3>>, <<"allow">>) :
            type \in {"approval-requested", "approval-resolved", "question-requested",
                      "question-resolved", "usage", "annotation"}}
    \cup {Event("plan-update", 1, <<"plan", 1>>, <<p>>) : p \in {"p", "q"}}
    \cup {Event("turn-finished", 1, None, <<"error">>), TurnDone(1)}

LogGrows ==
  /\ Len(store) < MaxLog
  /\ \E e \in Catalogue : store' = Append(store, e)
  /\ UNCHANGED <<live, roots, working, queue, resumes, net, shown, page, outbox, reattachDue,
                 faults>>

MCNext ==
  /\ UNCHANGED focus
  /\ \/ focus = "conversation" /\ ConvNext /\ UNCHANGED <<agentVars, settingsVars>>
     \/ focus = "agent" /\ Agent!AgentNext /\ UNCHANGED <<convVars, settingsVars>>
     \/ focus = "settings" /\ Settings!SettingsNext /\ UNCHANGED <<convVars, agentVars>>
     \/ focus = "replay" /\ LogGrows /\ UNCHANGED <<agentVars, settingsVars>>

MCSpec == MCInit /\ [][MCNext]_<<focus, convVars, agentVars, settingsVars>>

(* The variables of the four have their types.                               *)
TypesOK == ConvTypeOK /\ Agent!AgentTypeOK /\ Settings!SettingsTypeOK

(* The agent works as the user has set it. No prompt of it runs before the          *)
(* permission mode asked for is settled (driver-acp/src/adapter.ts, applyMode); the     *)
(* composer shows the mode, model and effort it works with when all has arrived, and the *)
(* last of each kind is remembered (useComposerModeModel.ts, manager.ts, handlers.ts).   *)
SettingsAreHonoured == Agent!ModeBeforePrompt /\ Settings!SettingsAgree

(* Every turn handed to the runtime waits, runs or ends, and ends once            *)
(* (driver-runtime/src/runtime.ts, the queue; adapter.ts, runPrompt).             *)
TurnsEndOnce == Agent!TurnsEndOnce

(* A permission is granted to the agent only by the user's decision on that       *)
(* request, and a request it waits on has its card (runtime.ts, respondApproval).  *)
AsksAreHonoured == Agent!AsksAreHonoured

(* An agent's process is held by its session's handle or by its start; a session     *)
(* closed during the start leaves none behind (runtime.ts, the close of a handle that  *)
(* comes late).  Only a start that fails after the spawn does: the close that follows   *)
(* has no handle, and adapter.ts ends nothing on that path.                          *)
AgentIsHeld == Agent!AgentIsHeld

(* A log replayed to a view that has it already changes the order of no item, and   *)
(* shows none twice: what a reconnect, a remount and the watchdog rely on           *)
(* (agent-events/src/reduce.ts).                                              *)
ReplayKeepsOrder == ReplayKeeps(store)
===============================================================================

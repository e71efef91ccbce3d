---------------------------- MODULE AgentSession ----------------------------
(***************************************************************************)
(* One agent behind the Agent Client Protocol: the session of the runtime     *)
(* (driver-runtime/src/runtime.ts) over the ACP adapter (driver-acp), from the  *)
(* spawn of the child process to its end.  The agent may answer its requests   *)
(* in any order, refuse them, or die.                                        *)
(*                                                                         *)
(* The ids of an agent's modes are given without case and separators, which     *)
(* is how normalize compares them.                                           *)
(***************************************************************************)
EXTENDS Naturals, FiniteSets, SequencesExt

CONSTANTS
  None,
  Turns,        (* the user's turns, in order                                *)
  Unsendable,   (* those made of attachments alone                            *)
  Asks,         (* the agent's requests to the user                          *)
  MaxUpdates    (* bound: session/update notifications                        *)

Modes == {"manual", "auto-edits", "plan", "bypass"}
Own == "own"    \* the mode the agent opens its session in

VARIABLES
  phase,        (* how far start has got                                     *)
  proc,         (* the child process: "none", "alive", "dead" or "killed"        *)
  closed,       (* close was called on the runtime's session                    *)
  offer,        (* what the agent advertised: [surface, ids, attach]             *)
  wanted,       (* the mode asked for at the start                            *)
  settledAs,    (* what became of it: "pending", "accepted" or "declined"        *)
  agentMode,    (* the mode the agent is in                                   *)
  sets,         (* mode requests the agent has not answered                     *)
  commands,     (* the runtime's queue, until there is a handle                  *)
  sent,         (* history: turns sent                                        *)
  running,      (* prompts in flight: turn -> output when it was sent            *)
  ranIn,        (* history: turn -> the agent's mode when it was prompted        *)
  ends,         (* history: turn -> the turn-finished events of it              *)
  output,       (* count of productive events                                 *)
  calls,        (* startedToolCalls                                          *)
  updates,      (* count of notifications, for the bound                        *)
  waits,        (* ask -> what the agent offers, while it waits                 *)
  cards,        (* asks with a card on display (pending and questions)           *)
  allowed,      (* history: asks the user allowed                             *)
  answers       (* history: ask -> what the agent was told                      *)

starting == <<phase, offer, wanted, settledAs>>
modes == <<agentMode, sets>>
turns == <<commands, sent, running, ranIn, ends>>
asks == <<waits, cards, allowed, answers>>
agentVars == <<starting, proc, closed, modes, turns, output, calls, updates, asks>>

-----------------------------------------------------------------------------
(* session-modes.ts: the agent's id for a mode, by the order of preference.     *)

Candidates(mode) ==
  CASE mode = "manual" -> <<"default", "manual", "normal", "ask", "untrusted", "build", "agent">>
    [] mode = "auto-edits" -> <<"acceptedits", "autoedits", "onfailure", "auto">>
    [] mode = "plan" -> <<"plan", "planning", "readonly">>
    [] OTHER -> <<"bypasspermissions", "bypass", "yolo", "agentfullaccess", "fullaccess",
                  "dontask", "never">>
PickMode(mode, ids) ==
  LET i == SelectInSeq(Candidates(mode), LAMBDA c : c \in ids)
  IN IF i = 0 THEN None ELSE Candidates(mode)[i]
SupportedModes(ids) == {m \in Modes : PickMode(m, ids) # None}

(* Modes come in session/new's field or as a config option, or not at all.       *)
Offers ==
  [surface : {"modes"}, ids : {{"default", "plan", "bypasspermissions"}}, attach : BOOLEAN]
    \cup [surface : {"option"}, ids : {{"build", "plan"}}, attach : {FALSE}]
    \cup [surface : {"none"}, ids : {{}}, attach : {FALSE}]

(* permission-outcome.ts: the option that answers a decision.                   *)
Decisions == {"allow", "allow-always", "deny"}
Preference(decision) ==
  CASE decision = "allow" -> <<"allow_once", "allow_always">>
    [] decision = "allow-always" -> <<"allow_always", "allow_once">>
    [] decision = "deny" -> <<"reject_once", "reject_always">>
PickAnyOption(decision, options) ==            \* mutant: any option will do
  CHOOSE o \in options : TRUE
PickOption(decision, options) ==
  LET kinds == Preference(decision)
  IN IF kinds[1] \in options THEN kinds[1]
     ELSE IF kinds[2] \in options THEN kinds[2] ELSE "cancelled"
OptionSets == {{"allow_once", "reject_once"}, {"allow_always"}, {"reject_always", "allow_once"}}

(* elicitation.ts: an enum is answered by a label, anything else by text, and a  *)
(* blank answer declines.                                                    *)
Elicitation == {"question"}
Respond(answer) == IF answer = "" THEN "decline" ELSE "accept"

(* map-acp-update.ts: the canonical event of a notification, or None.            *)
Notifications ==
  {<<"agent_message_chunk", "text">>, <<"agent_message_chunk", "">>, <<"tool_call", "c">>,
   <<"tool_call_update", "completed">>, <<"usage_update", "">>, <<"available_commands_update", "">>}
MapAcpUpdate(n) ==
  CASE n[1] = "agent_message_chunk" /\ n[2] # "" -> "text-delta"
    [] n[1] = "tool_call" /\ n[2] \notin calls -> "tool-call-started"
    [] n[1] = "tool_call_update" -> "tool-call-finished"
    [] n[1] = "usage_update" -> "usage"
    [] OTHER -> None
Productive == {"text-delta", "tool-call-started", "tool-call-finished"}

-----------------------------------------------------------------------------
AgentInit ==
  /\ phase = "scheduled" /\ proc = "none" /\ closed = FALSE
  /\ offer = None /\ wanted = None /\ settledAs = "pending"
  /\ agentMode = Own /\ sets = {}
  /\ commands = <<>> /\ sent = {}
  /\ running = [t \in {} |-> 0] /\ ranIn = [t \in {} |-> Own]
  /\ ends = [t \in Turns |-> <<>>]
  /\ output = 0 /\ calls = {} /\ updates = 0
  /\ waits = [a \in {} |-> {}] /\ cards = {} /\ allowed = {}
  /\ answers = [a \in {} |-> None]

(* A start that fails is shown as the end of the run, upon which the manager closes  *)
(* the session (manager.ts, wireOnEvent): there is no handle, and nothing is killed.  *)
StartFails ==
  /\ phase' = "failed"
  /\ closed' = TRUE
  /\ commands' = <<>>
  /\ cards' = {}

(* The microtask of start: the adapter connects, which spawns the child.          *)
Connects(spawned) ==
  /\ phase = "scheduled"
  /\ proc' = IF spawned THEN "alive" ELSE "none"
  /\ IF spawned THEN phase' = "initialize" /\ UNCHANGED <<closed, commands, cards>>
                ELSE StartFails
  /\ UNCHANGED <<offer, wanted, settledAs, modes, sent, running, ranIn, ends, output, calls,
                 updates, waits, allowed, answers>>

Initializes(accepted, resume) ==
  /\ phase = "initialize"
  /\ accepted => proc = "alive"
  /\ IF accepted
     THEN phase' = (IF resume THEN "load" ELSE "new") /\ UNCHANGED <<closed, commands, cards>>
     ELSE StartFails
  /\ UNCHANGED <<proc, offer, wanted, settledAs, modes, sent, running, ranIn, ends, output,
                 calls, updates, waits, allowed, answers>>

(* session/load falls back to session/new.  The root runner is announced again  *)
(* with what the agent offers, and the mode asked for is applied.              *)
Opens(accepted, o, mode) ==
  /\ phase \in {"load", "new"}
  /\ accepted => proc = "alive"
  /\ IF accepted
     THEN /\ phase' = "mode"
          /\ offer' = o
          /\ wanted' = PickMode(mode, o.ids)
     ELSE UNCHANGED <<offer, wanted>>
  /\ ~accepted /\ phase = "load" => phase' = "new"
  /\ IF accepted \/ phase = "load" THEN UNCHANGED <<closed, commands, cards>> ELSE StartFails
  /\ UNCHANGED <<proc, settledAs, modes, sent, running, ranIn, ends, output, calls, updates,
                 waits, allowed, answers>>

(* toAcpPromptBlocks: nothing is left of a turn the agent cannot take.           *)
Blank(t) == t \in Unsendable /\ ~offer.attach
Prompts(ts, mode) ==
  LET taken == {t \in ts : ~Blank(t)} IN
  /\ running' = [t \in DOMAIN running \cup taken |-> IF t \in taken THEN output ELSE running[t]]
  /\ ranIn' = [t \in DOMAIN ranIn \cup taken |-> IF t \in taken THEN mode ELSE ranIn[t]]
SetRequests(ms) == {PickMode(m, offer.ids) : m \in ms} \ {None}
Queued == {t \in Turns : <<"send", t>> \in ToSet(commands)}
ModesAsked == {m \in Modes : <<"mode", m>> \in ToSet(commands)}

(* The end of start: the callbacks are registered and the handle returned.  The *)
(* runtime flushes its queue to it, or closes it when it was closed meanwhile.   *)
FlushRegardless ==                             \* mutant: a close meanwhile is not seen
  /\ phase' = "ready"
  /\ Prompts(Queued, agentMode')
  /\ sets' = sets \cup SetRequests(ModesAsked)
  /\ commands' = <<>>
  /\ UNCHANGED proc
FlushKeeping ==                                \* mutant: the queue is not emptied
  /\ phase' = "ready"
  /\ Prompts(Queued, agentMode')
  /\ sets' = sets \cup SetRequests(ModesAsked)
  /\ UNCHANGED <<proc, commands>>
Flush ==
  /\ phase' = "ready"
  /\ IF closed
     THEN proc' = "killed" /\ UNCHANGED <<running, ranIn, sets, commands>>
     ELSE /\ Prompts(Queued, agentMode')
          /\ sets' = sets \cup SetRequests(ModesAsked)
          /\ commands' = <<>>
          /\ UNCHANGED proc

(* applyMode resolves when the agent has accepted the mode or declined it, and   *)
(* at once when it has no such mode.                                         *)
FlushUnawaited(accepted) ==                    \* mutant: the mode is not awaited
  /\ phase = "mode" /\ settledAs = "pending"
  /\ UNCHANGED <<settledAs, agentMode>>
  /\ Flush
  /\ UNCHANGED <<closed, offer, wanted, sent, ends, output, calls, updates, asks>>
Settles(accepted) ==
  /\ phase = "mode"
  /\ accepted => proc = "alive" /\ wanted # None
  /\ settledAs' = IF accepted THEN "accepted" ELSE "declined"
  /\ agentMode' = IF accepted THEN wanted ELSE agentMode
  /\ Flush
  /\ UNCHANGED <<closed, offer, wanted, sent, ends, output, calls, updates, asks>>

-----------------------------------------------------------------------------
(* The runtime's session.  A turn is echoed, then handed over or queued.         *)

Handle == phase = "ready" /\ ~closed

UserSends(t) ==
  /\ ~closed /\ t \notin sent /\ \A u \in Turns : u < t => u \in sent
  /\ sent' = sent \cup {t}
  /\ IF Handle THEN Prompts({t}, agentMode) /\ UNCHANGED commands
     ELSE commands' = Append(commands, <<"send", t>>) /\ UNCHANGED <<running, ranIn>>
  /\ UNCHANGED <<starting, proc, closed, modes, ends, output, calls, updates, asks>>

(* setMode is not awaited: a prompt that follows may overtake it.               *)
UserSetsMode(mode) ==
  /\ ~closed /\ sets = {} /\ ModesAsked = {}
  /\ IF Handle THEN sets' = sets \cup SetRequests({mode}) /\ UNCHANGED commands
     ELSE commands' = Append(commands, <<"mode", mode>>) /\ UNCHANGED sets
  /\ UNCHANGED <<starting, proc, closed, agentMode, sent, running, ranIn, ends, output, calls,
                 updates, asks>>

AgentAnswersMode(id, accepted) ==
  /\ id \in sets
  /\ accepted => proc = "alive"
  /\ agentMode' = IF accepted THEN id ELSE agentMode
  /\ sets' = sets \ {id}
  /\ UNCHANGED <<starting, proc, closed, turns, output, calls, updates, asks>>

AnswersTo(a) == IF waits[a] = Elicitation THEN {"", "label"} ELSE Decisions

(* respondApproval and respondQuestion: the first answer to a card counts.       *)
UserAnswers(a, answer) ==
  /\ a \in cards
  /\ cards' = cards \ {a}
  /\ allowed' = IF answer \in {"allow", "allow-always"} THEN allowed \cup {a} ELSE allowed
  /\ answers' = [b \in DOMAIN answers \cup {a} |->
                   IF b # a THEN answers[b]
                   ELSE IF waits[a] = Elicitation THEN Respond(answer)
                   ELSE PickOption(answer, waits[a])]
  /\ waits' = [b \in DOMAIN waits \ {a} |-> waits[b]]
  /\ UNCHANGED <<starting, proc, closed, modes, turns, output, calls, updates>>

(* close, by whoever holds the session, ends that of a handle; without one, start   *)
(* will.  The cards are forgotten, and the queue.                              *)
Closes ==
  /\ ~closed
  /\ closed' = TRUE
  /\ proc' = IF Handle THEN "killed" ELSE proc
  /\ commands' = <<>>
  /\ cards' = {}
  /\ UNCHANGED <<starting, modes, sent, running, ranIn, ends, output, calls, updates, waits,
                 allowed, answers>>

-----------------------------------------------------------------------------
(* The agent.  What it says before the callbacks are registered is dropped.       *)

Registered == phase = "ready"

AgentUpdates(n) ==
  /\ proc = "alive" /\ offer # None /\ updates < MaxUpdates
  /\ updates' = updates + 1
  /\ IF Registered
     THEN /\ output' = IF MapAcpUpdate(n) \in Productive THEN output + 1 ELSE output
          /\ calls' = IF n[1] = "tool_call" THEN calls \cup {n[2]} ELSE calls
     ELSE UNCHANGED <<output, calls>>
  /\ UNCHANGED <<starting, proc, closed, modes, turns, asks>>

AgentAsks(a, options) ==
  /\ proc = "alive" /\ offer # None /\ a \notin DOMAIN waits \cup DOMAIN answers
  /\ IF Registered
     THEN /\ waits' = [b \in DOMAIN waits \cup {a} |-> IF b = a THEN options ELSE waits[b]]
          /\ cards' = cards \cup {a}
          /\ UNCHANGED answers
     ELSE /\ answers' = [b \in DOMAIN answers \cup {a} |->
                           IF b # a THEN answers[b]
                           ELSE IF options = Elicitation THEN "decline" ELSE "cancelled"]
          /\ UNCHANGED <<waits, cards>>
  /\ UNCHANGED <<starting, proc, closed, modes, turns, output, calls, updates, allowed>>

(* How a prompt ends: a stop reason, or a rejection.  An end without any output   *)
(* since the prompt is reported as one.                                      *)
EndOf(t, reason) ==
  IF reason = "end_turn" /\ output = running[t] THEN "empty"
  ELSE IF reason \in {"end_turn", "cancelled"} THEN "ok" ELSE "error"
PromptEnds(t, reason) ==
  /\ t \in DOMAIN running
  /\ proc # "alive" => reason = "rejected"
  /\ ends' = [ends EXCEPT ![t] = Append(@, EndOf(t, reason))]
  /\ running' = [u \in DOMAIN running \ {t} |-> running[u]]
  /\ UNCHANGED <<starting, proc, closed, modes, commands, sent, ranIn, output, calls, updates,
                 asks>>

AgentDies ==
  /\ proc = "alive"
  /\ proc' = "dead"
  /\ UNCHANGED <<starting, closed, modes, turns, output, calls, updates, asks>>

AgentNext ==
  \/ \E spawned \in BOOLEAN : Connects(spawned)
  \/ \E accepted, resume \in BOOLEAN : Initializes(accepted, resume)
  \/ \E accepted \in BOOLEAN, o \in Offers, mode \in {"manual", "bypass"} :
       Opens(accepted, o, mode)
  \/ \E accepted \in BOOLEAN : Settles(accepted)
  \/ \E t \in Turns : UserSends(t)
  \/ UserSetsMode("plan")
  \/ \E id \in sets, accepted \in BOOLEAN : AgentAnswersMode(id, accepted)
  \/ \E a \in cards : \E answer \in AnswersTo(a) : UserAnswers(a, answer)
  \/ Closes
  \/ \E n \in Notifications : AgentUpdates(n)
  \/ \E a \in Asks, options \in OptionSets \cup {Elicitation} : AgentAsks(a, options)
  \/ \E t \in Turns, reason \in {"end_turn", "cancelled", "refusal", "rejected"} :
       PromptEnds(t, reason)
  \/ AgentDies

AgentSpec == AgentInit /\ [][AgentNext]_agentVars

-----------------------------------------------------------------------------
AgentTypeOK ==
  /\ phase \in {"scheduled", "initialize", "load", "new", "mode", "ready", "failed"}
  /\ proc \in {"none", "alive", "dead", "killed"} /\ closed \in BOOLEAN
  /\ offer \in Offers \cup {None}
  /\ settledAs \in {"pending", "accepted", "declined"}
  /\ sent \subseteq Turns /\ DOMAIN running \subseteq sent /\ DOMAIN ranIn \subseteq sent
  /\ output \in 0..MaxUpdates /\ updates \in 0..MaxUpdates
  /\ cards \subseteq Asks /\ allowed \subseteq Asks
  /\ DOMAIN waits \subseteq Asks /\ DOMAIN answers \subseteq Asks

(* No prompt runs before the mode asked for is settled, and none runs in the      *)
(* agent's own default, which may allow everything, if the agent took that mode.  *)
ModeBeforePrompt ==
  \A t \in DOMAIN ranIn :
    settledAs # "pending" /\ (settledAs = "accepted" => ranIn[t] # Own)

(* A turn waits, runs, or has ended, and ends once; one with no end either had      *)
(* nothing to send or was dropped by a close.  One reported as empty produced       *)
(* nothing: the count of output has not moved since its prompt.                  *)
TurnsEndOnce ==
  \A t \in sent :
    /\ Len(ends[t]) <= 1
    /\ t \in DOMAIN running => ends[t] = <<>> /\ t \notin Queued
    /\ t \in Queued => ends[t] = <<>> /\ phase # "ready"
    /\ t \notin Queued \cup DOMAIN running /\ ends[t] = <<>> =>
         closed \/ (phase = "ready" /\ Blank(t))

(* The agent is told yes only when the user said yes to that very request, and it   *)
(* waits for no card that nobody can see unless its session was closed.           *)
AsksAreHonoured ==
  /\ \A a \in DOMAIN answers :
       answers[a] \in {"allow_once", "allow_always"} => a \in allowed
  /\ DOMAIN waits \cap DOMAIN answers = {}
  /\ ~closed => DOMAIN waits = cards

(* An agent that lives is held: by the handle that a close would end, or by its start, *)
(* which ends it if there was a close meanwhile.  Only one whose start failed after   *)
(* the spawn is held by nobody, and runs on.                                   *)
Starting == phase \in {"scheduled", "initialize", "load", "new", "mode"}
AgentIsHeld == proc = "alive" => Handle \/ Starting \/ phase = "failed"
===============================================================================

------------------------------ MODULE Timeline ------------------------------
(***************************************************************************)
(* The reducer of canonical events (packages/agent-events/src/reduce.ts):    *)
(* what the window shows of a run is the fold of the events it was sent.      *)
(*                                                                         *)
(* An event is a record [type, runner, id, text].  "id" is the identity the    *)
(* reducer goes by: a message's, a call's, a request's, a plan's, or the       *)
(* parent of a runner that starts.  "text" is a sequence of chunks; for a      *)
(* runner that starts it is the call that spawned it, for one that finishes   *)
(* its status.                                                             *)
(***************************************************************************)
EXTENDS Naturals, SequencesExt

CONSTANT None

Event(type, runner, id, text) ==
  [type |-> type, runner |-> runner, id |-> id, text |-> text]

NoRun == [root |-> None, runners |-> [r \in {} |-> None]]

Item(kind, id, text) == [kind |-> kind, id |-> id, text |-> text, status |-> None]
IsItem(item, kind, id) == item.kind = kind /\ item.id = id
HasItem(items, kind, id) == \E i \in DOMAIN items : IsItem(items[i], kind, id)

WithRunner(run, r, runner) ==
  [run EXCEPT !.runners = [q \in DOMAIN @ \cup {r} |-> IF q = r THEN runner ELSE @[q]]]
MapItems(run, r, F(_)) ==
  IF r \in DOMAIN run.runners
  THEN WithRunner(run, r, [run.runners[r] EXCEPT !.items = F(@)])
  ELSE run
MapItem(run, r, kind, id, F(_)) ==
  MapItems(run, r, LAMBDA items :
    [i \in DOMAIN items |-> IF IsItem(items[i], kind, id) THEN F(items[i]) ELSE items[i]])
AddItem(run, r, item) == MapItems(run, r, LAMBDA items : Append(items, item))

Items(run, r) == IF r \in DOMAIN run.runners THEN run.runners[r].items ELSE <<>>
RootItems(run) == Items(run, run.root)

-----------------------------------------------------------------------------
(* One operator per case of reduce.  A new root takes over the items of the    *)
(* root before it: a resumed run continues the conversation.                 *)

RunnerStarted(run, e) ==
  LET existing == e.runner \in DOMAIN run.runners
      isRoot == e.id = None
      items == IF existing THEN Items(run, e.runner)
               ELSE IF isRoot THEN RootItems(run) ELSE <<>>
      started == WithRunner(run, e.runner, [status |-> "running", items |-> items])
  IN IF isRoot THEN [started EXCEPT !.root = e.runner]
     ELSE MapItem(started, e.id, "tool-call", e.text,
                  LAMBDA item : [item EXCEPT !.status = e.runner])

RunnerFinished(run, e) ==
  IF e.runner \in DOMAIN run.runners
  THEN WithRunner(run, e.runner, [run.runners[e.runner] EXCEPT !.status = e.text])
  ELSE run

(* A chunk equal to the whole text so far is taken for a replay and dropped.    *)
AppendChunk(item, text) ==
  IF item.text = text THEN item ELSE [item EXCEPT !.text = @ \o text]
TextDelta(run, e) ==
  IF HasItem(Items(run, e.runner), "message", e.id)
  THEN MapItem(run, e.runner, "message", e.id, LAMBDA item : AppendChunk(item, e.text))
  ELSE AddItem(run, e.runner, Item("message", e.id, e.text))

ReasoningDelta(run, e) ==
  IF HasItem(Items(run, e.runner), "reasoning", e.id)
  THEN MapItem(run, e.runner, "reasoning", e.id,
               LAMBDA item : [item EXCEPT !.text = @ \o e.text])
  ELSE AddItem(run, e.runner, Item("reasoning", e.id, e.text))

(* A tool call, a file change with a call, an approval, a question: once.        *)
AddAgain(run, e, kind) == AddItem(run, e.runner, Item(kind, e.id, <<>>))  \* mutant: no check
AddOnce(run, e, kind) ==
  IF HasItem(Items(run, e.runner), kind, e.id) THEN run
  ELSE AddItem(run, e.runner, Item(kind, e.id, <<>>))

Settle(run, e, kind) ==
  MapItem(run, e.runner, kind, e.id, LAMBDA item : [item EXCEPT !.status = e.text])
ToolOutput(run, e) ==
  MapItem(run, e.runner, "tool-call", e.id,
          LAMBDA item : [item EXCEPT !.text = @ \o e.text])

PlanAppends(run, e) ==                         \* mutant: a card for every revision
  AddItem(run, e.runner, Item("plan", e.id, e.text))
PlanUpdate(run, e) ==
  IF HasItem(Items(run, e.runner), "plan", e.id)
  THEN MapItem(run, e.runner, "plan", e.id, LAMBDA item : Item("plan", e.id, e.text))
  ELSE AddItem(run, e.runner, Item("plan", e.id, e.text))

(* The error of a turn marks the message it names, or is a message of its own.  *)
TurnFinished(run, e) ==
  LET items == Items(run, e.runner)
      error == Item("message", <<"turn-error", Len(items)>>, e.text)
  IN IF e.text = <<>> THEN run
     ELSE IF HasItem(items, "message", e.id)
          THEN MapItem(run, e.runner, "message", e.id,
                       LAMBDA item : [item EXCEPT !.status = "error"])
          ELSE AddItem(run, e.runner, [error EXCEPT !.status = "error"])

Reduce(run, e) ==
  CASE e.type = "runner-started" -> RunnerStarted(run, e)
    [] e.type = "runner-finished" -> RunnerFinished(run, e)
    [] e.type \in {"user-text", "text-delta"} -> TextDelta(run, e)
    [] e.type = "reasoning-delta" -> ReasoningDelta(run, e)
    [] e.type = "tool-call-started" -> AddOnce(run, e, "tool-call")
    [] e.type = "tool-output-delta" -> ToolOutput(run, e)
    [] e.type = "tool-call-finished" -> Settle(run, e, "tool-call")
    [] e.type = "file-change" -> AddOnce(run, e, "file-change")
    [] e.type = "approval-requested" -> AddOnce(run, e, "approval")
    [] e.type = "approval-resolved" -> Settle(run, e, "approval")
    [] e.type = "question-requested" -> AddOnce(run, e, "question")
    [] e.type = "question-resolved" -> Settle(run, e, "question")
    [] e.type = "plan-update" -> PlanUpdate(run, e)
    [] e.type = "turn-finished" -> TurnFinished(run, e)
    [] OTHER -> run

Fold(events) == FoldLeft(Reduce, NoRun, events)

-----------------------------------------------------------------------------
(* What identifies an item, and the items of a run that have an identity: the  *)
(* error row of a turn that names no message has none.                       *)
Identity(item) == <<item.kind, item.id>>
HasIdentity(k) == k[1] # "message" \/ k[2][1] # "turn-error"
Identified(items) ==
  {k \in {Identity(items[i]) : i \in DOMAIN items} : HasIdentity(k)}

(* Applied again to the view it made, a log moves nothing and doubles nothing.     *)
EachOnce(items) ==
  \A i, j \in DOMAIN items :
    HasIdentity(Identity(items[i])) /\ Identity(items[i]) = Identity(items[j]) => i = j
Continues(items, longer) ==
  /\ Len(items) <= Len(longer)
  /\ \A i \in DOMAIN items : Identity(longer[i]) = Identity(items[i])
ReplayKeeps(log) ==
  LET once == Fold(log)
      twice == FoldLeft(Reduce, once, log)
  IN \A r \in DOMAIN once.runners :
       /\ Continues(once.runners[r].items, twice.runners[r].items)
       /\ EachOnce(twice.runners[r].items)

(* trackRootRunner and isRootRunnerFinished: the first root of a session only.  *)
TrackRoot(root, e) ==
  IF e.type = "runner-started" /\ e.id = None /\ root = None THEN e.runner ELSE root
IsRootFinished(root, e) == e.type = "runner-finished" /\ root # None /\ e.runner = root

(* nextBusy: a turn is in flight from the echo of a send to the end of a turn   *)
(* or of the root runner.                                                   *)
NextBusy(busy, e, run) ==
  \/ e.type = "user-text"
  \/ busy /\ ~(e.type \in {"turn-finished", "runner-finished"} /\ e.runner = run.root)
===============================================================================

------------------------- MODULE ConversationProofs -------------------------
(***************************************************************************)
(* Proofs about one session from the event log to the window, for any sends,    *)
(* chunks, runs, agent events and faults.                                    *)
(***************************************************************************)
EXTENDS MCConversation, TLAPS, WellFoundedInduction

-----------------------------------------------------------------------------
(***************************************************************************)
(* The inductive invariant: types, what is on its way to the window, what the    *)
(* window shows, and the outbox.                                            *)
(***************************************************************************)

Texts == Chunks \cup Sends \cup {None}
Ids == {<<"user", s>> : s \in Sends \cup {None}}
         \cup {<<"answer", r>> : r \in 1..MaxRoots} \cup {<<"call", r>> : r \in 1..MaxRoots}
ItemSet == [kind : {"message", "tool-call"}, id : Ids, text : Seq(Texts),
            status : {None, "error"}]
ErrorSet == [kind : {"message"}, id : {"turn-error"} \X Nat, text : {<<"error">>},
             status : {"error"}]
RowSet == ItemSet \cup ErrorSet

(* Items whose identities differ, and no message of the user's but those in S;    *)
(* a runner that shows such items, and a view of such runners.                  *)
GoodItems(items, S) ==
  /\ items \in Seq(RowSet)
  /\ \A i, j \in DOMAIN items :
       HasIdentity(Identity(items[i])) /\ Identity(items[i]) = Identity(items[j]) => i = j
  /\ \A i \in DOMAIN items : \A s \in Sends : items[i].id = <<"user", s>> => s \in S
GoodRunner(x, S) ==
  /\ x \in [status : {"running", "errored"}, items : Seq(RowSet)]
  /\ GoodItems(x.items, S)
GoodRun(pane, S) ==
  /\ pane = [root |-> pane.root, runners |-> pane.runners]
  /\ pane.root \in 1..MaxRoots \cup {None}
  /\ DOMAIN pane.runners \subseteq 1..MaxRoots
  /\ pane.runners = [r \in DOMAIN pane.runners |-> pane.runners[r]]
  /\ \A r \in DOMAIN pane.runners : GoodRunner(pane.runners[r], S)

Failed == Finished(0, "errored")      \* the end of a resume that failed: not stored
Logged ==
  UNION {{Started(r), TurnDone(r), TurnFailed(r), Finished(r, "errored")}
           \cup {Echo(r, s) : s \in Sends \cup {None}} \cup AgentEvents(r) : r \in 1..MaxRoots}
KnownEvent(e) ==
  /\ e.runner \in 0..MaxRoots
  /\ \/ e.type = "runner-started" /\ e.runner \in 1..MaxRoots /\ e.id = None
     \/ e.type = "runner-finished" /\ e.text = "errored"
     \/ e.type = "turn-finished" /\ e.text \in {<<>>, <<"error">>}
     \/ e.type = "user-text" /\ e.id \in Ids /\ e.text \in Seq(Texts)
     \/ /\ e.type = "text-delta" /\ e.id \in Ids /\ e.text \in Seq(Texts)
        /\ \A s \in Sends : e.id # <<"user", s>>
     \/ /\ e.type = "tool-call-started" /\ e.id \in Ids
        /\ \A s \in Sends : e.id # <<"user", s>>
Commands == {<<"attach">>, <<"interrupt">>} \cup {<<"send", s>> : s \in Sends \cup {None}}

ServerTyped ==
  /\ store \in Seq(Logged)
  /\ roots \in 1..MaxRoots /\ live \in 0..roots
  /\ working \in Nat /\ resumes \in Nat
  /\ queue \in Seq(Sends \cup {None}) \cup {None}
NetTyped ==
  /\ sock \in {"open", "down"} /\ ever \in BOOLEAN
  /\ up \in Seq(Commands) /\ buffer \in Seq(Commands)
DownTyped == down \in Seq(Logged \cup {Failed})
WindowTyped == busy \in BOOLEAN /\ watch \in {"armed", "fired"}
PageTyped ==
  /\ mounted \in BOOLEAN /\ listening \in BOOLEAN /\ isOpen \in BOOLEAN /\ skip \in BOOLEAN
  /\ reattachDue \in BOOLEAN
OutboxTyped ==
  /\ entries \in [Sends -> {"none", "sending", "failed"}]
  /\ timers \subseteq Sends /\ made \subseteq Sends /\ given \subseteq Sends

(* A message of the user's that is on its way to the window is in the log.         *)
DownIsStored ==
  \A i \in DOMAIN down : \A s \in Sends :
    down[i].type = "user-text" /\ down[i].id = <<"user", s>> => s \in StoredSends

(* So is one that the window shows, and it shows nothing twice.                   *)
ShownIsSound == GoodRun(view, StoredSends)

ConvInv ==
  /\ ServerTyped /\ NetTyped /\ DownTyped /\ WindowTyped /\ PageTyped /\ OutboxTyped
  /\ DownIsStored
  /\ ShownIsSound
  /\ NoTurnVanishes
  /\ NoSendHangs
-----------------------------------------------------------------------------
(***************************************************************************)
(* The reducer, event by event.                                             *)
(***************************************************************************)
(* An item is added after a check that there is none of its identity.             *)
LEMMA AddedItem ==
  ASSUME NEW S, NEW items, GoodItems(items, S), NEW item \in RowSet,
         HasIdentity(Identity(item)) => ~HasItem(items, item.kind, item.id),
         \A s \in Sends : item.id = <<"user", s>> => s \in S
  PROVE GoodItems(Append(items, item), S)
<1> DEFINE longer == Append(items, item)
<1> USE DEF GoodItems
<1>1. /\ longer \in Seq(RowSet)
      /\ Len(items) \in Nat /\ DOMAIN items = 1..Len(items)
      /\ DOMAIN longer = 1..(Len(items) + 1)
      /\ longer[Len(items) + 1] = item /\ \A i \in 1..Len(items) : longer[i] = items[i]
  OBVIOUS
<1>2. HasIdentity(Identity(item)) => \A i \in 1..Len(items) : Identity(items[i]) # Identity(item)
  BY <1>1 DEF HasItem, IsItem, Identity
<1> HIDE DEF longer
<1>3. \A i, j \in DOMAIN longer :
        HasIdentity(Identity(longer[i])) /\ Identity(longer[i]) = Identity(longer[j]) => i = j
  BY <1>1, <1>2
<1>4. \A i \in DOMAIN longer : \A s \in Sends : longer[i].id = <<"user", s>> => s \in S
  BY <1>1
<1> QED
  BY <1>1, <1>3, <1>4 DEF longer

(* An item that changes keeps its identity.                                     *)
LEMMA ChangedItems ==
  ASSUME NEW S, NEW items, GoodItems(items, S), NEW changed \in Seq(RowSet),
         DOMAIN changed = DOMAIN items,
         \A i \in DOMAIN items : Identity(changed[i]) = Identity(items[i])
  PROVE GoodItems(changed, S)
<1>1. \A i \in DOMAIN items : changed[i].id = items[i].id
  BY DEF Identity
<1> QED
  BY <1>1 DEF GoodItems

(* A runner is replaced by a good one.                                         *)
LEMMA ReplacedRunner ==
  ASSUME NEW S, NEW pane, GoodRun(pane, S), NEW r \in 1..MaxRoots,
         NEW x, GoodRunner(x, S)
  PROVE GoodRun(WithRunner(pane, r, x), S)
<1> DEFINE new == WithRunner(pane, r, x)
           rs == [q \in DOMAIN pane.runners \cup {r} |-> IF q = r THEN x ELSE pane.runners[q]]
<1>1. new = [root |-> pane.root, runners |-> rs]
  BY DEF WithRunner, GoodRun
<1>2. \A q \in DOMAIN rs : GoodRunner(rs[q], S)
  BY DEF GoodRun
<1>3. DOMAIN rs \subseteq 1..MaxRoots /\ rs = [q \in DOMAIN rs |-> rs[q]]
  BY DEF GoodRun
<1>4. pane.root \in 1..MaxRoots \cup {None}
  BY DEF GoodRun
<1> HIDE DEF rs, new
<1>5. new.root = pane.root /\ new.runners = rs /\ new = [root |-> new.root, runners |-> new.runners]
  BY <1>1
<1>6. GoodRun(new, S)
  BY <1>2, <1>3, <1>4, <1>5 DEF GoodRun
<1> QED
  BY <1>6 DEF new

(* The items of a runner, or none, are good.                                    *)
LEMMA ItemsAreGood ==
  ASSUME NEW S, NEW pane, GoodRun(pane, S), NEW r
  PROVE GoodItems(Items(pane, r), S)
<1>1. CASE r \in DOMAIN pane.runners
  BY <1>1 DEF Items, GoodRun, GoodRunner
<1>2. CASE r \notin DOMAIN pane.runners
  BY <1>2 DEF Items, GoodItems
<1> QED
  BY <1>1, <1>2

(* Adding an item to a runner there is, or to none.                             *)
LEMMA AddItemKeeps ==
  ASSUME NEW S, NEW pane, GoodRun(pane, S), NEW r \in 0..MaxRoots, NEW item \in RowSet,
         HasIdentity(Identity(item)) => ~HasItem(Items(pane, r), item.kind, item.id),
         \A s \in Sends : item.id = <<"user", s>> => s \in S
  PROVE GoodRun(AddItem(pane, r, item), S)
<1>1. CASE r \notin DOMAIN pane.runners
  BY <1>1 DEF AddItem, MapItems
<1>2. CASE r \in DOMAIN pane.runners
  <2> DEFINE x == pane.runners[r]
             y == [x EXCEPT !.items = Append(x.items, item)]
  <2>1. GoodRunner(x, S) /\ r \in 1..MaxRoots
    BY <1>2 DEF GoodRun
  <2>2. GoodItems(Append(x.items, item), S)
    BY <1>2, <2>1, AddedItem DEF GoodRunner, Items
  <2>3. GoodRunner(y, S)
    BY <2>1, <2>2 DEF GoodRunner, GoodItems
  <2>4. AddItem(pane, r, item) = WithRunner(pane, r, y)
    BY <1>2 DEF AddItem, MapItems
  <2> HIDE DEF x, y
  <2> QED
    BY <2>1, <2>3, <2>4, ReplacedRunner
<1> QED
  BY <1>1, <1>2

(* A chunk that is appended, or taken for a replay, changes no identity.             *)
LEMMA AppendedChunk ==
  ASSUME NEW item \in ItemSet, NEW text \in Seq(Texts)
  PROVE /\ AppendChunk(item, text) \in ItemSet
        /\ Identity(AppendChunk(item, text)) = Identity(item)
<1> DEFINE longer == item.text \o text
<1>1. item.text \in Seq(Texts)
  BY DEF ItemSet
<1>2. longer \in Seq(Texts)
  BY <1>1
<1> HIDE DEF longer
<1>3. AppendChunk(item, text) \in {item, [item EXCEPT !.text = longer]}
  BY DEF AppendChunk, longer
<1>4. [item EXCEPT !.text = longer] \in ItemSet
  BY <1>2 DEF ItemSet
<1>5. Identity([item EXCEPT !.text = longer]) = Identity(item)
  BY DEF Identity, ItemSet
<1> QED
  BY <1>3, <1>4, <1>5

(* The row of an error is none that has an identity in the log.                    *)
LEMMA OfTheLog ==
  ASSUME NEW item \in RowSet, item.id \in Ids
  PROVE  item \in ItemSet
<1>1. \A id \in Ids : id[1] # "turn-error"
  BY DEF Ids
<1>2. \A x \in ErrorSet : x.id[1] = "turn-error"
  BY DEF ErrorSet
<1> QED
  BY <1>1, <1>2 DEF RowSet

(* user-text and text-delta: a message gets another chunk, or there is a new one.   *)
LEMMA TextDeltaKeeps ==
  ASSUME NEW S, NEW pane, GoodRun(pane, S), NEW e, e.runner \in 0..MaxRoots,
         e.id \in Ids, e.text \in Seq(Texts),
         \A s \in Sends : e.id = <<"user", s>> => s \in S
  PROVE GoodRun(TextDelta(pane, e), S)
<1> DEFINE r == e.runner
           items == Items(pane, r)
           Longer(item) == AppendChunk(item, e.text)
           changed == [i \in DOMAIN items |-> IF IsItem(items[i], "message", e.id)
                                              THEN Longer(items[i]) ELSE items[i]]
<1>1. CASE ~HasItem(items, "message", e.id)
  <2> DEFINE item == Item("message", e.id, e.text)
  <2>1. item \in RowSet /\ item.kind = "message" /\ item.id = e.id
    BY DEF Item, ItemSet, RowSet
  <2>2. TextDelta(pane, e) = AddItem(pane, r, item)
    BY <1>1 DEF TextDelta
  <2> HIDE DEF item
  <2> QED
    BY <1>1, <2>1, <2>2, AddItemKeeps
<1>2. CASE HasItem(items, "message", e.id) /\ r \notin DOMAIN pane.runners
  BY <1>2 DEF Items, HasItem
<1>3. CASE HasItem(items, "message", e.id) /\ r \in DOMAIN pane.runners
  <2> DEFINE y == [pane.runners[r] EXCEPT !.items = changed]
  <2>1. GoodItems(items, S)
    BY ItemsAreGood
  <2>2. \A item \in RowSet : IsItem(item, "message", e.id) =>
          Longer(item) \in RowSet /\ Identity(Longer(item)) = Identity(item)
    <3> SUFFICES ASSUME NEW item \in RowSet, IsItem(item, "message", e.id)
                 PROVE  Longer(item) \in RowSet /\ Identity(Longer(item)) = Identity(item)
      OBVIOUS
    <3>1. item \in ItemSet
      BY OfTheLog DEF IsItem
    <3> HIDE DEF Longer
    <3> QED
      BY <3>1, AppendedChunk DEF Longer, RowSet
  <2>3. /\ changed \in Seq(RowSet) /\ DOMAIN changed = DOMAIN items
        /\ \A i \in DOMAIN items : Identity(changed[i]) = Identity(items[i])
    <3> HIDE DEF Longer, items
    <3>1. items \in Seq(RowSet) /\ \A i \in DOMAIN items : items[i] \in RowSet
      BY <2>1 DEF GoodItems
    <3> QED
      BY <2>2, <3>1
  <2>4. GoodItems(changed, S)
    <3> HIDE DEF changed, items
    <3> QED
      BY <2>1, <2>3, ChangedItems
  <2>5. TextDelta(pane, e) = WithRunner(pane, r, y)
    BY <1>3 DEF TextDelta, MapItem, MapItems, Items
  <2>6. GoodRunner(y, S) /\ r \in 1..MaxRoots
    <3> HIDE DEF changed
    <3> QED
      BY <1>3, <2>4 DEF GoodRun, GoodRunner, GoodItems
  <2> HIDE DEF y, r
  <2> QED
    BY <2>5, <2>6, ReplacedRunner
<1> QED
  BY <1>1, <1>2, <1>3

(* tool-call-started: a call is shown once.                                     *)
LEMMA ToolCallKeeps ==
  ASSUME NEW S, NEW pane, GoodRun(pane, S), NEW e, e.runner \in 0..MaxRoots,
         e.id \in Ids, \A s \in Sends : e.id # <<"user", s>>
  PROVE GoodRun(AddOnce(pane, e, "tool-call"), S)
<1> DEFINE item == Item("tool-call", e.id, <<>>)
<1>1. item \in RowSet /\ item.kind = "tool-call" /\ item.id = e.id
  BY DEF Item, ItemSet, RowSet
<1> HIDE DEF item
<1>2. CASE HasItem(Items(pane, e.runner), "tool-call", e.id)
  BY <1>2 DEF AddOnce
<1>3. CASE ~HasItem(Items(pane, e.runner), "tool-call", e.id)
  <2>1. AddOnce(pane, e, "tool-call") = AddItem(pane, e.runner, item)
    BY <1>3 DEF AddOnce, item
  <2> QED
    BY <1>1, <1>3, <2>1, AddItemKeeps
<1> QED
  BY <1>2, <1>3

(* runner-started: a new root takes over the items of the one before.              *)
LEMMA RootStartedKeeps ==
  ASSUME NEW S, NEW pane, GoodRun(pane, S), NEW e, e.runner \in 1..MaxRoots, e.id = None
  PROVE GoodRun(RunnerStarted(pane, e), S)
<1> DEFINE items == IF e.runner \in DOMAIN pane.runners THEN Items(pane, e.runner)
                    ELSE RootItems(pane)
           x == [status |-> "running", items |-> items]
           new == WithRunner(pane, e.runner, x)
<1>1. GoodItems(items, S)
  BY ItemsAreGood DEF RootItems
<1>2. GoodRunner(x, S)
  <2> HIDE DEF items
  <2> QED
    BY <1>1 DEF GoodRunner, GoodItems
<1>3. RunnerStarted(pane, e) = [new EXCEPT !.root = e.runner]
  BY DEF RunnerStarted
<1>4. GoodRun(new, S)
  <2> HIDE DEF x
  <2> QED
    BY <1>2, ReplacedRunner
<1> HIDE DEF new
<1> DEFINE moved == [new EXCEPT !.root = e.runner]
<1>5. moved = [root |-> e.runner, runners |-> new.runners]
  BY <1>4 DEF GoodRun
<1>6. moved.root = e.runner /\ moved.runners = new.runners
  BY <1>5
<1> HIDE DEF moved
<1>7. GoodRun(moved, S)
  BY <1>4, <1>5, <1>6 DEF GoodRun
<1> QED
  BY <1>3, <1>7 DEF moved

(* runner-finished: its status, if it is shown.                                  *)
LEMMA FinishedKeeps ==
  ASSUME NEW S, NEW pane, GoodRun(pane, S), NEW e, e.text = "errored"
  PROVE GoodRun(RunnerFinished(pane, e), S)
<1>1. CASE e.runner \notin DOMAIN pane.runners
  BY <1>1 DEF RunnerFinished
<1>2. CASE e.runner \in DOMAIN pane.runners
  <2> DEFINE y == [pane.runners[e.runner] EXCEPT !.status = e.text]
  <2>1. GoodRunner(y, S) /\ e.runner \in 1..MaxRoots
    BY <1>2 DEF GoodRun, GoodRunner, GoodItems
  <2>2. RunnerFinished(pane, e) = WithRunner(pane, e.runner, y)
    BY <1>2 DEF RunnerFinished
  <2> HIDE DEF y
  <2> QED
    BY <2>1, <2>2, ReplacedRunner
<1> QED
  BY <1>1, <1>2

(* turn-finished: an error marks the message it names, or has a row of its own.       *)
LEMMA TurnFinishedKeeps ==
  ASSUME NEW S, NEW pane, GoodRun(pane, S), NEW e, e.runner \in 0..MaxRoots,
         e.text \in {<<>>, <<"error">>}
  PROVE GoodRun(TurnFinished(pane, e), S)
<1> DEFINE r == e.runner
           items == Items(pane, r)
           Marked(item) == [item EXCEPT !.status = "error"]
           changed == [i \in DOMAIN items |-> IF IsItem(items[i], "message", e.id)
                                              THEN Marked(items[i]) ELSE items[i]]
           error == Marked(Item("message", <<"turn-error", Len(items)>>, e.text))
<1>0. GoodItems(items, S)
  BY ItemsAreGood
<1>1. CASE e.text = <<>>
  BY <1>1 DEF TurnFinished
<1>2. CASE e.text # <<>> /\ ~HasItem(items, "message", e.id)
  <2>1. Len(items) \in Nat
    <3> HIDE DEF items
    <3> QED
      BY <1>0 DEF GoodItems
  <2>2. TurnFinished(pane, e) = AddItem(pane, r, error)
    BY <1>2 DEF TurnFinished
  <2> HIDE DEF items
  <2>3. error = [kind |-> "message", id |-> <<"turn-error", Len(items)>>, text |-> e.text,
               status |-> "error"]
    BY DEF Item
  <2> HIDE DEF error
  <2>4. error \in RowSet /\ ~HasIdentity(Identity(error)) /\ \A s \in Sends : error.id # <<"user", s>>
    <3>1. error.kind = "message" /\ error.id[1] = "turn-error"
      BY <2>3
    <3>2. ~HasIdentity(Identity(error))
      BY <3>1 DEF HasIdentity, Identity
    <3>3. error \in ErrorSet
      BY <1>2, <2>1, <2>3 DEF ErrorSet
    <3>4. \A s \in Sends : error.id # <<"user", s>>
      BY <3>1
    <3> QED
      BY <3>2, <3>3, <3>4 DEF RowSet
  <2> QED
    BY <2>2, <2>4, AddItemKeeps
<1>3. CASE e.text # <<>> /\ HasItem(items, "message", e.id)
  <2> DEFINE y == [pane.runners[r] EXCEPT !.items = changed]
  <2>1. r \in DOMAIN pane.runners
    BY <1>3 DEF Items, HasItem
  <2>2. \A item \in RowSet : Marked(item) \in RowSet /\ Identity(Marked(item)) = Identity(item)
    BY DEF RowSet, ItemSet, ErrorSet, Identity
  <2>3. /\ changed \in Seq(RowSet) /\ DOMAIN changed = DOMAIN items
        /\ \A i \in DOMAIN items : Identity(changed[i]) = Identity(items[i])
    <3> HIDE DEF Marked, items
    <3>1. items \in Seq(RowSet) /\ \A i \in DOMAIN items : items[i] \in RowSet
      BY <1>0 DEF GoodItems
    <3> QED
      BY <2>2, <3>1
  <2>4. GoodItems(changed, S)
    <3> HIDE DEF changed, items
    <3> QED
      BY <1>0, <2>3, ChangedItems
  <2>5. TurnFinished(pane, e) = WithRunner(pane, r, y)
    BY <1>3, <2>1 DEF TurnFinished, MapItem, MapItems, Items
  <2>6. GoodRunner(y, S) /\ r \in 1..MaxRoots
    <3> HIDE DEF changed
    <3> QED
      BY <2>1, <2>4 DEF GoodRun, GoodRunner, GoodItems
  <2> HIDE DEF y, r
  <2> QED
    BY <2>5, <2>6, ReplacedRunner
<1> QED
  BY <1>1, <1>2, <1>3

(* An event of the log, or the end of a resume, is one of six.                    *)
LEMMA EventsAreKnown ==
  ASSUME NEW e \in Logged \cup {Failed}
  PROVE KnownEvent(e)
<1> USE ConversationAssumption DEF Event
<1>1. CASE e = Failed
  BY <1>1 DEF KnownEvent, Failed, Finished
<1>2. ASSUME NEW r \in 1..MaxRoots, e \in {Started(r), TurnDone(r), TurnFailed(r), Finished(r, "errored")}
      PROVE KnownEvent(e)
  BY <1>2 DEF KnownEvent, Started, TurnDone, TurnFailed, Finished
<1>3. ASSUME NEW r \in 1..MaxRoots, NEW s \in Sends \cup {None}, e = Echo(r, s)
      PROVE KnownEvent(e)
  <2>1. /\ e.type = "user-text" /\ e.runner = r
        /\ e.id = <<"user", s>> /\ e.text = <<s>>
    BY <1>3 DEF Echo
  <2>2. e.id \in Ids
    BY <2>1 DEF Ids
  <2>3. e.text \in Seq(Texts)
    BY <2>1 DEF Texts
  <2> QED
    BY <2>1, <2>2, <2>3 DEF KnownEvent
<1>4. ASSUME NEW r \in 1..MaxRoots, e \in AgentEvents(r)
      PROVE KnownEvent(e)
  <2>1. ASSUME NEW c \in Chunks, e = Event("text-delta", r, <<"answer", r>>, <<c>>)
        PROVE KnownEvent(e)
    <3>1. /\ e.type = "text-delta" /\ e.runner = r
          /\ e.id = <<"answer", r>> /\ e.text = <<c>>
      BY <2>1
    <3>2. e.id \in Ids /\ e.text \in Seq(Texts) /\ \A s \in Sends : e.id # <<"user", s>>
      BY <3>1 DEF Ids, Texts
    <3> QED
      BY <3>1, <3>2 DEF KnownEvent
  <2>2. ASSUME e = Event("tool-call-started", r, <<"call", r>>, <<>>)
        PROVE KnownEvent(e)
    <3>1. e.type = "tool-call-started" /\ e.runner = r /\ e.id = <<"call", r>>
      BY <2>2
    <3>2. e.id \in Ids /\ \A s \in Sends : e.id # <<"user", s>>
      BY <3>1 DEF Ids
    <3> QED
      BY <3>1, <3>2 DEF KnownEvent
  <2> QED
    BY <1>4, <2>1, <2>2 DEF AgentEvents
<1> HIDE DEF Event
<1> QED
  BY <1>1, <1>2, <1>3, <1>4, Zenon DEF Logged

(* Reduced into a sound view, an event leaves it sound.                            *)
LEMMA ReduceKeeps ==
  ASSUME NEW S, NEW pane, GoodRun(pane, S), NEW e \in Logged \cup {Failed},
         e.type = "user-text" => \A s \in Sends : e.id = <<"user", s>> => s \in S
  PROVE GoodRun(Reduce(pane, e), S)
<1>1. KnownEvent(e)
  BY EventsAreKnown
<1>2. CASE e.type = "runner-started"
  BY <1>1, <1>2, RootStartedKeeps DEF KnownEvent, Reduce
<1>3. CASE e.type = "runner-finished"
  BY <1>1, <1>3, FinishedKeeps DEF KnownEvent, Reduce
<1>4. CASE e.type = "turn-finished"
  BY <1>1, <1>4, TurnFinishedKeeps DEF KnownEvent, Reduce
<1>5. CASE e.type \in {"user-text", "text-delta"}
  BY <1>1, <1>5, TextDeltaKeeps DEF KnownEvent, Reduce
<1>6. CASE e.type = "tool-call-started"
  BY <1>1, <1>6, ToolCallKeeps DEF KnownEvent, Reduce
<1> QED
  BY <1>1, <1>2, <1>3, <1>4, <1>5, <1>6 DEF KnownEvent

(* More sends in the log do no harm, and a view that was reset is sound.             *)
LEMMA SoundForMore ==
  ASSUME NEW S, NEW T, S \subseteq T, NEW pane, GoodRun(pane, S)
  PROVE GoodRun(pane, T)
<1>1. \A x : GoodRunner(x, S) => GoodRunner(x, T)
  BY DEF GoodRunner, GoodItems
<1> QED
  BY <1>1 DEF GoodRun
LEMMA NoRunIsSound == \A S : GoodRun(NoRun, S)
BY DEF GoodRun, NoRun

-----------------------------------------------------------------------------
(***************************************************************************)
(* The log, and the frames.                                                 *)
(***************************************************************************)
(* What the manager sends is lost or is on its way after what already was.          *)
LEMMA PushKeeps ==
  ASSUME DownTyped, DownIsStored, StoredSends \subseteq StoredSends',
         NEW frames \in Seq(Logged \cup {Failed}), Push(frames),
         \A i \in DOMAIN frames : \A s \in Sends :
           frames[i].type = "user-text" /\ frames[i].id = <<"user", s>> => s \in StoredSends'
  PROVE (DownTyped /\ DownIsStored)'
<1> DEFINE all == down \o frames
<1>1. down \in Seq(Logged \cup {Failed})
  BY DEF DownTyped
<1>2. /\ all \in Seq(Logged \cup {Failed}) /\ Len(down) \in Nat /\ Len(frames) \in Nat
      /\ DOMAIN down = 1..Len(down) /\ DOMAIN frames = 1..Len(frames)
      /\ DOMAIN all = 1..(Len(down) + Len(frames))
      /\ \A i \in DOMAIN all : all[i] = IF i <= Len(down) THEN down[i] ELSE frames[i - Len(down)]
  BY <1>1
<1>3. \A i \in DOMAIN all : (i \in DOMAIN down /\ all[i] = down[i])
                            \/ (\E j \in DOMAIN frames : all[i] = frames[j])
  <2> HIDE DEF all
  <2> SUFFICES ASSUME NEW i \in DOMAIN all, ~(i <= Len(down))
               PROVE i - Len(down) \in DOMAIN frames /\ all[i] = frames[i - Len(down)]
    BY <1>2
  <2> QED
    BY <1>2
<1>4. down' \in {down, all}
  BY DEF Push
<1> HIDE DEF all
<1>5. DownTyped'
  BY <1>1, <1>2, <1>4 DEF DownTyped
<1>6. DownIsStored'
  BY <1>3, <1>4 DEF DownIsStored
<1> QED
  BY <1>5, <1>6

(* What is logged stays so, and counts as stored.                               *)
LEMMA LogGrew ==
  ASSUME store \in Seq(Logged), NEW more \in Seq(Logged), store' = store \o more
  PROVE /\ store' \in Seq(Logged)
        /\ StoredSends \subseteq StoredSends'
        /\ \A i \in DOMAIN more : \A s \in Sends :
             more[i].id = <<"user", s>> => s \in StoredSends'
<1>1. store' \in Seq(Logged)
  OBVIOUS
<1>2. \A i \in DOMAIN store : i \in DOMAIN store' /\ store'[i] = store[i]
  OBVIOUS
<1>3. \A i \in DOMAIN more : /\ Len(store) + i \in DOMAIN store'
                             /\ store'[Len(store) + i] = more[i]
  OBVIOUS
<1>4. StoredSends \subseteq StoredSends'
  BY <1>2 DEF StoredSends
<1>5. \A i \in DOMAIN more : \A s \in Sends :
        more[i].id = <<"user", s>> => s \in StoredSends'
  BY <1>3 DEF StoredSends
<1> QED
  BY <1>1, <1>4, <1>5

(* The log itself can be sent to the window.                                    *)
LEMMA StoreIsStored ==
  \A i \in DOMAIN store : \A s \in Sends : store[i].id = <<"user", s>> => s \in StoredSends
BY DEF StoredSends

(* Recorded events are stored first and sent next.                               *)
LEMMA RecordKeeps ==
  ASSUME store \in Seq(Logged), DownTyped, DownIsStored, NEW events \in Seq(Logged),
         Record(events)
  PROVE /\ store' \in Seq(Logged) /\ StoredSends \subseteq StoredSends'
        /\ (DownTyped /\ DownIsStored)'
<1>1. /\ store' \in Seq(Logged) /\ StoredSends \subseteq StoredSends'
      /\ \A i \in DOMAIN events : \A s \in Sends :
           events[i].id = <<"user", s>> => s \in StoredSends'
  BY LogGrew DEF Record
<1>2. events \in Seq(Logged \cup {Failed})
  OBVIOUS
<1>3. Push(events)
  BY DEF Record
<1>4. (DownTyped /\ DownIsStored)'
  BY <1>1, <1>2, <1>3, PushKeeps
<1> QED
  BY <1>1, <1>4

(* The window's frames go to the socket, or wait for it.                          *)
LEMMA FramesKeep ==
  ASSUME up \in Seq(Commands), buffer \in Seq(Commands), NEW frames \in Seq(Commands),
         Frames(frames)
  PROVE up' \in Seq(Commands) /\ buffer' \in Seq(Commands)
<1>1. up \o frames \in Seq(Commands) /\ buffer \o frames \in Seq(Commands)
  OBVIOUS
<1> QED
  BY <1>1, Zenon DEF Frames

(* What the outbox is reconciled with is in the log.                             *)
LEMMA PresentIsStored ==
  ASSUME NEW S, NEW pane, GoodRun(pane, S)
  PROVE Present(pane) \subseteq S
<1>1. GoodItems(RootItems(pane), S)
  BY ItemsAreGood DEF RootItems
<1> QED
  BY <1>1 DEF Present, GoodItems, Identity


-----------------------------------------------------------------------------
(***************************************************************************)
(* The invariant holds after a launch, and every action keeps it: one lemma for   *)
(* each, and in it one step for each part it can disturb.                       *)
(***************************************************************************)
USE DEF server, net, shown, page, outbox

(* What the manager records are events of the log.                              *)
LEMMA LoggedEvents ==
  ASSUME NEW r \in 1..MaxRoots
  PROVE /\ Started(r) \in Logged /\ TurnDone(r) \in Logged /\ TurnFailed(r) \in Logged
        /\ Finished(r, "errored") \in Logged
        /\ \A s \in Sends \cup {None} : Echo(r, s) \in Logged
        /\ AgentEvents(r) \subseteq Logged
<1> DEFINE of(q) == {Started(q), TurnDone(q), TurnFailed(q), Finished(q, "errored")}
                      \cup {Echo(q, s) : s \in Sends \cup {None}} \cup AgentEvents(q)
<1>1. of(r) \subseteq Logged
  <2> HIDE DEF of
  <2>1. Logged = UNION {of(q) : q \in 1..MaxRoots}
    BY Zenon DEF Logged, of
  <2> QED
    BY <2>1
<1> QED
  BY <1>1

(* A root has started and the window has attached.                              *)
LEMMA ConvInvInit == ConvInit => ConvInv
<1> SUFFICES ASSUME ConvInit PROVE ConvInv
  OBVIOUS
<1> USE DEF ConvInit
<1>1. 1 \in 1..MaxRoots
  BY ConversationAssumption
<1>2. Started(1) \in Logged
  BY <1>1, LoggedEvents
<1>3. ServerTyped
  BY <1>1, <1>2 DEF ServerTyped
<1>4. NetTyped
  BY DEF NetTyped, Commands
<1>5. DownTyped
  BY <1>2 DEF DownTyped
<1>6. WindowTyped /\ PageTyped /\ OutboxTyped
  BY DEF WindowTyped, PageTyped, OutboxTyped
<1>7. DownIsStored
  BY DEF DownIsStored, Started, Event
<1>8. ShownIsSound
  BY NoRunIsSound DEF ShownIsSound
<1>9. NoTurnVanishes /\ NoSendHangs
  BY DEF NoTurnVanishes, NoSendHangs
<1> QED
  BY <1>3, <1>4, <1>5, <1>6, <1>7, <1>8, <1>9 DEF ConvInv

(* Recording leaves the window and the outbox as they are.                        *)
LEMMA RecordedIsSound ==
  ASSUME ConvInv, NEW events \in Seq(Logged), Record(events),
         UNCHANGED <<view, entries, timers, made, given, mounted>>
  PROVE /\ store' \in Seq(Logged) /\ (DownTyped /\ DownIsStored)'
        /\ ShownIsSound' /\ NoTurnVanishes' /\ NoSendHangs'
<1> USE DEF ConvInv
<1>1. /\ store' \in Seq(Logged) /\ StoredSends \subseteq StoredSends'
      /\ (DownTyped /\ DownIsStored)'
  BY RecordKeeps DEF ServerTyped
<1>2. ShownIsSound'
  BY <1>1, SoundForMore DEF ShownIsSound
<1>3. NoTurnVanishes' /\ NoSendHangs'
  BY <1>1 DEF NoTurnVanishes, NoSendHangs
<1> QED
  BY <1>1, <1>2, <1>3

(* The agent emits an event.                                                   *)
LEMMA AgentEmitsKeeps ==
  ASSUME ConvInv, NEW e \in AgentEvents(live), AgentEmits(e)
  PROVE ConvInv'
<1> USE DEF ConvInv, AgentEmits
<1>1. live \in 1..MaxRoots
  BY ConversationAssumption DEF ServerTyped
<1>2. <<e>> \in Seq(Logged)
  <2>1. e \in Logged
    BY <1>1, LoggedEvents
  <2> QED
    BY <2>1
<1>3. /\ store' \in Seq(Logged) /\ (DownTyped /\ DownIsStored)'
      /\ ShownIsSound' /\ NoTurnVanishes' /\ NoSendHangs'
  BY <1>2, RecordedIsSound
<1>4. (ServerTyped /\ NetTyped /\ WindowTyped /\ PageTyped /\ OutboxTyped)'
  BY <1>3 DEF ServerTyped, NetTyped, WindowTyped, PageTyped, OutboxTyped
<1> QED
  BY <1>3, <1>4

(* A turn ends.                                                               *)
LEMMA TurnEndsKeeps ==
  ASSUME ConvInv, NEW failed \in BOOLEAN, TurnEnds(failed)
  PROVE ConvInv'
<1> DEFINE e == IF failed THEN TurnFailed(live) ELSE TurnDone(live)
<1> USE DEF ConvInv, TurnEnds
<1>1. live \in 1..MaxRoots
  BY ConversationAssumption DEF ServerTyped
<1>2. <<e>> \in Seq(Logged)
  <2>1. e \in Logged
    BY <1>1, LoggedEvents
  <2> QED
    BY <2>1
<1>3. /\ store' \in Seq(Logged) /\ (DownTyped /\ DownIsStored)'
      /\ ShownIsSound' /\ NoTurnVanishes' /\ NoSendHangs'
  BY <1>2, RecordedIsSound
<1>4. (ServerTyped /\ NetTyped /\ WindowTyped /\ PageTyped /\ OutboxTyped)'
  BY <1>3 DEF ServerTyped, NetTyped, WindowTyped, PageTyped, OutboxTyped
<1> QED
  BY <1>3, <1>4

(* The run ends, and with it the turns it was given.                            *)
LEMMA RunEndsKeeps ==
  ASSUME ConvInv, RunEnds
  PROVE ConvInv'
<1> USE DEF ConvInv, RunEnds
<1>1. live \in 1..MaxRoots
  BY ConversationAssumption DEF ServerTyped
<1>2. <<Finished(live, "errored")>> \in Seq(Logged)
  <2>1. Finished(live, "errored") \in Logged
    BY <1>1, LoggedEvents
  <2> QED
    BY <2>1
<1>3. /\ store' \in Seq(Logged) /\ (DownTyped /\ DownIsStored)'
      /\ ShownIsSound' /\ NoTurnVanishes' /\ NoSendHangs'
  BY <1>2, RecordedIsSound
<1>4. (ServerTyped /\ NetTyped /\ WindowTyped /\ PageTyped /\ OutboxTyped)'
  BY <1>3 DEF ServerTyped, NetTyped, WindowTyped, PageTyped, OutboxTyped
<1> QED
  BY <1>3, <1>4

(* A frame of the window is an attach, a send to a live agent or to one that is    *)
(* resumed for it, or an interrupt.                                          *)
LEMMA ReceivesKeeps ==
  ASSUME ConvInv, Receives
  PROVE ConvInv'
<1> USE DEF ConvInv
<1> DEFINE frame == Head(up)
           RestSame == UNCHANGED <<sock, ever, buffer, shown, page, outbox, reattachDue>>
<1>1. frame \in Commands /\ up' \in Seq(Commands)
  BY DEF Receives, NetTyped
<1>2. RestSame
  BY Zenon DEF Receives
<1>3. (NetTyped /\ WindowTyped /\ PageTyped /\ OutboxTyped)'
  BY <1>1, <1>2 DEF NetTyped, WindowTyped, PageTyped, OutboxTyped
<1>4. ASSUME Push(store), UNCHANGED server
      PROVE ConvInv'
  <2>1. store \in Seq(Logged \cup {Failed})
    BY DEF ServerTyped
  <2>2. StoredSends' = StoredSends
    BY <1>4 DEF StoredSends
  <2>3. (DownTyped /\ DownIsStored)'
    BY <1>4, <2>1, <2>2, StoreIsStored, PushKeeps
  <2>4. ServerTyped'
    BY <1>4 DEF ServerTyped
  <2>5. ShownIsSound' /\ NoTurnVanishes' /\ NoSendHangs'
    BY <1>2, <2>2 DEF ShownIsSound, NoTurnVanishes, NoSendHangs
  <2> QED
    BY <1>3, <2>3, <2>4, <2>5
<1>5. ASSUME NEW s \in Sends \cup {None}, live # 0, Record(<<Echo(live, s)>>),
             working' = working + 1, UNCHANGED <<live, roots, queue, resumes>>
      PROVE ConvInv'
  <2>1. live \in 1..MaxRoots
    BY <1>5, ConversationAssumption DEF ServerTyped
  <2>2. Echo(live, s) \in Logged
    BY <2>1, LoggedEvents
  <2>3. <<Echo(live, s)>> \in Seq(Logged)
    BY <2>2
  <2>4. /\ store' \in Seq(Logged) /\ (DownTyped /\ DownIsStored)'
        /\ ShownIsSound' /\ NoTurnVanishes' /\ NoSendHangs'
    BY <1>2, <1>5, <2>3, RecordedIsSound
  <2>5. ServerTyped'
    BY <1>5, <2>4 DEF ServerTyped
  <2> QED
    BY <1>3, <2>4, <2>5
<1>6. ASSUME store' = store, down' = down, UNCHANGED <<live, roots, working>>,
             queue' \in Seq(Sends \cup {None}) \cup {None}, resumes' \in Nat
      PROVE ConvInv'
  <2>1. StoredSends' = StoredSends
    BY <1>6 DEF StoredSends
  <2>2. ServerTyped'
    BY <1>6 DEF ServerTyped
  <2>3. (DownTyped /\ DownIsStored)'
    BY <1>6, <2>1 DEF DownTyped, DownIsStored
  <2>4. ShownIsSound' /\ NoTurnVanishes' /\ NoSendHangs'
    BY <1>2, <2>1 DEF ShownIsSound, NoTurnVanishes, NoSendHangs
  <2> QED
    BY <1>3, <2>2, <2>3, <2>4
<1>7. CASE frame[1] = "attach"
  BY <1>4, <1>7 DEF Receives
<1>8. CASE frame[1] = "interrupt"
  BY <1>6, <1>8 DEF Receives, ServerTyped
<1>9. CASE frame[1] = "send"
  <2>1. frame[2] \in Sends \cup {None}
    BY <1>1, <1>9 DEF Commands
  <2>2. CASE live # 0
    BY <1>5, <1>9, <2>1, <2>2 DEF Receives
  <2>3. CASE live = 0
    <3>1. Append(IF queue = None THEN <<>> ELSE queue, frame[2]) \in Seq(Sends \cup {None})
      BY <2>1 DEF ServerTyped
    <3>2. /\ queue' = Append(IF queue = None THEN <<>> ELSE queue, frame[2])
          /\ resumes' \in {resumes, resumes + 1}
          /\ UNCHANGED <<store, live, roots, working, down>>
      BY <1>9, <2>3 DEF Receives
    <3> QED
      BY <1>6, <3>1, <3>2 DEF ServerTyped
  <2> QED
    BY <2>2, <2>3
<1> QED
  BY <1>1, <1>7, <1>8, <1>9 DEF Commands

(* A resume echoes the turns that waited for it, and starts a root.               *)
LEMMA ResumeStartsKeeps ==
  ASSUME ConvInv, ResumeStarts
  PROVE ConvInv'
<1> USE DEF ConvInv, ResumeStarts
<1> DEFINE r == roots + 1
           waiting == IF queue = None THEN <<>> ELSE queue
           echoes == [i \in DOMAIN waiting |-> Echo(r, waiting[i])]
           more == echoes \o <<Started(r)>>
<1>1. r \in 1..MaxRoots /\ waiting \in Seq(Sends \cup {None})
  BY ConversationAssumption DEF ServerTyped
<1>2. echoes \in Seq(Logged) /\ <<Started(r)>> \in Seq(Logged)
  <2>1. \A s \in Sends \cup {None} : Echo(r, s) \in Logged
    BY <1>1, LoggedEvents
  <2>2. Started(r) \in Logged
    BY <1>1, LoggedEvents
  <2>3. /\ \A i \in DOMAIN waiting : waiting[i] \in Sends \cup {None}
        /\ Len(waiting) \in Nat /\ DOMAIN waiting = 1..Len(waiting)
    BY <1>1
  <2> HIDE DEF r, waiting
  <2>4. echoes \in [1..Len(waiting) -> Logged]
    BY <2>1, <2>3, Zenon
  <2>5. echoes \in Seq(Logged)
    BY <2>3, <2>4
  <2> QED
    BY <2>2, <2>5
<1>3. /\ store \in Seq(Logged) /\ live' = r /\ roots' = r /\ working' = Len(waiting)
      /\ queue' = None /\ resumes > 0 /\ resumes' = resumes - 1
      /\ store' = store \o echoes \o <<Started(r)>>
      /\ Push(store \o echoes \o <<Started(r)>>)
      /\ UNCHANGED <<sock, ever, up, buffer, shown, page, outbox, reattachDue>>
  BY DEF ServerTyped
<1> HIDE DEF r, echoes, waiting, ResumeStarts
<1>4. more \in Seq(Logged) /\ store' = store \o more
  BY <1>2, <1>3
<1>5. store' \in Seq(Logged) /\ StoredSends \subseteq StoredSends'
  BY <1>3, <1>4, LogGrew
<1>6. \A i \in DOMAIN store' : \A s \in Sends :
        store'[i].id = <<"user", s>> => s \in StoredSends'
  BY DEF StoredSends
<1>7. (DownTyped /\ DownIsStored)'
  <2>1. store' \in Seq(Logged \cup {Failed}) /\ Push(store')
    BY <1>3, <1>5
  <2> QED
    BY <1>5, <1>6, <2>1, PushKeeps
<1>8. ServerTyped'
  BY <1>1, <1>3, <1>5 DEF ServerTyped
<1>9. (NetTyped /\ WindowTyped /\ PageTyped /\ OutboxTyped)'
  BY <1>3 DEF NetTyped, WindowTyped, PageTyped, OutboxTyped
<1>10. ShownIsSound'
  BY <1>3, <1>5, SoundForMore DEF ShownIsSound
<1>11. NoTurnVanishes' /\ NoSendHangs'
  BY <1>3, <1>5 DEF NoTurnVanishes, NoSendHangs
<1> QED
  BY <1>7, <1>8, <1>9, <1>10, <1>11

(* An event reaches the window: the view, and the outbox with it.                 *)
LEMMA DeliversKeeps ==
  ASSUME ConvInv, Delivers
  PROVE ConvInv'
<1> USE DEF ConvInv
<1> DEFINE e == Head(down)
           once == ApplyOnce(view, busy, e)
           last == IF listening THEN ApplyOnce(once[1], once[2], e) ELSE once
<1>1. /\ down # <<>> /\ down' = Tail(down)
      /\ view' = last[1] /\ busy' = last[2] /\ watch' \in {"armed", watch}
      /\ IF mounted
         THEN entries' = Confirmed(entries, last[1]) /\ timers' = timers \ Present(last[1])
         ELSE UNCHANGED <<entries, timers>>
      /\ UNCHANGED <<server, sock, ever, up, buffer, page, made, given, reattachDue>>
  BY DEF Delivers
<1>2. /\ e \in Logged \cup {Failed} /\ down' \in Seq(Logged \cup {Failed})
      /\ \A i \in DOMAIN down' : \E j \in DOMAIN down : down'[i] = down[j]
      /\ 1 \in DOMAIN down /\ e = down[1]
  BY <1>1 DEF DownTyped
<1>3. e.type = "user-text" => \A s \in Sends : e.id = <<"user", s>> => s \in StoredSends
  BY <1>2 DEF DownIsStored
<1> HIDE DEF e
<1>4. /\ GoodRun(once[1], StoredSends) /\ once[1] = Reduce(view, e)
      /\ once[2] = NextBusy(busy, e, once[1])
  BY <1>2, <1>3, ReduceKeeps DEF ApplyOnce, ShownIsSound
<1>5. GoodRun(last[1], StoredSends) /\ last[2] \in BOOLEAN
  <2>1. CASE listening
    <3>1. last[1] = Reduce(once[1], e) /\ last[2] = NextBusy(once[2], e, last[1])
      BY <2>1 DEF ApplyOnce
    <3> HIDE DEF last, once
    <3> QED
      BY <1>2, <1>3, <1>4, <3>1, ReduceKeeps DEF NextBusy
  <2>2. CASE ~listening
    BY <1>4, <2>2 DEF NextBusy
  <2> QED
    BY <2>1, <2>2
<1> HIDE DEF last, once
<1>6. Present(last[1]) \subseteq StoredSends
  BY <1>5, PresentIsStored
<1>7. StoredSends' = StoredSends
  BY <1>1 DEF StoredSends
<1>8. ShownIsSound' /\ WindowTyped'
  BY <1>1, <1>5, <1>7 DEF ShownIsSound, WindowTyped
<1>9. (DownTyped /\ DownIsStored)'
  BY <1>1, <1>2, <1>7 DEF DownTyped, DownIsStored
<1>10. (ServerTyped /\ NetTyped /\ PageTyped)'
  BY <1>1 DEF ServerTyped, NetTyped, PageTyped
<1>11. OutboxTyped'
  BY <1>1 DEF OutboxTyped, Confirmed
<1>12. NoTurnVanishes'
  BY <1>1, <1>6, <1>7 DEF NoTurnVanishes, Confirmed, OutboxTyped
<1>13. NoSendHangs'
  BY <1>1 DEF NoSendHangs, Confirmed, OutboxTyped
<1> QED
  BY <1>8, <1>9, <1>10, <1>11, <1>12, <1>13

(* A resume that fails drops the turns that waited for it.                   *)
LEMMA ResumeFailsKeeps ==
  ASSUME ConvInv, ResumeFails
  PROVE ConvInv'
<1> USE DEF ConvInv, ResumeFails
<1>1. ServerTyped'
  BY DEF ServerTyped
<1>2. DownTyped'
  <2>1. <<Failed>> \in Seq(Logged \cup {Failed}) /\ Failed.type # "user-text"
    BY DEF Failed, Finished, Event
  <2>2. StoredSends' = StoredSends /\ Push(<<Failed>>)
    BY DEF StoredSends, Failed
  <2>3. \A i \in DOMAIN <<Failed>> : <<Failed>>[i] = Failed
    OBVIOUS
  <2> HIDE DEF ResumeFails
  <2> QED
    BY <2>1, <2>2, <2>3, PushKeeps
<1>3. DownIsStored'
  <2>1. <<Failed>> \in Seq(Logged \cup {Failed}) /\ Failed.type # "user-text"
    BY DEF Failed, Finished, Event
  <2>2. StoredSends' = StoredSends /\ Push(<<Failed>>)
    BY DEF StoredSends, Failed
  <2>3. \A i \in DOMAIN <<Failed>> : <<Failed>>[i] = Failed
    OBVIOUS
  <2> HIDE DEF ResumeFails
  <2> QED
    BY <2>1, <2>2, <2>3, PushKeeps
<1>4. (NetTyped /\ WindowTyped /\ PageTyped /\ OutboxTyped /\ ShownIsSound /\
       NoTurnVanishes /\ NoSendHangs)'
  BY DEF NetTyped, WindowTyped, PageTyped, OutboxTyped, ShownIsSound, NoTurnVanishes,
         NoSendHangs, StoredSends
<1> QED
  BY <1>1, <1>2, <1>3, <1>4

(* A send is in the outbox, and timed, before it is in a frame.              *)
LEMMA UserSendsKeeps ==
  ASSUME ConvInv, NEW s \in Sends, UserSends(s)
  PROVE ConvInv'
<1> USE DEF ConvInv, UserSends
<1>1. NetTyped'
  <2>1. <<<<"send", s>>>> \in Seq(Commands)
    BY DEF Commands
  <2>2. up' \in Seq(Commands) /\ buffer' \in Seq(Commands)
    BY <2>1, FramesKeep DEF NetTyped
  <2> QED
    BY <2>2 DEF NetTyped
<1>2. OutboxTyped'
  BY DEF OutboxTyped, ServerTyped
<1>3. NoTurnVanishes'
  BY DEF NoTurnVanishes, StoredSends, OutboxTyped, ServerTyped
<1>4. NoSendHangs'
  BY DEF NoSendHangs, ServerTyped
<1>5. (ServerTyped /\ DownTyped /\ WindowTyped /\ PageTyped /\ DownIsStored /\
       ShownIsSound)'
  BY DEF ServerTyped, DownTyped, WindowTyped, PageTyped, DownIsStored, ShownIsSound,
         StoredSends
<1> QED
  BY <1>1, <1>2, <1>3, <1>4, <1>5

(* A send whose time is up has failed.                                       *)
LEMMA AckTimeoutKeeps ==
  ASSUME ConvInv, NEW s \in Sends, AckTimeout(s)
  PROVE ConvInv'
<1> USE DEF ConvInv, AckTimeout
<1>1. OutboxTyped'
  BY DEF OutboxTyped, ServerTyped
<1>2. NoTurnVanishes'
  BY DEF NoTurnVanishes, StoredSends, OutboxTyped, ServerTyped
<1>3. NoSendHangs'
  BY DEF NoSendHangs, OutboxTyped, PageTyped, ServerTyped
<1>4. (ServerTyped /\ NetTyped /\ DownTyped /\ WindowTyped /\ PageTyped /\
       DownIsStored /\ ShownIsSound)'
  BY DEF ServerTyped, NetTyped, DownTyped, WindowTyped, PageTyped, DownIsStored,
         ShownIsSound, StoredSends
<1> QED
  BY <1>1, <1>2, <1>3, <1>4

(* A failed send is taken back.                                              *)
LEMMA UserTakesBackKeeps ==
  ASSUME ConvInv, NEW s \in Sends, UserTakesBack(s)
  PROVE ConvInv'
<1> USE DEF ConvInv, UserTakesBack
<1>1. OutboxTyped'
  BY DEF OutboxTyped, ServerTyped
<1>2. NoTurnVanishes'
  BY DEF NoTurnVanishes, StoredSends, OutboxTyped, ServerTyped
<1>3. NoSendHangs'
  BY DEF NoSendHangs, ServerTyped
<1>4. (ServerTyped /\ NetTyped /\ DownTyped /\ WindowTyped /\ PageTyped /\
       DownIsStored /\ ShownIsSound)'
  BY DEF ServerTyped, NetTyped, DownTyped, WindowTyped, PageTyped, DownIsStored,
         ShownIsSound, StoredSends
<1> QED
  BY <1>1, <1>2, <1>3, <1>4

(* An interrupt takes back what is being sent.                               *)
LEMMA UserInterruptsKeeps ==
  ASSUME ConvInv, UserInterrupts
  PROVE ConvInv'
<1> USE DEF ConvInv, UserInterrupts
<1>1. NetTyped'
  <2>1. <<<<"interrupt">>>> \in Seq(Commands)
    BY DEF Commands
  <2>2. up' \in Seq(Commands) /\ buffer' \in Seq(Commands)
    BY <2>1, FramesKeep DEF NetTyped
  <2> QED
    BY <2>2 DEF NetTyped
<1>2. OutboxTyped'
  BY DEF OutboxTyped, ServerTyped
<1>3. NoTurnVanishes'
  BY DEF NoTurnVanishes, StoredSends, OutboxTyped, ServerTyped
<1>4. NoSendHangs'
  BY DEF NoSendHangs, ServerTyped
<1>5. (ServerTyped /\ DownTyped /\ WindowTyped /\ PageTyped /\ DownIsStored /\
       ShownIsSound)'
  BY DEF ServerTyped, DownTyped, WindowTyped, PageTyped, DownIsStored, ShownIsSound,
         StoredSends
<1> QED
  BY <1>1, <1>2, <1>3, <1>4, <1>5

(* The socket drops, with all that was on its way.                           *)
LEMMA DropsKeeps ==
  ASSUME ConvInv, NEW reported \in BOOLEAN, Drops(reported)
  PROVE ConvInv'
<1> USE DEF ConvInv, Drops, FailSending
<1>1. NetTyped'
  BY DEF NetTyped, ServerTyped
<1>2. DownTyped'
  BY DEF DownTyped, ServerTyped
<1>3. OutboxTyped'
  BY DEF OutboxTyped, ServerTyped
<1>4. DownIsStored'
  BY DEF DownIsStored, StoredSends, ServerTyped
<1>5. NoTurnVanishes'
  BY DEF NoTurnVanishes, StoredSends, OutboxTyped, ServerTyped
<1>6. NoSendHangs'
  BY DEF NoSendHangs, ServerTyped
<1>7. (ServerTyped /\ WindowTyped /\ PageTyped /\ ShownIsSound)'
  BY DEF ServerTyped, WindowTyped, PageTyped, ShownIsSound, StoredSends
<1> QED
  BY <1>1, <1>2, <1>3, <1>4, <1>5, <1>6, <1>7

(* The frames that waited go out.                                            *)
LEMMA ReopensKeeps ==
  ASSUME ConvInv, Reopens
  PROVE ConvInv'
<1> USE DEF ConvInv, Reopens
<1>1. NetTyped'
  BY DEF NetTyped, ServerTyped
<1>2. PageTyped'
  BY SMTT(30) DEF PageTyped, NetTyped, ServerTyped
<1>3. (ServerTyped /\ DownTyped /\ WindowTyped /\ OutboxTyped /\ DownIsStored /\
       ShownIsSound /\ NoTurnVanishes /\ NoSendHangs)'
  BY DEF ServerTyped, DownTyped, WindowTyped, OutboxTyped, DownIsStored, ShownIsSound,
         NoTurnVanishes, NoSendHangs, StoredSends
<1> QED
  BY <1>1, <1>2, <1>3

(* The view is reset before the log is asked for again.                      *)
LEMMA ReattachesKeeps ==
  ASSUME ConvInv, Reattaches
  PROVE ConvInv'
<1> USE DEF ConvInv, Reattaches, ResetView
<1>1. NetTyped'
  <2>1. <<<<"attach">>>> \in Seq(Commands)
    BY DEF Commands
  <2>2. up' \in Seq(Commands) /\ buffer' \in Seq(Commands)
    BY <2>1, FramesKeep DEF NetTyped
  <2> QED
    BY <2>2 DEF NetTyped
<1>2. WindowTyped'
  BY DEF WindowTyped, ServerTyped
<1>3. PageTyped'
  BY DEF PageTyped, ServerTyped
<1>4. ShownIsSound'
  <2>1. view' = NoRun \/ view' = view
    OBVIOUS
  <2> QED
    BY <2>1, NoRunIsSound DEF ShownIsSound, StoredSends
<1>5. (ServerTyped /\ DownTyped /\ OutboxTyped /\ DownIsStored /\ NoTurnVanishes /\
       NoSendHangs)'
  BY DEF ServerTyped, DownTyped, OutboxTyped, DownIsStored, NoTurnVanishes, NoSendHangs,
         StoredSends
<1> QED
  BY <1>1, <1>2, <1>3, <1>4, <1>5

(* A view that is left times nothing.                                        *)
LEMMA LeavesKeeps ==
  ASSUME ConvInv, Leaves
  PROVE ConvInv'
<1> USE DEF ConvInv, Leaves
<1>1. PageTyped'
  BY DEF PageTyped, ServerTyped
<1>2. OutboxTyped'
  BY DEF OutboxTyped, ServerTyped
<1>3. NoSendHangs'
  BY DEF NoSendHangs, ServerTyped
<1>4. (ServerTyped /\ NetTyped /\ DownTyped /\ WindowTyped /\ DownIsStored /\
       ShownIsSound /\ NoTurnVanishes)'
  BY DEF ServerTyped, NetTyped, DownTyped, WindowTyped, DownIsStored, ShownIsSound,
         NoTurnVanishes, StoredSends
<1> QED
  BY <1>1, <1>2, <1>3, <1>4

(* A view that mounts takes what was being sent for failed.                  *)
LEMMA ComesKeeps ==
  ASSUME ConvInv, Comes
  PROVE ConvInv'
<1> USE DEF ConvInv, Comes, Mount, Confirmed, FailSending
<1>1. NetTyped'
  <2>1. <<<<"attach">>>> \in Seq(Commands)
    BY DEF Commands
  <2>2. up' \in Seq(Commands) /\ buffer' \in Seq(Commands)
    BY <2>1, FramesKeep DEF NetTyped
  <2> QED
    BY <2>2 DEF NetTyped
<1>2. WindowTyped'
  BY DEF WindowTyped, ServerTyped
<1>3. PageTyped'
  BY DEF PageTyped, ServerTyped
<1>4. OutboxTyped'
  BY DEF OutboxTyped, ServerTyped
<1>5. NoTurnVanishes'
  <2>1. Present(view) \subseteq StoredSends
    BY PresentIsStored DEF ShownIsSound
  <2>2. StoredSends' = StoredSends
    BY DEF StoredSends
  <2> QED
    BY <2>1, <2>2 DEF NoTurnVanishes, OutboxTyped
<1>6. NoSendHangs'
  BY DEF NoSendHangs, ServerTyped
<1>7. (ServerTyped /\ DownTyped /\ DownIsStored /\ ShownIsSound)'
  BY DEF ServerTyped, DownTyped, DownIsStored, ShownIsSound, StoredSends
<1> QED
  BY <1>1, <1>2, <1>3, <1>4, <1>5, <1>6, <1>7

(* So does one that is opened by a send.                                     *)
LEMMA ResumesFromReplayKeeps ==
  ASSUME ConvInv, ResumesFromReplay
  PROVE ConvInv'
<1> USE DEF ConvInv, ResumesFromReplay, Confirmed, FailSending
<1>1. NetTyped'
  <2>1. <<<<"send", None>>>> \in Seq(Commands)
    BY DEF Commands
  <2>2. up' \in Seq(Commands) /\ buffer' \in Seq(Commands)
    BY <2>1, FramesKeep DEF NetTyped
  <2> QED
    BY <2>2 DEF NetTyped
<1>2. WindowTyped'
  BY DEF WindowTyped, ServerTyped
<1>3. PageTyped'
  BY DEF PageTyped, ServerTyped
<1>4. OutboxTyped'
  BY DEF OutboxTyped, ServerTyped
<1>5. NoTurnVanishes'
  <2>1. Present(view) \subseteq StoredSends
    BY PresentIsStored DEF ShownIsSound
  <2>2. StoredSends' = StoredSends
    BY DEF StoredSends
  <2> QED
    BY <2>1, <2>2 DEF NoTurnVanishes, OutboxTyped
<1>6. NoSendHangs'
  BY DEF NoSendHangs, ServerTyped
<1>7. (ServerTyped /\ DownTyped /\ DownIsStored /\ ShownIsSound)'
  BY DEF ServerTyped, DownTyped, DownIsStored, ShownIsSound, StoredSends
<1> QED
  BY <1>1, <1>2, <1>3, <1>4, <1>5, <1>6, <1>7

(* The watchdog resets the view and asks for the log again.                  *)
LEMMA StartWatchdogKeeps ==
  ASSUME ConvInv, NEW retry \in BOOLEAN, StartWatchdog(retry)
  PROVE ConvInv'
<1> USE DEF ConvInv, StartWatchdog, ResetView
<1>1. NetTyped'
  <2>1. <<<<"attach">>>> \in Seq(Commands)
    BY DEF Commands
  <2>2. up' \in Seq(Commands) /\ buffer' \in Seq(Commands)
    BY <2>1, FramesKeep DEF NetTyped
  <2> QED
    BY <2>2 DEF NetTyped
<1>2. WindowTyped'
  BY DEF WindowTyped, ServerTyped
<1>3. ShownIsSound'
  <2>1. view' = NoRun \/ view' = view
    OBVIOUS
  <2> QED
    BY <2>1, NoRunIsSound DEF ShownIsSound, StoredSends
<1>4. (ServerTyped /\ DownTyped /\ PageTyped /\ OutboxTyped /\ DownIsStored /\
       NoTurnVanishes /\ NoSendHangs)'
  BY DEF ServerTyped, DownTyped, PageTyped, OutboxTyped, DownIsStored, NoTurnVanishes,
         NoSendHangs, StoredSends
<1> QED
  BY <1>1, <1>2, <1>3, <1>4

(* A reload keeps the outbox, and nothing else of the window.                *)
LEMMA ReloadsKeeps ==
  ASSUME ConvInv, NEW restart \in BOOLEAN, Reloads(restart)
  PROVE ConvInv'
<1> USE DEF ConvInv, Reloads, ResetView
<1>1. ServerTyped'
  BY DEF ServerTyped
<1>2. NetTyped'
  <2>1. <<>> \in Seq(Commands)
    OBVIOUS
  <2>2. sock' = "down" /\ ever' = FALSE /\ up' = <<>> /\ buffer' = <<>>
    OBVIOUS
  <2> QED
    BY <2>1, <2>2 DEF NetTyped
<1>3. DownTyped'
  BY DEF DownTyped, ServerTyped
<1>4. WindowTyped'
  BY DEF WindowTyped, ServerTyped
<1>5. PageTyped'
  BY DEF PageTyped, ServerTyped
<1>6. OutboxTyped'
  BY DEF OutboxTyped, ServerTyped
<1>7. DownIsStored'
  BY DEF DownIsStored, StoredSends, ServerTyped
<1>8. ShownIsSound'
  <2>1. view' = NoRun \/ view' = view
    OBVIOUS
  <2> QED
    BY <2>1, NoRunIsSound DEF ShownIsSound, StoredSends
<1>9. NoSendHangs'
  BY DEF NoSendHangs, ServerTyped
<1>10. NoTurnVanishes'
  BY DEF NoTurnVanishes, StoredSends
<1> QED
  BY <1>1, <1>2, <1>3, <1>4, <1>5, <1>6, <1>7, <1>8, <1>9, <1>10
(* A step of another component changes nothing here.                            *)
LEMMA StutterKeeps ==
  ASSUME ConvInv, UNCHANGED convVars
  PROVE ConvInv'
<1> USE DEF ConvInv, convVars
<1>1. StoredSends' = StoredSends
  BY DEF StoredSends
<1>2. (ServerTyped /\ NetTyped /\ DownTyped /\ WindowTyped /\ PageTyped /\ OutboxTyped)'
  BY DEF ServerTyped, NetTyped, DownTyped, WindowTyped, PageTyped, OutboxTyped
<1>3. (DownIsStored /\ ShownIsSound)'
  BY <1>1 DEF DownIsStored, ShownIsSound
<1>4. (NoTurnVanishes /\ NoSendHangs)'
  BY <1>1 DEF NoTurnVanishes, NoSendHangs
<1> QED
  BY <1>2, <1>3, <1>4

-----------------------------------------------------------------------------
(***************************************************************************)
(* What holds of every conversation.                                        *)
(***************************************************************************)
(* No step breaks the inductive invariant.                                      *)
LEMMA ConvInvKept ==
  ASSUME ConvInv, [ConvNext]_convVars
  PROVE  ConvInv'
<1>1. ASSUME NEW e \in AgentEvents(live), AgentEmits(e)
      PROVE ConvInv'
  BY <1>1, AgentEmitsKeeps
<1>2. CASE (\E failed \in BOOLEAN : TurnEnds(failed))
             \/ RunEnds \/ Receives \/ ResumeStarts \/ ResumeFails
  BY <1>2, TurnEndsKeeps, RunEndsKeeps, ReceivesKeeps, ResumeStartsKeeps, ResumeFailsKeeps
<1>3. CASE Delivers
  BY <1>3, DeliversKeeps
<1>4. ASSUME NEW s \in Sends, UserSends(s) \/ AckTimeout(s) \/ UserTakesBack(s)
      PROVE ConvInv'
  BY <1>4, UserSendsKeeps, AckTimeoutKeeps, UserTakesBackKeeps
<1>5. ASSUME NEW reported \in BOOLEAN, Drops(reported)
      PROVE ConvInv'
  BY <1>5, DropsKeeps
<1>6. CASE UserInterrupts \/ Reopens \/ Reattaches \/ Leaves \/ Comes
  BY <1>6, UserInterruptsKeeps, ReopensKeeps, ReattachesKeeps, LeavesKeeps, ComesKeeps
<1>7. CASE ResumesFromReplay
  BY <1>7, ResumesFromReplayKeeps
<1>8. ASSUME NEW retry \in BOOLEAN, StartWatchdog(retry)
      PROVE ConvInv'
  BY <1>8, StartWatchdogKeeps
<1>9. ASSUME NEW restart \in BOOLEAN, Reloads(restart)
      PROVE ConvInv'
  BY <1>9, ReloadsKeeps
<1>10. CASE UNCHANGED convVars
  BY <1>10, StutterKeeps
<1> HIDE DEF server, net, shown, page, outbox
<1> QED
  BY <1>1, <1>2, <1>3, <1>4, <1>5, <1>6, <1>7, <1>8, <1>9, <1>10, Zenon DEF ConvNext

(* Manager, socket and window keep the inductive invariant.                       *)
THEOREM ConversationIsSound == ConvSpec => []ConvInv
<1>1. ConvInv /\ [ConvNext]_convVars => ConvInv'
  BY ConvInvKept
<1> QED
  BY <1>1, ConvInvInit, PTL DEF ConvSpec

(* It has the types of the variables in it.                                     *)
LEMMA ConvInvTyped ==
  ASSUME ConvInv
  PROVE  ConvTypeOK
<1>1. view.root \in 0..MaxRoots \cup {None} /\ DOMAIN view.runners \subseteq 1..MaxRoots
  BY ConversationAssumption DEF ConvInv, ShownIsSound, GoodRun
<1>2. /\ live \in 0..MaxRoots /\ roots \in 1..MaxRoots /\ live <= roots
      /\ working \in Nat /\ resumes \in Nat
  BY ConversationAssumption DEF ConvInv, ServerTyped
<1> QED
  BY <1>1, <1>2, Zenon DEF ConvInv, NetTyped, WindowTyped, PageTyped, OutboxTyped, ConvTypeOK

(* The variables have their types.                                            *)
THEOREM ConversationTyped == ConvSpec => []ConvTypeOK
<1>1. ConvInv => ConvTypeOK
  BY ConvInvTyped
<1> QED
  BY <1>1, ConversationIsSound, PTL

(* A send is in the outbox or in the log unless the user took it back, drops,       *)
(* reloads and restarts included (outboxStore.ts, RunDetail.tsx).                 *)
THEOREM TurnsDoNotVanish == ConvSpec => []NoTurnVanishes
<1>1. ConvInv => NoTurnVanishes
  BY DEF ConvInv
<1> QED
  BY <1>1, ConversationIsSound, PTL

(* A send on display that is "sending" has its timer (RunDetail.tsx).              *)
THEOREM SendsDoNotHang == ConvSpec => []NoSendHangs
<1>1. ConvInv => NoSendHangs
  BY DEF ConvInv
<1> QED
  BY <1>1, ConversationIsSound, PTL

(* Whatever was replayed, and however often, no item that has an identity is shown     *)
(* twice (reduce.ts).  The row of a turn's error has none.                          *)
THEOREM NothingIsShownTwice == ConvSpec => []NothingShownTwice
<1>1. ConvInv => NothingShownTwice
  BY DEF ConvInv, ShownIsSound, GoodRun, GoodRunner, GoodItems, NothingShownTwice
<1> QED
  BY <1>1, ConversationIsSound, PTL

-----------------------------------------------------------------------------
(***************************************************************************)
(* One agent behind the Agent Client Protocol, for any turns, asks and number of     *)
(* notifications.                                                          *)
(***************************************************************************)

(***************************************************************************)
(* The inductive invariant: the types that the proofs need, the runtime's queue, *)
(* where each turn is, and who waits for an answer.                           *)
(***************************************************************************)

AgentCommands == {<<"send", t>> : t \in Turns} \cup {<<"mode", "plan">>}

StateTyped ==
  /\ phase \in {"scheduled", "initialize", "load", "new", "mode", "ready", "failed"}
  /\ proc \in {"none", "alive", "dead", "killed"} /\ closed \in BOOLEAN
  /\ offer \in Agent!Offers \cup {None}
  /\ settledAs \in {"pending", "accepted", "declined"}
TurnsTyped ==
  /\ commands \in Seq(AgentCommands)
  /\ sent \subseteq Turns /\ DOMAIN running \subseteq sent /\ DOMAIN ranIn \subseteq sent
  /\ ends \in [Turns -> Seq({"ok", "empty", "error"})]
OutputTyped == updates \in Nat /\ output \in 0..updates
AsksTyped ==
  /\ cards \subseteq Asks /\ allowed \subseteq Asks
  /\ DOMAIN waits \subseteq Asks /\ DOMAIN answers \subseteq Asks
Typed == StateTyped /\ TurnsTyped /\ OutputTyped /\ AsksTyped

(* The queue is for the time before the handle: it is empty once there is one,   *)
(* and when the session was closed.                                         *)
QueueIsForTheStart == phase = "ready" \/ closed => commands = <<>>

(* A turn that is queued was sent, and one that was not sent has no end.         *)
SentIsWhatMoves ==
  /\ Agent!Queued \subseteq sent
  /\ \A t \in Turns \ sent : ends[t] = <<>>

(* The mode is settled when the session is ready and not before; the agent is not *)
(* in the mode it opened in once it took another, and is asked for no such mode.  *)
ModesAreKnown ==
  /\ phase = "ready" <=> settledAs # "pending"
  /\ wanted # None => wanted # Agent!Own
  /\ Agent!Own \notin sets
  /\ settledAs = "accepted" => agentMode # Agent!Own

AgentInv ==
  /\ Typed
  /\ QueueIsForTheStart
  /\ SentIsWhatMoves
  /\ ModesAreKnown
  /\ Agent!ModeBeforePrompt
  /\ Agent!TurnsEndOnce
  /\ Agent!AsksAreHonoured
  /\ Agent!AgentIsHeld
-----------------------------------------------------------------------------
(* A set of numbers has a least one.                                         *)
LEMMA LeastOf ==
  ASSUME NEW S, S \subseteq Nat, S # {}
  PROVE Agent!Min(S) \in S
<1> DEFINE less == OpToRel(<, Nat)
<1>1. IsWellFoundedOn(less, Nat)
  BY NatLessThanWellFounded
<1>2. \A x, y \in Nat : y < x => <<y, x>> \in less
  <2> SUFFICES ASSUME NEW x \in Nat, NEW y \in Nat, y < x
               PROVE <<y, x>> \in less
    OBVIOUS
  <2> DEFINE pair == <<y, x>>
  <2>1. pair \in Nat \X Nat /\ pair[1] < pair[2]
    OBVIOUS
  <2>2. pair \in {ss \in Nat \X Nat : ss[1] < ss[2]}
    <3> HIDE DEF pair
    <3> QED
      BY <2>1
  <2> QED
    BY <2>2, Zenon DEF OpToRel
<1> HIDE DEF less
<1>3. PICK x \in S : \A y \in S : ~ (<<y, x>> \in less)
  BY <1>1, WFMin
<1>4. \A y \in S : ~ (y < x)
  BY <1>2, <1>3, Zenon
<1>5. \A y \in S : x <= y
  BY <1>4
<1> QED
  BY <1>5, Zenon DEF Agent!Min

(* pickAcpModeId finds a candidate, or nothing: never the mode the agent opens in. *)
LEMMA PickedIsKnown ==
  ASSUME NEW mode, NEW ids, Agent!PickMode(mode, ids) # None
  PROVE Agent!PickMode(mode, ids) # Agent!Own
<1> DEFINE known == Agent!Candidates(mode)
           hits == {i \in 1..Len(known) : known[i] \in ids}
<1>1. Len(known) \in 1..7 /\ \A i \in 1..Len(known) : known[i] # Agent!Own
  BY DEF Agent!Candidates, Agent!Own
<1>2. Agent!PickMode(mode, ids) = IF (IF hits # {} THEN Agent!Min(hits) ELSE 0) = 0 THEN None
                            ELSE known[IF hits # {} THEN Agent!Min(hits) ELSE 0]
  BY DEF Agent!PickMode, Agent!SelectInSeq
<1>3. hits # {} => Agent!Min(hits) \in hits
  <2> HIDE DEF known
  <2>1. hits \subseteq Nat
    BY <1>1
  <2> QED
    BY <2>1, LeastOf
<1> HIDE DEF known
<1> QED
  BY <1>1, <1>2, <1>3

(* So nothing is asked of the agent by that name.                              *)
LEMMA RequestsAreKnown ==
  ASSUME NEW ms
  PROVE Agent!Own \notin Agent!SetRequests(ms)
<1> SUFFICES ASSUME NEW m \in ms, Agent!PickMode(m, offer.ids) # None
             PROVE Agent!PickMode(m, offer.ids) # Agent!Own
  BY Zenon DEF Agent!SetRequests
<1> QED
  BY PickedIsKnown

(* Of the turns handed over, those the agent can take are the ones that run.       *)
LEMMA PromptsRun ==
  ASSUME NEW ts, NEW mode, Agent!Prompts(ts, mode)
  PROVE /\ DOMAIN running' = DOMAIN running \cup {t \in ts : ~Agent!Blank(t)}
        /\ DOMAIN ranIn' = DOMAIN ranIn \cup {t \in ts : ~Agent!Blank(t)}
        /\ \A t \in DOMAIN ranIn' :
             (t \in DOMAIN ranIn /\ ranIn'[t] = ranIn[t]) \/ ranIn'[t] = mode
<1> USE DEF Agent!Prompts
<1>1. DOMAIN running' = DOMAIN running \cup {t \in ts : ~Agent!Blank(t)}
  OBVIOUS
<1>2. DOMAIN ranIn' = DOMAIN ranIn \cup {t \in ts : ~Agent!Blank(t)}
  OBVIOUS
<1>3. \A t \in DOMAIN ranIn' :
        (t \in DOMAIN ranIn /\ ranIn'[t] = ranIn[t]) \/ ranIn'[t] = mode
  OBVIOUS
<1> QED
  BY <1>1, <1>2, <1>3

(* A command that is appended is in the queue, with those that were.              *)
LEMMA AppendsOne ==
  ASSUME NEW S, NEW q \in Seq(S), NEW c \in S
  PROVE Append(q, c) \in Seq(S) /\ Agent!ToSet(Append(q, c)) = Agent!ToSet(q) \cup {c}
<1>1. Append(q, c) \in Seq(S)
  OBVIOUS
<1>2. Agent!ToSet(Append(q, c)) = Agent!ToSet(q) \cup {c}
  <2> DEFINE r == Append(q, c)
  <2>1. /\ Len(q) \in Nat /\ DOMAIN q = 1..Len(q) /\ DOMAIN r = 1..(Len(q) + 1)
        /\ r[Len(q) + 1] = c /\ \A i \in 1..Len(q) : r[i] = q[i]
    OBVIOUS
  <2> HIDE DEF r
  <2> QED
    BY <2>1 DEF Agent!ToSet
<1> QED
  BY <1>1, <1>2


-----------------------------------------------------------------------------
(***************************************************************************)
(* The invariant holds before the child is spawned, and every action keeps it:  *)
(* one lemma for each, and in it one step for each part it can disturb.        *)
(***************************************************************************)
USE DEF Agent!starting, Agent!modes, Agent!turns, Agent!asks

(* Nothing was sent, asked or closed yet.                                     *)
LEMMA AgentInvInit == Agent!AgentInit => AgentInv
<1> SUFFICES ASSUME Agent!AgentInit PROVE AgentInv
  OBVIOUS
<1> USE DEF Agent!AgentInit
<1>1. Typed
  <2>1. StateTyped
    BY DEF StateTyped
  <2>2. TurnsTyped
    BY DEF TurnsTyped
  <2>3. OutputTyped /\ AsksTyped
    BY DEF OutputTyped, AsksTyped
  <2> QED
    BY <2>1, <2>2, <2>3 DEF Typed
<1>2. QueueIsForTheStart /\ SentIsWhatMoves
  BY DEF QueueIsForTheStart, SentIsWhatMoves, Agent!Queued, Agent!ToSet
<1>3. ModesAreKnown /\ Agent!ModeBeforePrompt
  BY DEF ModesAreKnown, Agent!ModeBeforePrompt
<1>4. Agent!TurnsEndOnce
  BY DEF Agent!TurnsEndOnce
<1>5. Agent!AsksAreHonoured /\ Agent!AgentIsHeld
  BY DEF Agent!AsksAreHonoured, Agent!AgentIsHeld, Agent!Handle, Agent!Starting
<1> QED
  BY <1>1, <1>2, <1>3, <1>4, <1>5 DEF AgentInv

(* The child is spawned, or is not.                                          *)
LEMMA ConnectsKeeps ==
  ASSUME AgentInv, NEW spawned \in BOOLEAN, Agent!Connects(spawned)
  PROVE AgentInv'
<1> USE DEF AgentInv, Typed, Agent!Connects, Agent!StartFails
<1>1. StateTyped'
  BY DEF StateTyped
<1>2. QueueIsForTheStart'
  BY DEF QueueIsForTheStart, StateTyped
<1>3. Agent!TurnsEndOnce'
  BY DEF Agent!TurnsEndOnce, Agent!Queued, Agent!ToSet, Agent!Blank, StateTyped
<1>4. ModesAreKnown'
  BY DEF ModesAreKnown, Agent!SetRequests, StateTyped
<1>5. Agent!AgentIsHeld'
  BY DEF Agent!AgentIsHeld, Agent!Handle, Agent!Starting, StateTyped
<1>6. (OutputTyped /\ AsksTyped /\ Agent!ModeBeforePrompt)'
  BY DEF OutputTyped, AsksTyped, Agent!ModeBeforePrompt, StateTyped
<1>7. (TurnsTyped /\ SentIsWhatMoves)'
  <2>1. commands' = commands \/ commands' = <<>>
    OBVIOUS
  <2>2. UNCHANGED <<sent, running, ranIn, ends>>
    OBVIOUS
  <2>3. commands' \in Seq(AgentCommands)
    <3>1. commands \in Seq(AgentCommands)
      BY DEF TurnsTyped
    <3>2. <<>> \in Seq(AgentCommands)
      OBVIOUS
    <3> QED
      BY <2>1, <3>1, <3>2, Zenon
  <2>4. Agent!Queued' \subseteq Agent!Queued
    BY <2>1 DEF Agent!Queued, Agent!ToSet
  <2>5. TurnsTyped'
    BY <2>2, <2>3 DEF TurnsTyped
  <2>6. SentIsWhatMoves'
    BY <2>2, <2>4 DEF SentIsWhatMoves
  <2> QED
    BY <2>5, <2>6
<1>8. Agent!AsksAreHonoured'
  BY DEF Agent!AsksAreHonoured, StateTyped
<1> QED
  BY <1>1, <1>2, <1>3, <1>4, <1>5, <1>6, <1>7, <1>8

(* The handshake is accepted, or the start has failed.                       *)
LEMMA InitializesKeeps ==
  ASSUME AgentInv, NEW accepted \in BOOLEAN, NEW resume \in BOOLEAN,
         Agent!Initializes(accepted, resume)
  PROVE AgentInv'
<1> USE DEF AgentInv, Typed, Agent!Initializes, Agent!StartFails
<1>1. StateTyped'
  BY DEF StateTyped
<1>2. QueueIsForTheStart'
  BY DEF QueueIsForTheStart, StateTyped
<1>3. Agent!TurnsEndOnce'
  BY DEF Agent!TurnsEndOnce, Agent!Queued, Agent!ToSet, Agent!Blank, StateTyped
<1>4. ModesAreKnown'
  BY DEF ModesAreKnown, Agent!SetRequests, StateTyped
<1>5. Agent!AgentIsHeld'
  BY DEF Agent!AgentIsHeld, Agent!Handle, Agent!Starting, StateTyped
<1>6. (OutputTyped /\ AsksTyped /\ Agent!ModeBeforePrompt)'
  BY DEF OutputTyped, AsksTyped, Agent!ModeBeforePrompt, StateTyped
<1>7. (TurnsTyped /\ SentIsWhatMoves)'
  <2>1. commands' = commands \/ commands' = <<>>
    OBVIOUS
  <2>2. UNCHANGED <<sent, running, ranIn, ends>>
    OBVIOUS
  <2>3. commands' \in Seq(AgentCommands)
    <3>1. commands \in Seq(AgentCommands)
      BY DEF TurnsTyped
    <3>2. <<>> \in Seq(AgentCommands)
      OBVIOUS
    <3> QED
      BY <2>1, <3>1, <3>2, Zenon
  <2>4. Agent!Queued' \subseteq Agent!Queued
    BY <2>1 DEF Agent!Queued, Agent!ToSet
  <2>5. TurnsTyped'
    BY <2>2, <2>3 DEF TurnsTyped
  <2>6. SentIsWhatMoves'
    BY <2>2, <2>4 DEF SentIsWhatMoves
  <2> QED
    BY <2>5, <2>6
<1>8. Agent!AsksAreHonoured'
  BY DEF Agent!AsksAreHonoured, StateTyped
<1> QED
  BY <1>1, <1>2, <1>3, <1>4, <1>5, <1>6, <1>7, <1>8

(* The session is loaded or made; what the agent offers is known from here on.*)
LEMMA OpensKeeps ==
  ASSUME AgentInv, NEW accepted \in BOOLEAN, NEW o \in Agent!Offers, NEW mode, Agent!Opens(accepted,
         o, mode)
  PROVE AgentInv'
<1> USE DEF AgentInv, Typed, Agent!Opens, Agent!StartFails
<1>1. StateTyped'
  BY DEF StateTyped
<1>2. QueueIsForTheStart'
  BY DEF QueueIsForTheStart, StateTyped
<1>3. Agent!TurnsEndOnce'
  BY DEF Agent!TurnsEndOnce, Agent!Queued, Agent!ToSet, Agent!Blank, StateTyped
<1>4. ModesAreKnown'
  <2>1. Agent!PickMode(mode, o.ids) # None => Agent!PickMode(mode, o.ids) # Agent!Own
    BY PickedIsKnown
  <2> QED
    BY <2>1, Zenon DEF ModesAreKnown
<1>5. Agent!AgentIsHeld'
  BY DEF Agent!AgentIsHeld, Agent!Handle, Agent!Starting, StateTyped
<1>6. (OutputTyped /\ AsksTyped /\ Agent!ModeBeforePrompt)'
  BY DEF OutputTyped, AsksTyped, Agent!ModeBeforePrompt, StateTyped
<1>7. (TurnsTyped /\ SentIsWhatMoves)'
  <2>1. commands' = commands \/ commands' = <<>>
    OBVIOUS
  <2>2. UNCHANGED <<sent, running, ranIn, ends>>
    OBVIOUS
  <2>3. commands' \in Seq(AgentCommands)
    <3>1. commands \in Seq(AgentCommands)
      BY DEF TurnsTyped
    <3>2. <<>> \in Seq(AgentCommands)
      OBVIOUS
    <3> QED
      BY <2>1, <3>1, <3>2, Zenon
  <2>4. Agent!Queued' \subseteq Agent!Queued
    BY <2>1 DEF Agent!Queued, Agent!ToSet
  <2>5. TurnsTyped'
    BY <2>2, <2>3 DEF TurnsTyped
  <2>6. SentIsWhatMoves'
    BY <2>2, <2>4 DEF SentIsWhatMoves
  <2> QED
    BY <2>5, <2>6
<1>8. Agent!AsksAreHonoured'
  BY DEF Agent!AsksAreHonoured, StateTyped
<1> QED
  BY <1>1, <1>2, <1>3, <1>4, <1>5, <1>6, <1>7, <1>8

(* The mode is settled: the queue goes to the agent, or the agent is killed. *)
LEMMA SettlesKeeps ==
  ASSUME AgentInv, NEW accepted \in BOOLEAN, Agent!Settles(accepted)
  PROVE AgentInv'
<1> USE DEF AgentInv, Typed, Agent!Settles, Agent!Flush, Agent!Prompts
<1>1. StateTyped'
  BY DEF StateTyped
<1>2. TurnsTyped'
  <2> HIDE DEF Agent!Prompts
  <2>1. DOMAIN running' \subseteq sent /\ DOMAIN ranIn' \subseteq sent
    <3>1. CASE closed
      BY <3>1 DEF TurnsTyped
    <3>2. CASE ~closed
      BY <3>2, PromptsRun DEF TurnsTyped, SentIsWhatMoves
    <3> QED
      BY <3>1, <3>2
  <2>2. commands' \in Seq(AgentCommands)
    <3>1. commands \in Seq(AgentCommands) /\ (commands' = commands \/ commands' = <<>>)
      BY Zenon DEF TurnsTyped
    <3>2. <<>> \in Seq(AgentCommands)
      OBVIOUS
    <3> QED
      BY <3>1, <3>2, Zenon
  <2>3. ends' = ends /\ sent' = sent
    OBVIOUS
  <2> QED
    BY <2>1, <2>2, <2>3 DEF TurnsTyped
<1>3. QueueIsForTheStart'
  BY DEF QueueIsForTheStart, StateTyped
<1>4. SentIsWhatMoves'
  BY DEF SentIsWhatMoves, Agent!Queued, Agent!ToSet, StateTyped
<1>5. Agent!TurnsEndOnce'
  BY DEF Agent!TurnsEndOnce, Agent!Queued, Agent!ToSet, Agent!Blank, StateTyped, TurnsTyped,
       AgentCommands,
         QueueIsForTheStart, SentIsWhatMoves
<1>6. ModesAreKnown'
  <2>1. Agent!Own \notin sets'
    BY RequestsAreKnown DEF ModesAreKnown
  <2> QED
    BY <2>1 DEF ModesAreKnown, StateTyped
<1>7. Agent!ModeBeforePrompt'
  BY DEF Agent!ModeBeforePrompt, StateTyped, TurnsTyped, AgentCommands, ModesAreKnown,
       Agent!SetRequests
<1>8. Agent!AgentIsHeld'
  BY DEF Agent!AgentIsHeld, Agent!Handle, Agent!Starting, StateTyped
<1>9. (OutputTyped /\ AsksTyped /\ Agent!AsksAreHonoured)'
  BY DEF OutputTyped, AsksTyped, Agent!AsksAreHonoured
<1> QED
  BY <1>1, <1>2, <1>3, <1>4, <1>5, <1>6, <1>7, <1>8, <1>9

(* A turn goes to the handle, or waits for one.                              *)
LEMMA TurnSendsKeeps ==
  ASSUME AgentInv, NEW t \in Turns, Agent!UserSends(t)
  PROVE AgentInv'
<1> USE DEF AgentInv, Typed, Agent!UserSends, Agent!Handle, Agent!Prompts
<1>1. TurnsTyped'
  <2> HIDE DEF Agent!Prompts
  <2>1. commands' \in Seq(AgentCommands)
    <3>1. commands \in Seq(AgentCommands) /\ <<"send", t>> \in AgentCommands
      BY DEF AgentCommands, TurnsTyped
    <3>2. Append(commands, <<"send", t>>) \in Seq(AgentCommands)
      BY <3>1, AppendsOne
    <3> QED
      BY <3>1, <3>2, Zenon
  <2>2. DOMAIN running' \subseteq sent' /\ DOMAIN ranIn' \subseteq sent'
    <3>1. CASE Agent!Handle
      BY <3>1, PromptsRun DEF TurnsTyped
    <3>2. CASE ~Agent!Handle
      BY <3>2 DEF TurnsTyped
    <3> QED
      BY <3>1, <3>2
  <2> QED
    BY <2>1, <2>2 DEF TurnsTyped
<1>2. QueueIsForTheStart'
  BY DEF QueueIsForTheStart, StateTyped
<1>3. SentIsWhatMoves'
  BY DEF SentIsWhatMoves, Agent!Queued, Agent!ToSet, StateTyped
<1>4. Agent!TurnsEndOnce'
  <2> HIDE DEF Agent!Prompts
  <2>1. ends[t] = <<>> /\ Agent!Blank(t) = (Agent!Blank(t))'
    BY Zenon DEF SentIsWhatMoves, Agent!Blank
  <2>2. CASE Agent!Handle
    <3>1. DOMAIN running' = DOMAIN running \cup {u \in {t} : ~Agent!Blank(u)}
      BY <2>2, PromptsRun
    <3>2. Agent!Queued = {} /\ Agent!Queued' = {}
      BY <2>2 DEF QueueIsForTheStart, Agent!Queued, Agent!ToSet
    <3>3. \A u \in Turns : Agent!Blank(u) = (Agent!Blank(u))'
      BY DEF Agent!Blank
    <3> QED
      BY <2>1, <2>2, <3>1, <3>2, <3>3 DEF Agent!TurnsEndOnce, TurnsTyped
  <2>3. CASE ~Agent!Handle
    <3>1. Agent!Queued' = Agent!Queued \cup {t}
      <4>1. commands \in Seq(AgentCommands) /\ <<"send", t>> \in AgentCommands
        BY DEF AgentCommands, TurnsTyped
      <4>2. Agent!ToSet(commands') = Agent!ToSet(commands) \cup {<<"send", t>>}
        BY <2>3, <4>1, AppendsOne
      <4> QED
        BY <4>2 DEF Agent!Queued
    <3>2. running' = running /\ phase # "ready" /\ t \notin DOMAIN running
      BY <2>3 DEF TurnsTyped
    <3>3. \A u \in Turns : Agent!Blank(u) = (Agent!Blank(u))'
      BY Zenon DEF Agent!Blank
    <3> QED
      BY <2>1, <3>1, <3>2, <3>3 DEF Agent!TurnsEndOnce, TurnsTyped
  <2> QED
    BY <2>2, <2>3
<1>5. Agent!ModeBeforePrompt'
  BY DEF Agent!ModeBeforePrompt, StateTyped, TurnsTyped, AgentCommands, ModesAreKnown,
       Agent!SetRequests
<1>6. (StateTyped /\ OutputTyped /\ AsksTyped /\ ModesAreKnown /\ Agent!AsksAreHonoured /\
       Agent!AgentIsHeld)'
  BY DEF StateTyped, OutputTyped, AsksTyped, ModesAreKnown, Agent!AsksAreHonoured,
         Agent!AgentIsHeld, Agent!Handle, Agent!Starting, Agent!SetRequests
<1> QED
  BY <1>1, <1>2, <1>3, <1>4, <1>5, <1>6

(* A mode goes the same way, and no turn with it.                            *)
LEMMA UserSetsModeKeeps ==
  ASSUME AgentInv, Agent!UserSetsMode("plan")
  PROVE AgentInv'
<1> USE DEF AgentInv, Typed, Agent!UserSetsMode, Agent!Handle
<1>1. TurnsTyped'
  <2>1. commands' \in Seq(AgentCommands)
    <3>1. <<"mode", "plan">> \in AgentCommands
      BY DEF AgentCommands
    <3> QED
      BY <3>1, AppendsOne DEF TurnsTyped
  <2> QED
    BY <2>1 DEF TurnsTyped
<1>2. QueueIsForTheStart'
  BY DEF QueueIsForTheStart, StateTyped
<1>3. SentIsWhatMoves'
  BY DEF SentIsWhatMoves, Agent!Queued, Agent!ToSet, StateTyped
<1>4. Agent!TurnsEndOnce'
  BY DEF Agent!TurnsEndOnce, Agent!Queued, Agent!ToSet, Agent!Blank, StateTyped
<1>5. ModesAreKnown'
  BY RequestsAreKnown DEF ModesAreKnown
<1>6. (StateTyped /\ OutputTyped /\ AsksTyped /\ Agent!ModeBeforePrompt /\ Agent!AsksAreHonoured
       /\ Agent!AgentIsHeld)'
  BY DEF StateTyped, OutputTyped, AsksTyped, Agent!ModeBeforePrompt, Agent!AsksAreHonoured,
         Agent!AgentIsHeld, Agent!Handle, Agent!Starting
<1> QED
  BY <1>1, <1>2, <1>3, <1>4, <1>5, <1>6

(* A mode request is answered.                                               *)
LEMMA AgentAnswersModeKeeps ==
  ASSUME AgentInv, NEW id \in sets, NEW accepted \in BOOLEAN, Agent!AgentAnswersMode(id,
         accepted)
  PROVE AgentInv'
<1> USE DEF AgentInv, Typed, Agent!AgentAnswersMode
<1>1. ModesAreKnown'
  BY DEF ModesAreKnown, Agent!SetRequests, StateTyped
<1>2. (StateTyped /\ TurnsTyped /\ OutputTyped /\ AsksTyped /\ QueueIsForTheStart /\
       SentIsWhatMoves /\ Agent!TurnsEndOnce /\ Agent!ModeBeforePrompt /\ Agent!AsksAreHonoured /\
       Agent!AgentIsHeld)'
  BY DEF StateTyped, TurnsTyped, OutputTyped, AsksTyped, QueueIsForTheStart,
         SentIsWhatMoves, Agent!TurnsEndOnce, Agent!ModeBeforePrompt, Agent!AsksAreHonoured,
         Agent!AgentIsHeld, Agent!Handle, Agent!Starting, AgentCommands, Agent!Queued, Agent!ToSet, Agent!Blank
<1> QED
  BY <1>1, <1>2

(* The first answer to a card is told to the agent.                          *)
LEMMA UserAnswersKeeps ==
  ASSUME AgentInv, NEW a \in cards, NEW answer \in Agent!AnswersTo(a), Agent!UserAnswers(a, answer)
  PROVE AgentInv'
<1> USE DEF AgentInv, Typed, Agent!UserAnswers
<1>1. AsksTyped'
  BY DEF AsksTyped, StateTyped
<1>2. Agent!AsksAreHonoured'
  <2> SUFFICES ASSUME answers'[a] \in {"allow_once", "allow_always"}
               PROVE a \in allowed'
    BY DEF Agent!AsksAreHonoured
  <2>1. CASE waits[a] = Agent!Elicitation
    BY <2>1 DEF Agent!Respond
  <2>2. CASE waits[a] # Agent!Elicitation
    <3>1. answer \in Agent!Decisions /\ answers'[a] = Agent!PickOption(answer, waits[a])
      BY <2>2 DEF Agent!AnswersTo
    <3>2. answer # "deny"
      BY <3>1 DEF Agent!PickOption, Agent!Preference
    <3> QED
      BY <3>1, <3>2 DEF Agent!Decisions
  <2> QED
    BY <2>1, <2>2
<1>3. (StateTyped /\ TurnsTyped /\ OutputTyped /\ QueueIsForTheStart /\
       SentIsWhatMoves /\ Agent!TurnsEndOnce /\ ModesAreKnown /\ Agent!ModeBeforePrompt /\
       Agent!AgentIsHeld)'
  BY DEF StateTyped, TurnsTyped, OutputTyped, QueueIsForTheStart, SentIsWhatMoves,
         Agent!TurnsEndOnce, ModesAreKnown, Agent!ModeBeforePrompt, Agent!AgentIsHeld, Agent!Handle, Agent!Starting,
         AgentCommands, Agent!Queued,
         Agent!ToSet, Agent!Blank, Agent!SetRequests
<1> QED
  BY <1>1, <1>2, <1>3

(* A close empties the queue, forgets the cards and kills what it can.       *)
LEMMA ClosesKeeps ==
  ASSUME AgentInv, Agent!Closes
  PROVE AgentInv'
<1> USE DEF AgentInv, Typed, Agent!Closes, Agent!Handle
<1>1. StateTyped'
  BY DEF StateTyped
<1>2. TurnsTyped'
  BY DEF TurnsTyped, AgentCommands, StateTyped
<1>3. AsksTyped'
  BY DEF AsksTyped, StateTyped
<1>4. QueueIsForTheStart'
  BY DEF QueueIsForTheStart, StateTyped
<1>5. SentIsWhatMoves'
  BY DEF SentIsWhatMoves, Agent!Queued, Agent!ToSet, StateTyped
<1>6. Agent!TurnsEndOnce'
  BY DEF Agent!TurnsEndOnce, Agent!Queued, Agent!ToSet, Agent!Blank, StateTyped
<1>7. Agent!AsksAreHonoured'
  BY DEF Agent!AsksAreHonoured, StateTyped
<1>8. Agent!AgentIsHeld'
  BY DEF Agent!AgentIsHeld, Agent!Handle, Agent!Starting, StateTyped
<1>9. (OutputTyped /\ ModesAreKnown /\ Agent!ModeBeforePrompt)'
  BY DEF OutputTyped, ModesAreKnown, Agent!ModeBeforePrompt, Agent!SetRequests
<1> QED
  BY <1>1, <1>2, <1>3, <1>4, <1>5, <1>6, <1>7, <1>8, <1>9

(* A notification produces output, or does not.                              *)
LEMMA AgentUpdatesKeeps ==
  ASSUME AgentInv, NEW n \in Agent!Notifications, Agent!AgentUpdates(n)
  PROVE AgentInv'
<1> USE DEF AgentInv, Typed, Agent!AgentUpdates, Agent!Registered
<1>1. OutputTyped'
  BY DEF OutputTyped, StateTyped
<1>2. (StateTyped /\ TurnsTyped /\ AsksTyped /\ QueueIsForTheStart /\ SentIsWhatMoves
       /\ Agent!TurnsEndOnce /\ ModesAreKnown /\ Agent!ModeBeforePrompt /\ Agent!AsksAreHonoured /\
       Agent!AgentIsHeld)'
  BY DEF StateTyped, TurnsTyped, AsksTyped, QueueIsForTheStart, SentIsWhatMoves,
         Agent!TurnsEndOnce, ModesAreKnown, Agent!ModeBeforePrompt, Agent!AsksAreHonoured,
         Agent!AgentIsHeld, Agent!Handle, Agent!Starting,
         AgentCommands, Agent!Queued, Agent!ToSet, Agent!Blank, Agent!SetRequests
<1> QED
  BY <1>1, <1>2

(* A request gets a card, or is declined when nobody listens yet.            *)
LEMMA AgentAsksKeeps ==
  ASSUME AgentInv, NEW a \in Asks, NEW asking \in Agent!OptionSets \cup {Agent!Elicitation},
         Agent!AgentAsks(a, asking)
  PROVE AgentInv'
<1> USE DEF AgentInv, Typed, Agent!AgentAsks, Agent!Registered
<1>1. AsksTyped'
  BY DEF AsksTyped, StateTyped
<1>2. Agent!AsksAreHonoured'
  BY DEF Agent!AsksAreHonoured, StateTyped
<1>3. (StateTyped /\ TurnsTyped /\ OutputTyped /\ QueueIsForTheStart /\
       SentIsWhatMoves /\ Agent!TurnsEndOnce /\ ModesAreKnown /\ Agent!ModeBeforePrompt /\
       Agent!AgentIsHeld)'
  BY DEF StateTyped, TurnsTyped, OutputTyped, QueueIsForTheStart, SentIsWhatMoves,
         Agent!TurnsEndOnce, ModesAreKnown, Agent!ModeBeforePrompt, Agent!AgentIsHeld, Agent!Handle, Agent!Starting,
         AgentCommands, Agent!Queued,
         Agent!ToSet, Agent!Blank, Agent!SetRequests
<1> QED
  BY <1>1, <1>2, <1>3

(* A prompt that ends runs no more.                                          *)
LEMMA PromptEndsKeeps ==
  ASSUME AgentInv, NEW t \in Turns, NEW reason \in {"end_turn", "cancelled", "refusal",
         "rejected"}, Agent!PromptEnds(t, reason)
  PROVE AgentInv'
<1> USE DEF AgentInv, Typed, Agent!PromptEnds, Agent!EndOf
<1>1. TurnsTyped'
  BY DEF TurnsTyped, AgentCommands, StateTyped
<1>2. SentIsWhatMoves'
  BY DEF SentIsWhatMoves, Agent!Queued, Agent!ToSet, StateTyped, TurnsTyped, AgentCommands
<1>3. Agent!TurnsEndOnce'
  BY DEF Agent!TurnsEndOnce, Agent!Queued, Agent!ToSet, Agent!Blank, StateTyped, TurnsTyped,
       AgentCommands,
         QueueIsForTheStart, SentIsWhatMoves
<1>4. (StateTyped /\ OutputTyped /\ AsksTyped /\ QueueIsForTheStart /\ ModesAreKnown
       /\ Agent!ModeBeforePrompt /\ Agent!AsksAreHonoured /\ Agent!AgentIsHeld)'
  BY DEF StateTyped, OutputTyped, AsksTyped, QueueIsForTheStart, ModesAreKnown,
         Agent!ModeBeforePrompt, Agent!AsksAreHonoured, Agent!AgentIsHeld, Agent!Handle, Agent!Starting, Agent!SetRequests
<1> QED
  BY <1>1, <1>2, <1>3, <1>4

(* The child exits.                                                          *)
LEMMA AgentDiesKeeps ==
  ASSUME AgentInv, Agent!AgentDies
  PROVE AgentInv'
<1> USE DEF AgentInv, Typed, Agent!AgentDies
<1>1. StateTyped'
  BY DEF StateTyped
<1>2. Agent!AgentIsHeld'
  BY DEF Agent!AgentIsHeld, Agent!Handle, Agent!Starting, StateTyped
<1>3. (TurnsTyped /\ OutputTyped /\ AsksTyped /\ QueueIsForTheStart /\ SentIsWhatMoves
       /\ Agent!TurnsEndOnce /\ ModesAreKnown /\ Agent!ModeBeforePrompt /\ Agent!AsksAreHonoured)'
  BY DEF TurnsTyped, OutputTyped, AsksTyped, QueueIsForTheStart, SentIsWhatMoves,
         Agent!TurnsEndOnce, ModesAreKnown, Agent!ModeBeforePrompt, Agent!AsksAreHonoured,
         AgentCommands,
         Agent!Queued, Agent!ToSet, Agent!Blank, Agent!SetRequests
<1> QED
  BY <1>1, <1>2, <1>3
(* A step of another component changes nothing here.                            *)
LEMMA AgentStutterKeeps ==
  ASSUME AgentInv, UNCHANGED Agent!agentVars
  PROVE AgentInv'
<1> USE DEF AgentInv, Typed, Agent!agentVars
<1>1. Typed'
  BY DEF Typed, StateTyped, TurnsTyped, OutputTyped, AsksTyped
<1>2. (QueueIsForTheStart /\ SentIsWhatMoves)'
  BY DEF QueueIsForTheStart, SentIsWhatMoves, Agent!Queued
<1>3. (ModesAreKnown /\ Agent!ModeBeforePrompt)'
  BY DEF ModesAreKnown, Agent!ModeBeforePrompt
<1>4. Agent!TurnsEndOnce'
  BY DEF Agent!TurnsEndOnce, Agent!Queued, Agent!Blank
<1>5. (Agent!AsksAreHonoured /\ Agent!AgentIsHeld)'
  BY DEF Agent!AsksAreHonoured, Agent!AgentIsHeld, Agent!Handle, Agent!Starting
<1> QED
  BY <1>1, <1>2, <1>3, <1>4, <1>5

-----------------------------------------------------------------------------
(***************************************************************************)
(* What holds of every session.                                             *)
(***************************************************************************)
(* The runtime and the agent keep the inductive invariant.                       *)
THEOREM AgentIsAccountedFor == Agent!AgentSpec => []AgentInv
<1>1. AgentInv /\ [Agent!AgentNext]_Agent!agentVars => AgentInv'
  <2> SUFFICES ASSUME AgentInv, [Agent!AgentNext]_Agent!agentVars PROVE AgentInv'
    OBVIOUS
  <2>1. ASSUME NEW spawned \in BOOLEAN, Agent!Connects(spawned)
        PROVE AgentInv'
    BY <2>1, ConnectsKeeps
  <2>2. ASSUME NEW accepted \in BOOLEAN, NEW resume \in BOOLEAN,
               Agent!Initializes(accepted, resume)
        PROVE AgentInv'
    BY <2>2, InitializesKeeps
  <2>3. ASSUME NEW accepted \in BOOLEAN, NEW o \in Agent!Offers,
               NEW mode \in {"manual", "bypass"}, Agent!Opens(accepted, o, mode)
        PROVE AgentInv'
    BY <2>3, OpensKeeps
  <2>4. ASSUME NEW accepted \in BOOLEAN, Agent!Settles(accepted)
        PROVE AgentInv'
    BY <2>4, SettlesKeeps
  <2>5. ASSUME NEW t \in Turns, Agent!UserSends(t)
        PROVE AgentInv'
    BY <2>5, TurnSendsKeeps
  <2>6. ASSUME NEW id \in sets, NEW accepted \in BOOLEAN, Agent!AgentAnswersMode(id, accepted)
        PROVE AgentInv'
    BY <2>6, AgentAnswersModeKeeps
  <2>7. ASSUME NEW a \in cards, NEW answer \in Agent!AnswersTo(a), Agent!UserAnswers(a, answer)
        PROVE AgentInv'
    BY <2>7, UserAnswersKeeps
  <2>8. ASSUME NEW n \in Agent!Notifications, Agent!AgentUpdates(n)
        PROVE AgentInv'
    BY <2>8, AgentUpdatesKeeps
  <2>9. ASSUME NEW a \in Asks, NEW asking \in Agent!OptionSets \cup {Agent!Elicitation},
               Agent!AgentAsks(a, asking)
        PROVE AgentInv'
    BY <2>9, AgentAsksKeeps
  <2>10. ASSUME NEW t \in Turns,
                NEW reason \in {"end_turn", "cancelled", "refusal", "rejected"},
                Agent!PromptEnds(t, reason)
         PROVE AgentInv'
    BY <2>10, PromptEndsKeeps
  <2>11. CASE Agent!UserSetsMode("plan") \/ Agent!Closes \/ Agent!AgentDies
    BY <2>11, UserSetsModeKeeps, ClosesKeeps, AgentDiesKeeps
  <2>12. CASE UNCHANGED Agent!agentVars
    BY <2>12, AgentStutterKeeps
  <2> HIDE DEF Agent!starting, Agent!modes, Agent!turns, Agent!asks
  <2> QED
    BY <2>1, <2>2, <2>3, <2>4, <2>5, <2>6, <2>7, <2>8, <2>9, <2>10, <2>11, <2>12, Zenon
       DEF Agent!AgentNext
<1> QED
  BY <1>1, AgentInvInit, PTL DEF Agent!AgentSpec

(* The variables have their types, and no more output is counted than there were  *)
(* notifications.                                                           *)
THEOREM AgentTyped ==
  ASSUME MaxUpdates \in Nat
  PROVE Agent!AgentSpec => []Agent!AgentTypeOK
<1> DEFINE Bounded == updates \in 0..MaxUpdates
<1>1. Agent!AgentInit => Bounded
  BY DEF Agent!AgentInit
<1>2. Bounded /\ [Agent!AgentNext]_Agent!agentVars => Bounded'
  <2> SUFFICES ASSUME Bounded, [Agent!AgentNext]_Agent!agentVars PROVE Bounded'
    OBVIOUS
  <2>1. ASSUME NEW n \in Agent!Notifications, Agent!AgentUpdates(n)
        PROVE Bounded'
    BY <2>1 DEF Agent!AgentUpdates
  <2>2. CASE UNCHANGED updates
    BY <2>2
  <2>3. UNCHANGED updates \/ \E n \in Agent!Notifications : Agent!AgentUpdates(n)
    BY Zenon DEF Agent!AgentNext, Agent!agentVars, Agent!Connects, Agent!Initializes,
         Agent!Opens, Agent!Settles, Agent!UserSends,
       Agent!UserSetsMode, Agent!AgentAnswersMode, Agent!UserAnswers, Agent!Closes,
       Agent!AgentAsks, Agent!PromptEnds,
       Agent!AgentDies
  <2> QED
    BY <2>1, <2>2, <2>3, Zenon
<1>3. AgentInv /\ Bounded => Agent!AgentTypeOK
  BY DEF AgentInv, Typed, StateTyped, TurnsTyped, OutputTyped, AsksTyped, Agent!AgentTypeOK
<1> QED
  BY <1>1, <1>2, <1>3, AgentIsAccountedFor, PTL DEF Agent!AgentSpec

(* No prompt runs before the mode asked for is settled, and none in the mode the   *)
(* agent opened in if it took that mode (adapter.ts 153-178).                   *)
THEOREM AgentModeComesFirst == Agent!AgentSpec => []Agent!ModeBeforePrompt
<1>1. AgentInv => Agent!ModeBeforePrompt
  BY DEF AgentInv
<1> QED
  BY <1>1, AgentIsAccountedFor, PTL

(* Every turn handed to the runtime waits, runs or ends, and ends once             *)
(* (runtime.ts, the queue; adapter.ts, runPrompt).                             *)
THEOREM AgentTurnsEndOnce == Agent!AgentSpec => []Agent!TurnsEndOnce
<1>1. AgentInv => Agent!TurnsEndOnce
  BY DEF AgentInv
<1> QED
  BY <1>1, AgentIsAccountedFor, PTL

(* The agent is told yes only on the user's decision, and a request it waits on has *)
(* its card (runtime.ts, respondApproval; permission-outcome.ts).                *)
THEOREM AgentAsksAreHonoured == Agent!AgentSpec => []Agent!AsksAreHonoured
<1>1. AgentInv => Agent!AsksAreHonoured
  BY DEF AgentInv
<1> QED
  BY <1>1, AgentIsAccountedFor, PTL

(* An agent that lives is held by its handle, by its start, or its start failed after  *)
(* the spawn (runtime.ts, the close of a handle that comes late).                 *)
THEOREM HeldAgent == Agent!AgentSpec => []Agent!AgentIsHeld
<1>1. AgentInv => Agent!AgentIsHeld
  BY DEF AgentInv
<1> QED
  BY <1>1, AgentIsAccountedFor, PTL

HIDE DEF Agent!starting, Agent!modes, Agent!turns, Agent!asks

-----------------------------------------------------------------------------
(***************************************************************************)
(* What this says of the composition that the runs check, where a session, its agent *)
(* and its settings each take their turn.                                     *)
(***************************************************************************)

(* Whatever is in focus, the agent's variables start and move as those of an agent  *)
(* session, or rest.                                                         *)
LEMMA AgentMoves == MCSpec => Agent!AgentSpec
<1>1. MCInit => Agent!AgentInit
  BY DEF MCInit
<1>2. [MCNext]_<<focus, convVars, agentVars, settingsVars>>
        => [Agent!AgentNext]_Agent!agentVars
  BY Zenon
  DEF MCNext, LogGrows, agentVars, Agent!agentVars,
      Agent!starting, Agent!modes, Agent!turns, Agent!asks
<1> QED
  BY <1>1, <1>2, PTL DEF MCSpec, Agent!AgentSpec

(* Every turn handed to the runtime waits, runs or ends, and ends once, however the  *)
(* agent answers, refuses or dies (driver-runtime/src/runtime.ts, the queue;          *)
(* driver-acp/src/adapter.ts, runPrompt).                                      *)
THEOREM RunTurnsEndOnce == MCSpec => []TurnsEndOnce
BY AgentMoves, AgentTurnsEndOnce, PTL DEF TurnsEndOnce

(* A permission is granted only by the user's decision, and a request the agent waits *)
(* on has its card (runtime.ts, respondApproval; permission-outcome.ts).             *)
THEOREM RunAsksAreHonoured == MCSpec => []AsksAreHonoured
BY AgentMoves, AgentAsksAreHonoured, PTL DEF AsksAreHonoured

(* An agent that lives is held by its handle, by its start, which ends it when the     *)
(* session was closed meanwhile, or its start failed after the spawn (runtime.ts, the   *)
(* close of a handle that comes late).                                          *)
THEOREM RunAgentIsHeld == MCSpec => []AgentIsHeld
BY AgentMoves, HeldAgent, PTL DEF AgentIsHeld

-----------------------------------------------------------------------------
(***************************************************************************)
(* The reducer over a whole log: FoldLeft is a recursive function over sets of    *)
(* positions. That there is one is an induction on the length of the log.        *)
(***************************************************************************)
(* Induction: a property of no number has no least counterexample.                 *)
LEMMA NoLeast ==
  ASSUME NEW S, S \subseteq Nat, \A n \in S : \E m \in S : m < n
  PROVE  S = {}
<1> DEFINE less == OpToRel(<, Nat)
<1>1. IsWellFoundedOn(less, Nat)
  BY NatLessThanWellFounded
<1>2. \A x, y \in Nat : y < x => <<y, x>> \in less
  <2> SUFFICES ASSUME NEW x \in Nat, NEW y \in Nat, y < x
               PROVE <<y, x>> \in less
    OBVIOUS
  <2> DEFINE pair == <<y, x>>
  <2>1. pair \in Nat \X Nat /\ pair[1] < pair[2]
    OBVIOUS
  <2>2. pair \in {ss \in Nat \X Nat : ss[1] < ss[2]}
    <3> HIDE DEF pair
    <3> QED
      BY <2>1
  <2> QED
    BY <2>2, Zenon DEF OpToRel
<1> HIDE DEF less
<1>3. SUFFICES ASSUME S # {} PROVE FALSE
  OBVIOUS
<1>4. PICK x \in S : \A y \in S : ~ (<<y, x>> \in less)
  BY <1>1, <1>3, WFMin
<1> QED
  BY <1>2, <1>4

(* The function that FoldLeft computes over the first n events of a log.             *)
IsIter(it, base, s, n) ==
  it = [t \in SUBSET (1..n) |-> IF t = {} THEN base ELSE Reduce(it[t \ {Max(t)}], s[Max(t)])]

LEMMA MaxOf ==
  ASSUME NEW n \in Nat, NEW t \in SUBSET (1..(n + 1)), n + 1 \in t
  PROVE  Max(t) = n + 1
<1>1. \A y \in t : n + 1 >= y
  OBVIOUS
<1>2. \A x \in t : (\A y \in t : x >= y) => x = n + 1
  OBVIOUS
<1>3. Max(t) \in t /\ \A y \in t : Max(t) >= y
  BY <1>1, Zenon DEF Max
<1> QED
  BY <1>2, <1>3

LEMMA MaxIn ==
  ASSUME NEW n \in Nat, NEW t \in SUBSET (1..n), t # {}
  PROVE  Max(t) \in t /\ \A x \in t : x <= Max(t)
<1> DEFINE above == {m \in Nat : \A x \in t : x <= m}
           P(m) == m \in above
<1>1. n \in above
  OBVIOUS
<1>2. \E m \in above : \A k \in above : m <= k
  <2> SUFFICES ASSUME \A m \in above : \E k \in above : k < m PROVE FALSE
    OBVIOUS
  <2> HIDE DEF above
  <2>1. above \subseteq Nat
    BY DEF above
  <2> QED
    BY <2>1, <1>1, NoLeast
<1>3. PICK m \in above : \A k \in above : m <= k
  BY <1>2
<1>4. m \in t
  <2> SUFFICES ASSUME m \notin t PROVE FALSE
    OBVIOUS
  <2>1. PICK x \in t : TRUE
    OBVIOUS
  <2>2. m \in Nat /\ x \in Nat /\ x < m /\ x >= 1
    BY <1>3, <2>1
  <2>3. m - 1 \in above
    BY <2>2, <1>3
  <2> QED
    BY <2>2, <2>3, <1>3
<1>5. \A x \in t : x <= m
  BY <1>3
<1> QED
  BY <1>4, <1>5 DEF Max

(* There is such a function: it is made longer one event at a time.                  *)
LEMMA IterExtends ==
  ASSUME NEW base, NEW s, NEW n \in Nat, NEW it, IsIter(it, base, s, n)
  PROVE  \E new : IsIter(new, base, s, n + 1)
<1> DEFINE new == [t \in SUBSET (1..(n + 1)) |->
                     IF n + 1 \in t THEN Reduce(it[t \ {n + 1}], s[n + 1]) ELSE it[t]]
<1>1. ASSUME NEW t \in SUBSET (1..(n + 1))
      PROVE  new[t] = IF t = {} THEN base ELSE Reduce(new[t \ {Max(t)}], s[Max(t)])
  <2>1. CASE n + 1 \in t
    <3>1. Max(t) = n + 1
      BY <2>1, MaxOf
    <3>2. t \ {n + 1} \in SUBSET (1..(n + 1)) /\ n + 1 \notin t \ {n + 1}
      OBVIOUS
    <3>3. new[t] = Reduce(it[t \ {n + 1}], s[n + 1])
      BY <2>1
    <3>4. new[t \ {n + 1}] = it[t \ {n + 1}]
      BY <3>2
    <3> HIDE DEF new
    <3> QED
      BY <2>1, <3>1, <3>3, <3>4
  <2>2. CASE n + 1 \notin t
    <3>1. t \in SUBSET (1..n)
      BY <2>2
    <3>2. new[t] = it[t]
      BY <2>2
    <3>3. it[t] = IF t = {} THEN base ELSE Reduce(it[t \ {Max(t)}], s[Max(t)])
      BY <3>1 DEF IsIter
    <3>4. t \ {Max(t)} \in SUBSET (1..(n + 1)) /\ n + 1 \notin t \ {Max(t)}
      BY <2>2
    <3>5. new[t \ {Max(t)}] = it[t \ {Max(t)}]
      BY <3>4
    <3> HIDE DEF new
    <3> QED
      BY <3>2, <3>3, <3>5
  <2> QED
    BY <2>1, <2>2
<1>2. DOMAIN new = SUBSET (1..(n + 1)) /\ new = [t \in SUBSET (1..(n + 1)) |-> new[t]]
  OBVIOUS
<1> HIDE DEF new
<1>3. IsIter(new, base, s, n + 1)
  BY <1>1, <1>2, Zenon DEF IsIter
<1> QED
  BY <1>3

LEMMA IterExists ==
  ASSUME NEW base, NEW s, NEW n \in Nat
  PROVE  \E it : IsIter(it, base, s, n)
<1> DEFINE Lacks == {k \in Nat : ~ \E it : IsIter(it, base, s, k)}
<1>1. 0 \notin Lacks
  <2> DEFINE it == [t \in SUBSET (1..0) |-> base]
  <2>1. \A t \in SUBSET (1..0) : t = {}
    OBVIOUS
  <2>2. it = [t \in SUBSET (1..0) |-> IF t = {} THEN base ELSE Reduce(it[t \ {Max(t)}], s[Max(t)])]
    BY <2>1
  <2> HIDE DEF it
  <2> QED
    BY <2>2 DEF IsIter
<1>2. \A k \in Lacks : \E m \in Lacks : m < k
  <2> SUFFICES ASSUME NEW k \in Lacks PROVE \E m \in Lacks : m < k
    OBVIOUS
  <2>1. k \in Nat /\ k # 0 /\ k - 1 \in Nat
    BY <1>1
  <2>2. ~ \E it : IsIter(it, base, s, (k - 1) + 1)
    BY <2>1
  <2>3. ~ \E it : IsIter(it, base, s, k - 1)
    BY <2>1, <2>2, IterExtends
  <2>4. k - 1 \in Lacks
    BY <2>1, <2>3
  <2> QED
    BY <2>1, <2>4
<1>3. Lacks = {}
  <2>1. Lacks \subseteq Nat
    OBVIOUS
  <2> HIDE DEF Lacks
  <2> QED
    BY <1>2, <2>1, NoLeast
<1> QED
  BY <1>3

(* The fold of a log is where the reducer gets, event by event.                      *)
IsRun(v, base, s) ==
  /\ v[0] = base
  /\ \A k \in 1..Len(s) : v[k] = Reduce(v[k - 1], s[k])
LEMMA FoldIsRun ==
  ASSUME NEW base, NEW S, NEW s \in Seq(S)
  PROVE  \E v : IsRun(v, base, s) /\ FoldLeft(Reduce, base, s) = v[Len(s)]
<1> DEFINE n == Len(s)
           it == CHOOSE f : IsIter(f, base, s, n)
           v == [k \in 0..n |-> it[1..k]]
<1>1. n \in Nat /\ DOMAIN s = 1..n
  OBVIOUS
<1>2. FoldLeft(Reduce, base, s) = it[1..n]
  BY <1>1 DEF FoldLeft, MapThenFoldSet, IsIter
<1> HIDE DEF it
<1>3. IsIter(it, base, s, n)
  BY <1>1, IterExists, Zenon DEF it
<1> HIDE DEF n
<1>4. v[0] = base
  BY <1>1, <1>3 DEF IsIter
<1>5. ASSUME NEW k \in 1..n
      PROVE  v[k] = Reduce(v[k - 1], s[k])
  <2>1. 1..k \in SUBSET (1..n) /\ 1..k # {} /\ (1..k) \ {k} = 1..(k - 1)
    BY <1>1
  <2>2. Max(1..k) = k
    <3>1. k - 1 \in Nat /\ 1..k \in SUBSET (1..((k - 1) + 1)) /\ (k - 1) + 1 \in 1..k /\ (k - 1) + 1 = k
      BY <1>1
    <3> QED
      BY <3>1, MaxOf
  <2>3. it[1..k] = Reduce(it[1..(k - 1)], s[k])
    BY <1>3, <2>1, <2>2 DEF IsIter
  <2>4. v[k] = it[1..k] /\ v[k - 1] = it[1..(k - 1)]
    BY <1>1
  <2> QED
    BY <2>3, <2>4
<1>6. v[n] = it[1..n]
  BY <1>1
<1> HIDE DEF v
<1> QED
  BY <1>2, <1>4, <1>5, <1>6 DEF IsRun, n
-----------------------------------------------------------------------------
(* Views whose items are sequences, each identified one once; and a view that goes   *)
(* on from another.                                                           *)
IsRecord(x) == x = [kind |-> x.kind, id |-> x.id, text |-> x.text, status |-> x.status]
IsSeq(q) == q \in Seq({q[i] : i \in DOMAIN q})
IsView(v) ==
  /\ v = [root |-> v.root, runners |-> v.runners]
  /\ v.runners = [r \in DOMAIN v.runners |-> v.runners[r]]
  /\ \A r \in DOMAIN v.runners :
       /\ v.runners[r] = [status |-> v.runners[r].status, items |-> v.runners[r].items]
       /\ IsSeq(v.runners[r].items)
       /\ \A i \in DOMAIN v.runners[r].items : IsRecord(v.runners[r].items[i])
       /\ EachOnce(v.runners[r].items)
Grows(v, w) ==
  /\ DOMAIN v.runners \subseteq DOMAIN w.runners
  /\ \A r \in DOMAIN v.runners : Continues(v.runners[r].items, w.runners[r].items)

LEMMA SeqFacts ==
  ASSUME NEW q, IsSeq(q)
  PROVE  Len(q) \in Nat /\ DOMAIN q = 1..Len(q) /\ q = [i \in DOMAIN q |-> q[i]]
BY DEF IsSeq

LEMMA SeqOfFunction ==
  ASSUME NEW n \in Nat, NEW q, DOMAIN q = 1..n, q = [i \in DOMAIN q |-> q[i]]
  PROVE  IsSeq(q) /\ Len(q) = n
<1> DEFINE R == {q[i] : i \in DOMAIN q}
<1>1. q \in [1..n -> R]
  OBVIOUS
<1> HIDE DEF R
<1>2. q \in Seq(R) /\ Len(q) = n
  BY <1>1
<1> QED
  BY <1>2 DEF IsSeq, R

LEMMA SeqAppended ==
  ASSUME NEW q, IsSeq(q), NEW x
  PROVE  /\ IsSeq(Append(q, x)) /\ Len(Append(q, x)) = Len(q) + 1
         /\ \A i \in 1..Len(q) : Append(q, x)[i] = q[i]
         /\ Append(q, x)[Len(q) + 1] = x
<1> DEFINE R == {q[i] : i \in DOMAIN q} \cup {x}
           new == Append(q, x)
<1>1. q \in Seq(R)
  BY DEF IsSeq
<1> HIDE DEF R
<1>2. x \in R
  BY DEF R
<1>3. /\ new \in Seq(R) /\ Len(new) = Len(q) + 1
      /\ \A i \in 1..Len(q) : new[i] = q[i]
      /\ new[Len(q) + 1] = x
  BY <1>1, <1>2
<1>4. Len(q) \in Nat
  BY <1>1
<1> HIDE DEF new
<1>5. Len(new) \in Nat /\ DOMAIN new = 1..Len(new) /\ new = [i \in DOMAIN new |-> new[i]]
  BY <1>3
<1>6. IsSeq(new)
  BY <1>5, SeqOfFunction
<1> QED
  BY <1>3, <1>6 DEF new

LEMMA GrowsTwice ==
  ASSUME NEW u, NEW v, NEW w, IsView(u), IsView(v), IsView(w), Grows(u, v), Grows(v, w)
  PROVE  Grows(u, w)
<1> SUFFICES ASSUME NEW r \in DOMAIN u.runners
             PROVE  Continues(u.runners[r].items, w.runners[r].items)
  BY DEF Grows
<1>1. r \in DOMAIN v.runners /\ r \in DOMAIN w.runners
  BY DEF Grows
<1>2. /\ Continues(u.runners[r].items, v.runners[r].items)
      /\ Continues(v.runners[r].items, w.runners[r].items)
  BY <1>1 DEF Grows
<1>3. IsSeq(u.runners[r].items) /\ IsSeq(v.runners[r].items) /\ IsSeq(w.runners[r].items)
  BY <1>1 DEF IsView
<1> QED
  BY <1>2, <1>3, SeqFacts DEF Continues

LEMMA GrowsNot ==
  ASSUME NEW v, IsView(v)
  PROVE  Grows(v, v)
BY SeqFacts DEF IsView, Grows, Continues

(* The items of one runner change.                                            *)
LEMMA RunnerChanges ==
  ASSUME NEW v, IsView(v), NEW r \in DOMAIN v.runners, NEW status, NEW items,
         IsSeq(items), Continues(v.runners[r].items, items), EachOnce(items),
         \A i \in DOMAIN items : IsRecord(items[i])
  PROVE  LET w == WithRunner(v, r, [status |-> status, items |-> items]) IN
         IsView(w) /\ Grows(v, w)
<1> DEFINE x == [status |-> status, items |-> items]
           rs == [q \in DOMAIN v.runners \cup {r} |-> IF q = r THEN x ELSE v.runners[q]]
           w == WithRunner(v, r, x)
<1>1. w = [root |-> v.root, runners |-> rs]
  BY DEF WithRunner, IsView
<1>2. w.root = v.root /\ w.runners = rs /\ w = [root |-> w.root, runners |-> w.runners]
  BY <1>1
<1>3. DOMAIN rs = DOMAIN v.runners /\ rs = [q \in DOMAIN rs |-> rs[q]]
  OBVIOUS
<1>4. rs[r] = x /\ \A q \in DOMAIN v.runners : q # r => rs[q] = v.runners[q]
  OBVIOUS
<1>5. x.status = status /\ x.items = items /\ x = [status |-> x.status, items |-> x.items]
  OBVIOUS
<1> HIDE DEF rs, w, x
<1>6. IsView(w)
  BY <1>2, <1>3, <1>4, <1>5 DEF IsView
<1>7. Grows(v, w)
  <2>1. \A q \in DOMAIN v.runners : q # r => Continues(v.runners[q].items, v.runners[q].items)
    BY GrowsNot DEF Grows
  <2>2. DOMAIN v.runners \subseteq DOMAIN w.runners /\ w.runners = rs
    BY <1>2, <1>3
  <2> QED
    BY <1>4, <1>5, <2>1, <2>2 DEF Grows
<1> QED
  BY <1>6, <1>7 DEF w, x

(* Items that keep their identities are each there once still.                     *)
LEMMA SameIdentities ==
  ASSUME NEW items, IsSeq(items), EachOnce(items), NEW changed,
         changed = [i \in DOMAIN items |-> changed[i]],
         \A i \in DOMAIN items : Identity(changed[i]) = Identity(items[i])
  PROVE  IsSeq(changed) /\ EachOnce(changed) /\ Continues(items, changed)
<1>1. DOMAIN changed = DOMAIN items
  OBVIOUS
<1>2. Len(items) \in Nat /\ DOMAIN items = 1..Len(items)
  BY SeqFacts
<1>3. IsSeq(changed) /\ Len(changed) = Len(items)
  BY <1>1, <1>2, SeqOfFunction
<1> QED
  BY <1>1, <1>2, <1>3 DEF EachOnce, Continues

(* A runner, if there is that runner, gets other items.                            *)
WithItems(v, r, items) ==
  IF r \in DOMAIN v.runners
  THEN WithRunner(v, r, [status |-> v.runners[r].status, items |-> items]) ELSE v
LEMMA ItemsMapped ==
  ASSUME NEW v, IsView(v), NEW r, NEW items
  PROVE  (IF r \in DOMAIN v.runners
          THEN WithRunner(v, r, [v.runners[r] EXCEPT !.items = items]) ELSE v)
           = WithItems(v, r, items)
<1> SUFFICES ASSUME r \in DOMAIN v.runners
             PROVE  [v.runners[r] EXCEPT !.items = items]
                      = [status |-> v.runners[r].status, items |-> items]
  BY DEF WithItems
<1> QED
  BY DEF IsView
LEMMA ItemIsAdded ==
  ASSUME NEW v, IsView(v), NEW r, NEW item
  PROVE  AddItem(v, r, item) = WithItems(v, r, Append(Items(v, r), item))
<1>1. CASE r \notin DOMAIN v.runners
  BY <1>1 DEF AddItem, MapItems, WithItems
<1>2. CASE r \in DOMAIN v.runners
  <2> DEFINE items == Append(v.runners[r].items, item)
  <2>1. AddItem(v, r, item) = WithRunner(v, r, [v.runners[r] EXCEPT !.items = items])
    BY <1>2 DEF AddItem, MapItems
  <2>2. Items(v, r) = v.runners[r].items
    BY <1>2 DEF Items
  <2> HIDE DEF items
  <2>3. AddItem(v, r, item) = WithItems(v, r, items)
    BY <1>2, <2>1, ItemsMapped
  <2> QED
    BY <2>2, <2>3 DEF items
<1> QED
  BY <1>1, <1>2

(* An item is added that is not there, or has no identity.                        *)
LEMMA ItemAdded ==
  ASSUME NEW v, IsView(v), NEW r, NEW item, IsRecord(item),
         HasIdentity(Identity(item)) => ~HasItem(Items(v, r), item.kind, item.id)
  PROVE  IsView(AddItem(v, r, item)) /\ Grows(v, AddItem(v, r, item))
<1>1. CASE r \notin DOMAIN v.runners
  BY <1>1, GrowsNot DEF AddItem, MapItems
<1>2. CASE r \in DOMAIN v.runners
  <2> DEFINE items == v.runners[r].items
             new == Append(items, item)
             status == v.runners[r].status
  <2>1. v.runners[r] = [status |-> status, items |-> items] /\ IsSeq(items) /\ EachOnce(items)
    BY <1>2 DEF IsView
  <2>2. AddItem(v, r, item) = WithRunner(v, r, [status |-> status, items |-> new])
    BY <1>2, ItemIsAdded DEF WithItems, Items
  <2>3. Items(v, r) = items
    BY <1>2 DEF Items
  <2>4. \A i \in DOMAIN items : IsRecord(items[i])
    BY <1>2 DEF IsView
  <2> HIDE DEF items, status, new
  <2>5. /\ IsSeq(new) /\ Len(new) = Len(items) + 1
        /\ \A i \in 1..Len(items) : new[i] = items[i]
        /\ new[Len(items) + 1] = item
    BY <2>1, SeqAppended DEF new
  <2>6. /\ Len(items) \in Nat /\ DOMAIN items = 1..Len(items) /\ DOMAIN new = 1..(Len(items) + 1)
    BY <2>1, <2>5, SeqFacts
  <2>7. Continues(items, new)
    BY <2>5, <2>6 DEF Continues
  <2>8. HasIdentity(Identity(item)) => \A i \in DOMAIN items : Identity(items[i]) # Identity(item)
    BY <2>3 DEF HasItem, IsItem, Identity
  <2>9. EachOnce(new)
    BY <2>1, <2>5, <2>6, <2>8 DEF EachOnce
  <2>10. \A i \in DOMAIN new : IsRecord(new[i])
    BY <2>4, <2>5, <2>6
  <2> QED
    BY <1>2, <2>2, <2>5, <2>7, <2>9, <2>10, RunnerChanges DEF items
<1> QED
  BY <1>1, <1>2

(* Items of a runner change, and keep their identities.                            *)
LEMMA ItemsChanged ==
  ASSUME NEW v, IsView(v), NEW r, NEW changed,
         changed = [i \in DOMAIN Items(v, r) |-> changed[i]],
         \A i \in DOMAIN Items(v, r) :
           IsRecord(changed[i]) /\ Identity(changed[i]) = Identity(Items(v, r)[i])
  PROVE  IsView(WithItems(v, r, changed)) /\ Grows(v, WithItems(v, r, changed))
<1>1. CASE r \notin DOMAIN v.runners
  BY <1>1, GrowsNot DEF WithItems
<1>2. CASE r \in DOMAIN v.runners
  <2> DEFINE items == v.runners[r].items
             status == v.runners[r].status
  <2>1. v.runners[r] = [status |-> status, items |-> items] /\ IsSeq(items) /\ EachOnce(items)
    BY <1>2 DEF IsView
  <2>2. WithItems(v, r, changed) = WithRunner(v, r, [status |-> status, items |-> changed])
    BY <1>2 DEF WithItems
  <2>3. Items(v, r) = items
    BY <1>2 DEF Items
  <2> HIDE DEF items, status
  <2>4. IsSeq(changed) /\ EachOnce(changed) /\ Continues(items, changed)
    BY <2>1, <2>3, SameIdentities
  <2>5. \A i \in DOMAIN changed : IsRecord(changed[i])
    BY <2>3
  <2> QED
    BY <1>2, <2>2, <2>4, <2>5, RunnerChanges DEF items
<1> QED
  BY <1>1, <1>2

(* The items of a runner, or none.                                             *)
LEMMA ItemsOf ==
  ASSUME NEW v, IsView(v), NEW r
  PROVE  /\ IsSeq(Items(v, r)) /\ EachOnce(Items(v, r))
         /\ \A i \in DOMAIN Items(v, r) : IsRecord(Items(v, r)[i])
<1>1. CASE r \in DOMAIN v.runners
  BY <1>1 DEF Items, IsView
<1>2. CASE r \notin DOMAIN v.runners
  BY <1>2 DEF Items, IsSeq, EachOnce
<1> QED
  BY <1>1, <1>2

(* What the cases of the reducer do to an item: it keeps its identity.               *)
LEMMA TextChanged ==
  ASSUME NEW x, IsRecord(x), NEW text
  PROVE  LET y == [x EXCEPT !.text = text] IN IsRecord(y) /\ Identity(y) = Identity(x)
<1> DEFINE y == [kind |-> x.kind, id |-> x.id, text |-> text, status |-> x.status]
<1>1. [x EXCEPT !.text = text] = y
  BY DEF IsRecord
<1>2. IsRecord(y) /\ y.kind = x.kind /\ y.id = x.id
  BY DEF IsRecord
<1> HIDE DEF y
<1> QED
  BY <1>1, <1>2 DEF Identity
LEMMA StatusChanged ==
  ASSUME NEW x, IsRecord(x), NEW status
  PROVE  LET y == [x EXCEPT !.status = status] IN IsRecord(y) /\ Identity(y) = Identity(x)
<1> DEFINE y == [kind |-> x.kind, id |-> x.id, text |-> x.text, status |-> status]
<1>1. [x EXCEPT !.status = status] = y
  BY DEF IsRecord
<1>2. IsRecord(y) /\ y.kind = x.kind /\ y.id = x.id
  BY DEF IsRecord
<1> HIDE DEF y
<1> QED
  BY <1>1, <1>2 DEF Identity
LEMMA ItemIsNew ==
  ASSUME NEW kind, NEW id, NEW text
  PROVE  /\ IsRecord(Item(kind, id, text)) /\ Identity(Item(kind, id, text)) = <<kind, id>>
         /\ Item(kind, id, text).kind = kind /\ Item(kind, id, text).id = id
BY DEF IsRecord, Item, Identity

-----------------------------------------------------------------------------
(* Event by event, the reducer goes on from the view it has.                        *)
Onwards(v, w) == IsView(w) /\ Grows(v, w)

LEMMA TextDeltaOnwards ==
  ASSUME NEW v, IsView(v), NEW e
  PROVE  Onwards(v, TextDelta(v, e))
<1> DEFINE items == Items(v, e.runner)
<1>0. \A i \in DOMAIN items : IsRecord(items[i])
  BY ItemsOf
<1>1. CASE HasItem(items, "message", e.id)
  <2> DEFINE changed == [i \in DOMAIN items |-> IF IsItem(items[i], "message", e.id)
                                                THEN AppendChunk(items[i], e.text) ELSE items[i]]
  <2>1. \A i \in DOMAIN items : IsRecord(changed[i]) /\ Identity(changed[i]) = Identity(items[i])
    BY <1>0, TextChanged DEF AppendChunk
  <2>2. TextDelta(v, e) = WithItems(v, e.runner, changed)
    BY <1>1 DEF TextDelta, MapItem, MapItems, Items, WithItems, IsView
  <2> HIDE DEF changed
  <2>3. changed = [i \in DOMAIN items |-> changed[i]]
    BY DEF changed
  <2> QED
    BY <2>1, <2>2, <2>3, ItemsChanged DEF Onwards
<1>2. CASE ~HasItem(items, "message", e.id)
  BY <1>2, ItemIsNew, ItemAdded DEF TextDelta, Onwards
<1> QED
  BY <1>1, <1>2

LEMMA ReasoningDeltaOnwards ==
  ASSUME NEW v, IsView(v), NEW e
  PROVE  Onwards(v, ReasoningDelta(v, e))
<1> DEFINE items == Items(v, e.runner)
<1>0. \A i \in DOMAIN items : IsRecord(items[i])
  BY ItemsOf
<1>1. CASE HasItem(items, "reasoning", e.id)
  <2> DEFINE changed == [i \in DOMAIN items |-> IF IsItem(items[i], "reasoning", e.id)
                                                THEN [items[i] EXCEPT !.text = @ \o e.text] ELSE items[i]]
  <2>1. \A i \in DOMAIN items : IsRecord(changed[i]) /\ Identity(changed[i]) = Identity(items[i])
    BY <1>0, TextChanged
  <2>2. ReasoningDelta(v, e) = WithItems(v, e.runner, changed)
    <3>1. ReasoningDelta(v, e) = IF e.runner \in DOMAIN v.runners
          THEN WithRunner(v, e.runner, [v.runners[e.runner] EXCEPT !.items = changed])
          ELSE v
      BY <1>1 DEF ReasoningDelta, MapItem, MapItems, Items, IsView
    <3> HIDE DEF changed
    <3> QED
      BY <3>1, ItemsMapped
  <2> HIDE DEF changed
  <2>3. changed = [i \in DOMAIN items |-> changed[i]]
    BY DEF changed
  <2> QED
    BY <2>1, <2>2, <2>3, ItemsChanged DEF Onwards
<1>2. CASE ~HasItem(items, "reasoning", e.id)
  BY <1>2, ItemIsNew, ItemAdded DEF ReasoningDelta, Onwards
<1> QED
  BY <1>1, <1>2

LEMMA PlanUpdateOnwards ==
  ASSUME NEW v, IsView(v), NEW e
  PROVE  Onwards(v, PlanUpdate(v, e))
<1> DEFINE items == Items(v, e.runner)
<1>0. \A i \in DOMAIN items : IsRecord(items[i])
  BY ItemsOf
<1>1. CASE HasItem(items, "plan", e.id)
  <2> DEFINE changed == [i \in DOMAIN items |-> IF IsItem(items[i], "plan", e.id)
                                                THEN Item("plan", e.id, e.text) ELSE items[i]]
  <2>1. \A i \in DOMAIN items : IsRecord(changed[i]) /\ Identity(changed[i]) = Identity(items[i])
    BY <1>0, ItemIsNew DEF IsItem, Identity
  <2>2. PlanUpdate(v, e) = WithItems(v, e.runner, changed)
    BY <1>1 DEF PlanUpdate, MapItem, MapItems, Items, WithItems, IsView
  <2> HIDE DEF changed
  <2>3. changed = [i \in DOMAIN items |-> changed[i]]
    BY DEF changed
  <2> QED
    BY <2>1, <2>2, <2>3, ItemsChanged DEF Onwards
<1>2. CASE ~HasItem(items, "plan", e.id)
  BY <1>2, ItemIsNew, ItemAdded DEF PlanUpdate, Onwards
<1> QED
  BY <1>1, <1>2

LEMMA AddOnceOnwards ==
  ASSUME NEW v, IsView(v), NEW e, NEW kind
  PROVE  Onwards(v, AddOnce(v, e, kind))
<1>1. CASE HasItem(Items(v, e.runner), kind, e.id)
  BY <1>1, GrowsNot DEF AddOnce, Onwards
<1>2. CASE ~HasItem(Items(v, e.runner), kind, e.id)
  BY <1>2, ItemIsNew, ItemAdded DEF AddOnce, Onwards
<1> QED
  BY <1>1, <1>2

(* An item that is there gets a status, whoever asks for it.                        *)
WithStatus(v, r, kind, id, status) ==
  MapItem(v, r, kind, id, LAMBDA item : [item EXCEPT !.status = status])
LEMMA StatusOnwards ==
  ASSUME NEW v, IsView(v), NEW r, NEW kind, NEW id, NEW status
  PROVE  Onwards(v, WithStatus(v, r, kind, id, status))
<1> DEFINE items == Items(v, r)
           changed == [i \in DOMAIN items |-> IF IsItem(items[i], kind, id)
                                              THEN [items[i] EXCEPT !.status = status]
                                              ELSE items[i]]
<1>1. \A i \in DOMAIN items : IsRecord(changed[i]) /\ Identity(changed[i]) = Identity(items[i])
  BY ItemsOf, StatusChanged
<1>2. WithStatus(v, r, kind, id, status) = WithItems(v, r, changed)
  BY DEF WithStatus, MapItem, MapItems, Items, WithItems, IsView
<1> HIDE DEF changed
<1>3. changed = [i \in DOMAIN items |-> changed[i]]
  BY DEF changed
<1> QED
  BY <1>1, <1>2, <1>3, ItemsChanged DEF Onwards

LEMMA SettleOnwards ==
  ASSUME NEW v, IsView(v), NEW e, NEW kind
  PROVE  Onwards(v, Settle(v, e, kind))
<1>1. Settle(v, e, kind) = WithStatus(v, e.runner, kind, e.id, e.text)
  BY DEF Settle, WithStatus
<1> QED
  BY <1>1, StatusOnwards

LEMMA ToolOutputOnwards ==
  ASSUME NEW v, IsView(v), NEW e
  PROVE  Onwards(v, ToolOutput(v, e))
<1> DEFINE items == Items(v, e.runner)
           changed == [i \in DOMAIN items |-> IF IsItem(items[i], "tool-call", e.id)
                                              THEN [items[i] EXCEPT !.text = @ \o e.text]
                                              ELSE items[i]]
<1>1. \A i \in DOMAIN items : IsRecord(changed[i]) /\ Identity(changed[i]) = Identity(items[i])
  BY ItemsOf, TextChanged
<1>2. ToolOutput(v, e) = WithItems(v, e.runner, changed)
  <2>1. ToolOutput(v, e) = IF e.runner \in DOMAIN v.runners
        THEN WithRunner(v, e.runner, [v.runners[e.runner] EXCEPT !.items = changed])
        ELSE v
    BY DEF ToolOutput, MapItem, MapItems, Items, IsView
  <2> HIDE DEF changed
  <2> QED
    BY <2>1, ItemsMapped
<1> HIDE DEF changed
<1>3. changed = [i \in DOMAIN items |-> changed[i]]
  BY DEF changed
<1> QED
  BY <1>1, <1>2, <1>3, ItemsChanged DEF Onwards

(* The error of a turn: a message that is marked, or a row without an identity.       *)
LEMMA TurnFinishedOnwards ==
  ASSUME NEW v, IsView(v), NEW e
  PROVE  Onwards(v, TurnFinished(v, e))
<1> DEFINE items == Items(v, e.runner)
           error == Item("message", <<"turn-error", Len(items)>>, e.text)
           mark == [error EXCEPT !.status = "error"]
<1>1. CASE e.text = <<>>
  BY <1>1, GrowsNot DEF TurnFinished, Onwards
<1>2. CASE e.text # <<>> /\ HasItem(items, "message", e.id)
  <2>1. TurnFinished(v, e) = WithStatus(v, e.runner, "message", e.id, "error")
    BY <1>2 DEF TurnFinished, WithStatus
  <2> QED
    BY <2>1, StatusOnwards
<1>3. CASE e.text # <<>> /\ ~HasItem(items, "message", e.id)
  <2>1. IsRecord(mark) /\ Identity(mark) = <<"message", <<"turn-error", Len(items)>>>>
    BY ItemIsNew, StatusChanged
  <2>2. ~HasIdentity(Identity(mark))
    BY <2>1 DEF HasIdentity
  <2>3. TurnFinished(v, e) = AddItem(v, e.runner, mark)
    BY <1>3 DEF TurnFinished
  <2> QED
    BY <2>1, <2>2, <2>3, ItemAdded DEF Onwards
<1> QED
  BY <1>1, <1>2, <1>3

LEMMA RunnerFinishedOnwards ==
  ASSUME NEW v, IsView(v), NEW e
  PROVE  Onwards(v, RunnerFinished(v, e))
<1> DEFINE r == e.runner
<1>1. CASE r \notin DOMAIN v.runners
  BY <1>1, GrowsNot DEF RunnerFinished, Onwards
<1>2. CASE r \in DOMAIN v.runners
  <2> DEFINE items == v.runners[r].items
  <2>1. v.runners[r] = [status |-> v.runners[r].status, items |-> items]
    BY <1>2 DEF IsView
  <2>2. RunnerFinished(v, e) = WithRunner(v, r, [status |-> e.text, items |-> items])
    BY <1>2, <2>1 DEF RunnerFinished
  <2>3. IsSeq(items) /\ EachOnce(items) /\ \A i \in DOMAIN items : IsRecord(items[i])
    BY <1>2 DEF IsView
  <2>4. Continues(items, items)
    BY <2>3, SeqFacts DEF Continues
  <2> QED
    BY <1>2, <2>2, <2>3, <2>4, RunnerChanges DEF Onwards
<1> QED
  BY <1>1, <1>2

(* A runner that is not shown gets a place of its own.                              *)
LEMMA RunnerAdded ==
  ASSUME NEW v, IsView(v), NEW r, r \notin DOMAIN v.runners, NEW status, NEW items,
         IsSeq(items), EachOnce(items), \A i \in DOMAIN items : IsRecord(items[i])
  PROVE  Onwards(v, WithRunner(v, r, [status |-> status, items |-> items]))
<1> DEFINE x == [status |-> status, items |-> items]
           rs == [q \in DOMAIN v.runners \cup {r} |-> IF q = r THEN x ELSE v.runners[q]]
           w == WithRunner(v, r, x)
<1>1. w = [root |-> v.root, runners |-> rs]
  BY DEF WithRunner, IsView
<1>2. w.root = v.root /\ w.runners = rs /\ w = [root |-> w.root, runners |-> w.runners]
  BY <1>1
<1>3. DOMAIN rs = DOMAIN v.runners \cup {r} /\ rs = [q \in DOMAIN rs |-> rs[q]]
  OBVIOUS
<1>4. rs[r] = x /\ \A q \in DOMAIN v.runners : rs[q] = v.runners[q]
  OBVIOUS
<1>5. x.status = status /\ x.items = items /\ x = [status |-> x.status, items |-> x.items]
  OBVIOUS
<1> HIDE DEF rs, w, x
<1>6. IsView(w)
  BY <1>2, <1>3, <1>4, <1>5 DEF IsView
<1>7. Grows(v, w)
  BY <1>2, <1>3, <1>4, SeqFacts DEF IsView, Grows, Continues
<1> QED
  BY <1>6, <1>7 DEF w, x, Onwards

(* Another root is looked at.                                                  *)
LEMMA RootChanges ==
  ASSUME NEW v, NEW w, Onwards(v, w), NEW root
  PROVE  Onwards(v, [w EXCEPT !.root = root])
<1> DEFINE x == [root |-> root, runners |-> w.runners]
<1>1. [w EXCEPT !.root = root] = x
  BY DEF Onwards, IsView
<1>2. x.runners = w.runners /\ x.root = root /\ x = [root |-> x.root, runners |-> x.runners]
  OBVIOUS
<1> HIDE DEF x
<1>3. IsView(x) /\ Grows(v, x)
  BY <1>2 DEF Onwards, IsView, Grows
<1> QED
  BY <1>1, <1>3 DEF Onwards

LEMMA RunnerStartedOnwards ==
  ASSUME NEW v, IsView(v), NEW e
  PROVE  Onwards(v, RunnerStarted(v, e))
<1> DEFINE r == e.runner
           items == IF r \in DOMAIN v.runners THEN Items(v, r)
                    ELSE IF e.id = None THEN RootItems(v) ELSE <<>>
           started == WithRunner(v, r, [status |-> "running", items |-> items])
<1>1. IsSeq(items) /\ EachOnce(items) /\ \A i \in DOMAIN items : IsRecord(items[i])
  <2>1. IsSeq(<<>>) /\ EachOnce(<<>>) /\ DOMAIN <<>> = {}
    BY DEF IsSeq, EachOnce
  <2> QED
    BY <2>1, ItemsOf DEF RootItems
<1>2. RunnerStarted(v, e) = IF e.id = None THEN [started EXCEPT !.root = r]
                            ELSE MapItem(started, e.id, "tool-call", e.text,
                                         LAMBDA item : [item EXCEPT !.status = r])
  BY DEF RunnerStarted
<1>3. r \in DOMAIN v.runners => items = v.runners[r].items
  BY DEF Items
<1> HIDE DEF items
<1>4. Onwards(v, started)
  <2>1. CASE r \in DOMAIN v.runners
    <3>1. Continues(v.runners[r].items, items)
      BY <1>1, <1>3, <2>1, SeqFacts DEF Continues
    <3> QED
      BY <1>1, <2>1, <3>1, RunnerChanges DEF Onwards
  <2>2. CASE r \notin DOMAIN v.runners
    BY <1>1, <2>2, RunnerAdded
  <2> QED
    BY <2>1, <2>2
<1> HIDE DEF started
<1>5. CASE e.id = None
  BY <1>2, <1>4, <1>5, RootChanges
<1>6. CASE e.id # None
  <2> DEFINE w == WithStatus(started, e.id, "tool-call", e.text, r)
  <2>1. Onwards(started, w)
    BY <1>4, StatusOnwards DEF Onwards
  <2>2. RunnerStarted(v, e) = w
    BY <1>2, <1>6 DEF WithStatus
  <2> HIDE DEF w
  <2>3. Onwards(v, w)
    BY <1>4, <2>1, GrowsTwice DEF Onwards
  <2> QED
    BY <2>2, <2>3
<1> QED
  BY <1>5, <1>6

LEMMA ReduceOnwards ==
  ASSUME NEW v, IsView(v), NEW e
  PROVE  Onwards(v, Reduce(v, e))
<1>1. Onwards(v, v)
  BY GrowsNot DEF Onwards
<1> QED
  BY <1>1, TextDeltaOnwards, ReasoningDeltaOnwards, PlanUpdateOnwards, AddOnceOnwards,
     SettleOnwards, ToolOutputOnwards, TurnFinishedOnwards, RunnerFinishedOnwards,
     RunnerStartedOnwards
  DEF Reduce

(* So does a log, however long.                                                *)
LEMMA FoldOnwards ==
  ASSUME NEW v, IsView(v), NEW S, NEW s \in Seq(S)
  PROVE  Onwards(v, FoldLeft(Reduce, v, s))
<1>1. PICK u : IsRun(u, v, s) /\ FoldLeft(Reduce, v, s) = u[Len(s)]
  BY FoldIsRun
<1> DEFINE Fails == {k \in 0..Len(s) : ~Onwards(v, u[k])}
<1>2. \A k \in Fails : \E m \in Fails : m < k
  <2> SUFFICES ASSUME NEW k \in Fails PROVE \E m \in Fails : m < k
    OBVIOUS
  <2>1. Len(s) \in Nat /\ k \in 0..Len(s) /\ ~Onwards(v, u[k])
    OBVIOUS
  <2>2. k # 0
    BY <1>1, <2>1, GrowsNot DEF IsRun, Onwards
  <2>3. k \in 1..Len(s) /\ k - 1 \in 0..Len(s) /\ k - 1 < k
    BY <2>1, <2>2
  <2>4. u[k] = Reduce(u[k - 1], s[k])
    BY <1>1, <2>3 DEF IsRun
  <2>5. ~Onwards(v, u[k - 1])
    <3> SUFFICES ASSUME Onwards(v, u[k - 1]) PROVE FALSE
      OBVIOUS
    <3>1. Onwards(u[k - 1], u[k])
      BY <2>4, ReduceOnwards DEF Onwards
    <3> QED
      BY <2>1, <3>1, GrowsTwice DEF Onwards
  <2> QED
    BY <2>3, <2>5
<1>3. Fails = {}
  <2>1. Fails \subseteq Nat
    OBVIOUS
  <2> HIDE DEF Fails
  <2> QED
    BY <1>2, <2>1, NoLeast
<1>4. Len(s) \in 0..Len(s)
  OBVIOUS
<1> QED
  BY <1>1, <1>3, <1>4

(* The view there is at first.                                                  *)
LEMMA NoRunIsView == IsView(NoRun)
<1> DEFINE none == [r \in {} |-> None]
<1>1. NoRun.root = None /\ NoRun.runners = none /\ DOMAIN none = {}
      /\ NoRun = [root |-> None, runners |-> none] /\ none = [r \in {} |-> none[r]]
  BY DEF NoRun
<1> HIDE DEF none
<1> QED
  BY <1>1 DEF IsView

(* Whatever a log holds, replaying it keeps the order of what it made.               *)
LEMMA LogsReplay ==
  ASSUME NEW S, NEW s \in Seq(S)
  PROVE  ReplayKeeps(s)
<1> DEFINE once == Fold(s)
           twice == FoldLeft(Reduce, once, s)
<1>1. IsView(once)
  BY NoRunIsView, FoldOnwards DEF Fold, Onwards
<1> HIDE DEF once
<1>2. IsView(twice) /\ Grows(once, twice)
  BY <1>1, FoldOnwards DEF Onwards
<1> HIDE DEF twice
<1>3. \A r \in DOMAIN once.runners :
        Continues(once.runners[r].items, twice.runners[r].items)
        /\ EachOnce(twice.runners[r].items)
  BY <1>2 DEF Grows, IsView
<1> QED
  BY <1>3, Zenon DEF ReplayKeeps, once, twice

-----------------------------------------------------------------------------
(***************************************************************************)
(* What the run has of it: the conversation beside the others, and any log.       *)
(***************************************************************************)
RunInv ==
  /\ focus # "replay" => ConvInv
  /\ ConvTypeOK
  /\ store \in Seq(Logged \cup Catalogue)

LEMMA RunInvKept == MCSpec => []RunInv
<1> DEFINE Known == Logged \cup Catalogue
<1>1. MCInit => RunInv
  <2> SUFFICES ASSUME MCInit PROVE RunInv
    OBVIOUS
  <2>1. ConvInv
    BY ConvInvInit DEF MCInit
  <2>2. store \in Seq(Logged)
    BY <2>1 DEF ConvInv, ServerTyped
  <2>3. store \in Seq(Logged \cup Catalogue)
    <3> HIDE DEF Known
    <3>1. Logged \subseteq Known
      BY DEF Known
    <3> QED
      BY <2>2, <3>1 DEF Known
  <2> QED
    BY <2>1, <2>3, ConvInvTyped DEF RunInv
<1>2. RunInv /\ [MCNext]_<<focus, convVars, agentVars, settingsVars>> => RunInv'
  <2> SUFFICES ASSUME RunInv, [MCNext]_<<focus, convVars, agentVars, settingsVars>>
               PROVE RunInv'
    OBVIOUS
  <2>1. CASE focus = "conversation" /\ focus' = focus /\ ConvNext
    <3>1. ConvInv'
      BY <2>1, ConvInvKept DEF RunInv
    <3>2. ConvTypeOK'
      BY <3>1, ConvInvTyped, PTL
    <3>3. store' \in Seq(Logged)
      BY <3>1 DEF ConvInv, ServerTyped
    <3>4. store' \in Seq(Known)
      <4> HIDE DEF Known
      <4>1. Logged \subseteq Known
        BY DEF Known
      <4> QED
        BY <3>3, <4>1
    <3>5. (store \in Seq(Logged \cup Catalogue))'
      BY <3>4 DEF Logged, Catalogue
    <3> QED
      BY <3>1, <3>2, <3>5 DEF RunInv
  <2>2. CASE focus' = focus /\ UNCHANGED convVars
    <3>1. focus # "replay" => ConvInv'
      BY <2>2, StutterKeeps DEF RunInv
    <3>2. ConvTypeOK'
      BY <2>2 DEF RunInv, ConvTypeOK, convVars
    <3>3. (store \in Seq(Logged \cup Catalogue))'
      BY <2>2 DEF RunInv, convVars
    <3> QED
      BY <2>2, <3>1, <3>2, <3>3 DEF RunInv
  <2>3. CASE focus = "replay" /\ focus' = focus /\ LogGrows
    <3>1. ConvTypeOK'
      BY <2>3 DEF RunInv, ConvTypeOK, LogGrows
    <3>2. PICK e \in Catalogue : store' = Append(store, e)
      BY <2>3 DEF LogGrows
    <3>3. store' \in Seq(Known)
      <4> HIDE DEF Known
      <4>1. e \in Known
        BY DEF Known
      <4>2. store \in Seq(Known)
        BY DEF RunInv, Known
      <4> QED
        BY <3>2, <4>1, <4>2
    <3>4. (store \in Seq(Logged \cup Catalogue))'
      BY <3>3
    <3> QED
      BY <2>3, <3>1, <3>4 DEF RunInv
  <2> HIDE DEF server, net, shown, page, outbox
  <2> QED
    BY <2>1, <2>2, <2>3, Zenon DEF MCNext, convVars
<1> QED
  BY <1>1, <1>2, PTL DEF MCSpec

(* Whatever was logged, of every kind of event, its replay to a view that has it      *)
(* changes the order of no item and shows none twice (reduce.ts).                  *)
THEOREM ReplaysKeepOrder == MCSpec => []ReplayKeepsOrder
<1>1. RunInv => ReplayKeepsOrder
  <2> DEFINE Known == Logged \cup Catalogue
  <2> HIDE DEF Known
  <2>1. ASSUME RunInv PROVE store \in Seq(Known)
    BY <2>1 DEF RunInv, Known
  <2> QED
    BY <2>1, LogsReplay DEF ReplayKeepsOrder
<1> QED
  BY <1>1, RunInvKept, PTL

-----------------------------------------------------------------------------
(***************************************************************************)
(* That the view catches up: frames on their way, as positions in a sequence.      *)
(***************************************************************************)
Says(e) == e.type = "user-text"
Ends(e) == e.type \in {"turn-finished", "runner-finished"}

(* What a view has, or gets when the frames s have arrived: a runner; the item of an  *)
(* event, which needs its runner.                                              *)
Begins(v, s, r) == r \in DOMAIN v.runners \/ \E p \in DOMAIN s : StartOf(s[p], r)
Arrives(v, s, e) ==
  \/ InView(v, e)
  \/ \E q \in DOMAIN s : /\ s[q] = e
                         /\ \/ e.runner \in DOMAIN v.runners
                            \/ \E p \in 1..(q - 1) : StartOf(s[p], e.runner)
AllArrives(v, s, l) ==
  \A i \in DOMAIN l :
    /\ IsStart(l[i]) => Begins(v, s, l[i].runner)
    /\ Shows(l[i]) /\ (\E j \in 1..(i - 1) : StartOf(l[j], l[i].runner)) => Arrives(v, s, l[i])

(* The root before position q: the last that started, or the one there was.            *)
Rooted(s, q, x) ==
  \E p \in 1..(q - 1) : StartOf(s[p], x) /\ \A m \in (p + 1)..(q - 1) : ~IsStart(s[m])
RootAt(s, q, root, x) ==
  Rooted(s, q, x) \/ (root = x /\ \A p \in 1..(q - 1) : ~IsStart(s[p]))

(* The typing indicator goes out: a turn of the root ends, and nobody speaks again.     *)
Closes(s) ==
  \/ \A q \in DOMAIN s : ~Says(s[q])
  \/ \E q \in DOMAIN s : /\ Ends(s[q]) /\ Rooted(s, q, s[q].runner)
                         /\ \A m \in (q + 1)..Len(s) : ~Says(s[m])
GoesOut(s, root, b) ==
  \/ ~b /\ \A q \in DOMAIN s : ~Says(s[q])
  \/ \E q \in DOMAIN s : /\ Ends(s[q]) /\ RootAt(s, q, root, s[q].runner)
                         /\ \A m \in (q + 1)..Len(s) : ~Says(s[m])

LEMMA Joined ==
  ASSUME NEW E, NEW s \in Seq(E), NEW t \in Seq(E)
  PROVE  /\ s \o t \in Seq(E) /\ Len(s \o t) = Len(s) + Len(t)
         /\ Len(s) \in Nat /\ Len(t) \in Nat
         /\ DOMAIN s = 1..Len(s) /\ DOMAIN t = 1..Len(t) /\ DOMAIN (s \o t) = 1..(Len(s) + Len(t))
         /\ \A i \in 1..Len(s) : (s \o t)[i] = s[i]
         /\ \A i \in 1..Len(t) : (s \o t)[Len(s) + i] = t[i]
  OBVIOUS

(* More frames behind take nothing away.                                        *)
LEMMA ArrivesStill ==
  ASSUME NEW v, NEW E, NEW s \in Seq(E), NEW t \in Seq(E), NEW e
  PROVE  /\ \A r : Begins(v, s, r) => Begins(v, s \o t, r)
         /\ Arrives(v, s, e) => Arrives(v, s \o t, e)
<1> DEFINE st == s \o t
<1>1. /\ Len(s) \in Nat /\ Len(t) \in Nat /\ DOMAIN s = 1..Len(s)
      /\ DOMAIN st = 1..(Len(s) + Len(t)) /\ \A i \in 1..Len(s) : st[i] = s[i]
  BY Joined
<1> HIDE DEF st
<1>2. \A r : Begins(v, s, r) => Begins(v, st, r)
  BY <1>1 DEF Begins
<1>3. Arrives(v, s, e) => Arrives(v, st, e)
  <2> SUFFICES ASSUME Arrives(v, s, e), ~InView(v, e) PROVE Arrives(v, st, e)
    BY DEF Arrives
  <2>1. PICK q \in DOMAIN s : s[q] = e /\ (e.runner \in DOMAIN v.runners
                                            \/ \E p \in 1..(q - 1) : StartOf(s[p], e.runner))
    BY DEF Arrives
  <2>2. q \in DOMAIN st /\ st[q] = e /\ \A p \in 1..(q - 1) : st[p] = s[p]
    BY <1>1, <2>1
  <2> QED
    BY <2>1, <2>2 DEF Arrives
<1> QED
  BY <1>2, <1>3 DEF st

(* What is recorded is pushed too.                                             *)
LEMMA RecordedArrives ==
  ASSUME NEW v, NEW E, NEW s \in Seq(E), NEW l \in Seq(E), NEW t \in Seq(E), AllArrives(v, s, l)
  PROVE  AllArrives(v, s \o t, l \o t)
<1> DEFINE st == s \o t
           lt == l \o t
<1>1. /\ Len(s) \in Nat /\ Len(t) \in Nat /\ Len(l) \in Nat
      /\ DOMAIN s = 1..Len(s) /\ DOMAIN t = 1..Len(t) /\ DOMAIN l = 1..Len(l)
      /\ DOMAIN st = 1..(Len(s) + Len(t)) /\ DOMAIN lt = 1..(Len(l) + Len(t))
      /\ \A i \in 1..Len(s) : st[i] = s[i]
      /\ \A i \in 1..Len(l) : lt[i] = l[i]
      /\ \A i \in 1..Len(t) : st[Len(s) + i] = t[i] /\ lt[Len(l) + i] = t[i]
  BY Joined
<1>2. \A r, e : /\ Begins(v, s, r) => Begins(v, st, r)
                /\ Arrives(v, s, e) => Arrives(v, st, e)
  BY ArrivesStill
<1> HIDE DEF st, lt
<1> SUFFICES ASSUME NEW i \in DOMAIN lt
             PROVE  /\ IsStart(lt[i]) => Begins(v, st, lt[i].runner)
                    /\ Shows(lt[i]) /\ (\E j \in 1..(i - 1) : StartOf(lt[j], lt[i].runner))
                         => Arrives(v, st, lt[i])
  BY DEF AllArrives, st, lt
<1>3. CASE i \in 1..Len(l)
  <2>1. lt[i] = l[i] /\ \A j \in 1..(i - 1) : lt[j] = l[j]
    BY <1>1, <1>3
  <2> QED
    BY <1>1, <1>2, <1>3, <2>1 DEF AllArrives
<1>4. CASE i \notin 1..Len(l)
  <2> DEFINE k == i - Len(l)
  <2>1. k \in 1..Len(t) /\ i = Len(l) + k /\ Len(s) + k \in DOMAIN st
    BY <1>1, <1>4
  <2>2. lt[i] = t[k] /\ st[Len(s) + k] = t[k]
    BY <1>1, <2>1
  <2>3. IsStart(lt[i]) => Begins(v, st, lt[i].runner)
    BY <2>1, <2>2 DEF Begins, StartOf
  <2>4. ASSUME NEW j \in 1..(i - 1), StartOf(lt[j], lt[i].runner)
        PROVE  Arrives(v, st, lt[i])
    <3>1. CASE j \in 1..Len(l)
      <4>1. StartOf(l[j], lt[i].runner) /\ j \in DOMAIN l
        BY <1>1, <2>4, <3>1
      <4>2. Begins(v, s, lt[i].runner)
        BY <4>1 DEF AllArrives, StartOf
      <4>3. CASE lt[i].runner \in DOMAIN v.runners
        BY <2>1, <2>2, <4>3 DEF Arrives
      <4>4. CASE \E p \in DOMAIN s : StartOf(s[p], lt[i].runner)
        <5>1. PICK p \in DOMAIN s : StartOf(s[p], lt[i].runner)
          BY <4>4
        <5>2. p \in 1..((Len(s) + k) - 1) /\ st[p] = s[p]
          BY <1>1, <2>1, <5>1
        <5> QED
          BY <2>1, <2>2, <5>1, <5>2 DEF Arrives
      <4> QED
        BY <4>2, <4>3, <4>4 DEF Begins
    <3>2. CASE j \notin 1..Len(l)
      <4>1. j - Len(l) \in 1..Len(t) /\ j = Len(l) + (j - Len(l))
        BY <1>1, <2>1, <3>2
      <4>2. lt[j] = st[Len(s) + (j - Len(l))]
        BY <1>1, <4>1
      <4>3. Len(s) + (j - Len(l)) \in 1..((Len(s) + k) - 1)
        BY <1>1, <2>1, <4>1
      <4> QED
        BY <2>1, <2>2, <2>4, <4>2, <4>3 DEF Arrives
    <3> QED
      BY <3>1, <3>2
  <2> QED
    BY <2>3, <2>4
<1> QED
  BY <1>3, <1>4

(* A replay of the log brings all of it, whatever was under way.                    *)
LEMMA ReplayArrives ==
  ASSUME NEW v, NEW E, NEW s \in Seq(E), NEW l \in Seq(E)
  PROVE  AllArrives(v, s \o l, l)
<1> DEFINE sl == s \o l
<1>1. /\ Len(s) \in Nat /\ Len(l) \in Nat /\ DOMAIN l = 1..Len(l)
      /\ DOMAIN sl = 1..(Len(s) + Len(l))
      /\ \A i \in 1..Len(l) : sl[Len(s) + i] = l[i]
  BY Joined
<1> HIDE DEF sl
<1> SUFFICES ASSUME NEW i \in DOMAIN l
             PROVE  /\ IsStart(l[i]) => Begins(v, sl, l[i].runner)
                    /\ (\E j \in 1..(i - 1) : StartOf(l[j], l[i].runner)) => Arrives(v, sl, l[i])
  BY DEF AllArrives, sl
<1>2. Len(s) + i \in DOMAIN sl /\ sl[Len(s) + i] = l[i]
  BY <1>1
<1>3. ASSUME NEW j \in 1..(i - 1), StartOf(l[j], l[i].runner)
      PROVE  Arrives(v, sl, l[i])
  <2>1. j \in 1..Len(l) /\ Len(s) + j \in 1..((Len(s) + i) - 1)
    BY <1>1
  <2>2. sl[Len(s) + j] = l[j]
    BY <1>1, <2>1
  <2> QED
    BY <1>2, <1>3, <2>1, <2>2 DEF Arrives
<1> QED
  BY <1>2, <1>3 DEF Begins, StartOf

-----------------------------------------------------------------------------
(* What an event does to a view, event by event: the root, the runners, and the item   *)
(* that is shown afterwards.                                                   *)
SameRunners(v, w) == w.root = v.root /\ DOMAIN w.runners = DOMAIN v.runners

LEMMA ItemsReplaced ==
  ASSUME NEW v, IsView(v), NEW r \in DOMAIN v.runners, NEW status, NEW items
  PROVE  LET w == WithRunner(v, r, [status |-> status, items |-> items]) IN
         w.root = v.root /\ DOMAIN w.runners = DOMAIN v.runners /\ Items(w, r) = items
<1> DEFINE x == [status |-> status, items |-> items]
           rs == [q \in DOMAIN v.runners \cup {r} |-> IF q = r THEN x ELSE v.runners[q]]
           w == WithRunner(v, r, x)
<1>1. w = [root |-> v.root, runners |-> rs]
  BY DEF WithRunner, IsView
<1>2. w.root = v.root /\ w.runners = rs
  BY <1>1
<1>3. DOMAIN rs = DOMAIN v.runners /\ rs[r] = x /\ x.items = items
  OBVIOUS
<1> HIDE DEF rs, w, x
<1> QED
  BY <1>2, <1>3 DEF Items, w, x

(* The items of a runner are others.                                             *)
LEMMA RunnersKept ==
  ASSUME NEW v, IsView(v), NEW r, NEW changed
  PROVE  SameRunners(v, WithItems(v, r, changed))
<1>1. CASE r \notin DOMAIN v.runners
  BY <1>1 DEF SameRunners, WithItems
<1>2. CASE r \in DOMAIN v.runners
  <2> DEFINE w == WithRunner(v, r, [status |-> v.runners[r].status, items |-> changed])
  <2>1. WithItems(v, r, changed) = w
    BY <1>2 DEF WithItems
  <2>2. w.root = v.root /\ DOMAIN w.runners = DOMAIN v.runners /\ Items(w, r) = changed
    BY <1>2, ItemsReplaced
  <2> HIDE DEF w
  <2>3. SameRunners(v, w)
    BY <2>2 DEF SameRunners
  <2> QED
    BY <2>1, <2>3
<1> QED
  BY <1>1, <1>2

(* One of its identity is among the items of a runner.                                *)
Has(v, r, key) == \E i \in DOMAIN v.runners[r].items : Identity(v.runners[r].items[i]) = key

(* One more item, and the runner shows it if there is that runner.                   *)
LEMMA ItemShown ==
  ASSUME NEW v, IsView(v), NEW r, NEW item
  PROVE  /\ SameRunners(v, AddItem(v, r, item))
         /\ r \in DOMAIN v.runners => Has(AddItem(v, r, item), r, Identity(item))
<1>1. CASE r \notin DOMAIN v.runners
  BY <1>1 DEF SameRunners, AddItem, MapItems
<1>2. CASE r \in DOMAIN v.runners
  <2> DEFINE items == v.runners[r].items
             new == Append(items, item)
             w == WithRunner(v, r, [status |-> v.runners[r].status, items |-> new])
  <2>1. v.runners[r] = [status |-> v.runners[r].status, items |-> items] /\ IsSeq(items)
    BY <1>2 DEF IsView
  <2>2. AddItem(v, r, item) = w
    BY <1>2, ItemIsAdded DEF WithItems, Items
  <2>3. Items(v, r) = items
    BY <1>2 DEF Items
  <2>4. w.root = v.root /\ DOMAIN w.runners = DOMAIN v.runners /\ Items(w, r) = new
    BY <1>2, ItemsReplaced
  <2> HIDE DEF items, w
  <2>5. /\ IsSeq(new) /\ Len(new) = Len(items) + 1
        /\ \A i \in 1..Len(items) : new[i] = items[i]
        /\ new[Len(items) + 1] = item
    BY <2>1, SeqAppended
  <2> HIDE DEF new
  <2>6. Len(items) \in Nat /\ DOMAIN items = 1..Len(items) /\ DOMAIN new = 1..(Len(items) + 1)
    BY <2>1, <2>5, SeqFacts
  <2>7. SameRunners(v, w)
    BY <2>3, <2>4, <2>5, <2>6 DEF SameRunners
  <2>8. w.runners[r].items = new
    BY <1>2, <2>4 DEF Items
  <2>9. Len(items) + 1 \in DOMAIN new
    BY <2>6
  <2> QED
    BY <2>2, <2>5, <2>7, <2>8, <2>9 DEF Has
<1> QED
  BY <1>1, <1>2

(* An item that is there is in view.                                             *)
LEMMA HadIsInView ==
  ASSUME NEW v, NEW e, NEW kind, Key(e) = <<kind, e.id>>, HasItem(Items(v, e.runner), kind, e.id)
  PROVE  InView(v, e)
<1>1. e.runner \in DOMAIN v.runners /\ Items(v, e.runner) = v.runners[e.runner].items
  BY DEF Items, HasItem
<1> QED
  BY <1>1 DEF InView, HasItem, IsItem, Identity
LEMMA InViewStill ==
  ASSUME NEW v, NEW w, IsView(v), IsView(w), Grows(v, w), NEW e, InView(v, e)
  PROVE  InView(w, e)
<1> DEFINE items == v.runners[e.runner].items
           longer == w.runners[e.runner].items
<1>1. e.runner \in DOMAIN v.runners /\ e.runner \in DOMAIN w.runners /\ Continues(items, longer)
  BY DEF InView, Grows
<1>2. IsSeq(items) /\ IsSeq(longer)
  BY <1>1 DEF IsView
<1>3. DOMAIN items \subseteq DOMAIN longer
  BY <1>1, <1>2, SeqFacts DEF Continues
<1> QED
  BY <1>1, <1>3 DEF InView, Continues

(* A message, or a call: there already, or added.                                   *)
LEMMA TextDeltaShows ==
  ASSUME NEW v, IsView(v), NEW e, Key(e) = <<"message", e.id>>
  PROVE  /\ SameRunners(v, TextDelta(v, e))
         /\ e.runner \in DOMAIN v.runners => InView(TextDelta(v, e), e)
<1> DEFINE items == Items(v, e.runner)
<1>1. CASE HasItem(items, "message", e.id)
  <2> DEFINE changed == [i \in DOMAIN items |-> IF IsItem(items[i], "message", e.id)
                                                THEN AppendChunk(items[i], e.text) ELSE items[i]]
  <2>1. DOMAIN changed = DOMAIN items
        /\ \A i \in DOMAIN items : Identity(changed[i]) = Identity(items[i])
    BY ItemsOf, TextChanged DEF AppendChunk
  <2>2. TextDelta(v, e) = WithItems(v, e.runner, changed)
    BY <1>1 DEF TextDelta, MapItem, MapItems, Items, WithItems, IsView
  <2> HIDE DEF changed
  <2>3. SameRunners(v, TextDelta(v, e))
    BY <2>1, <2>2, RunnersKept
  <2>4. InView(v, e)
    BY <1>1, HadIsInView
  <2>5. InView(TextDelta(v, e), e)
    BY <2>4, TextDeltaOnwards, InViewStill DEF Onwards
  <2> QED
    BY <2>3, <2>5
<1>2. CASE ~HasItem(items, "message", e.id)
  <2> DEFINE item == Item("message", e.id, e.text)
  <2>1. Identity(item) = Key(e)
    BY ItemIsNew
  <2>2. TextDelta(v, e) = AddItem(v, e.runner, item)
    BY <1>2 DEF TextDelta
  <2> HIDE DEF item
  <2>3. /\ SameRunners(v, TextDelta(v, e))
        /\ e.runner \in DOMAIN v.runners => Has(TextDelta(v, e), e.runner, Key(e))
    BY <2>1, <2>2, ItemShown
  <2> QED
    BY <2>3 DEF SameRunners, InView, Has
<1> QED
  BY <1>1, <1>2

LEMMA AddOnceShows ==
  ASSUME NEW v, IsView(v), NEW e, NEW kind, Key(e) = <<kind, e.id>>
  PROVE  /\ SameRunners(v, AddOnce(v, e, kind))
         /\ e.runner \in DOMAIN v.runners => InView(AddOnce(v, e, kind), e)
<1>1. CASE HasItem(Items(v, e.runner), kind, e.id)
  BY <1>1, HadIsInView DEF AddOnce, SameRunners
<1>2. CASE ~HasItem(Items(v, e.runner), kind, e.id)
  <2> DEFINE item == Item(kind, e.id, <<>>)
  <2>1. Identity(item) = Key(e)
    BY ItemIsNew
  <2>2. AddOnce(v, e, kind) = AddItem(v, e.runner, item)
    BY <1>2 DEF AddOnce
  <2> HIDE DEF item
  <2>3. /\ SameRunners(v, AddOnce(v, e, kind))
        /\ e.runner \in DOMAIN v.runners => Has(AddOnce(v, e, kind), e.runner, Key(e))
    BY <2>1, <2>2, ItemShown
  <2> QED
    BY <2>3 DEF SameRunners, InView, Has
<1> QED
  BY <1>1, <1>2

(* A root that starts is the root, with its own items or those of the root before.      *)
LEMMA StartShows ==
  ASSUME NEW v, IsView(v), NEW e, e.id = None
  PROVE  LET w == RunnerStarted(v, e) IN
         /\ w.root = e.runner /\ DOMAIN w.runners = DOMAIN v.runners \cup {e.runner}
         /\ Items(w, e.runner) = IF e.runner \in DOMAIN v.runners THEN Items(v, e.runner)
                                 ELSE RootItems(v)
<1> DEFINE r == e.runner
           items == IF r \in DOMAIN v.runners THEN Items(v, r) ELSE RootItems(v)
           x == [status |-> "running", items |-> items]
           rs == [q \in DOMAIN v.runners \cup {r} |-> IF q = r THEN x ELSE v.runners[q]]
           w == [root |-> r, runners |-> rs]
<1>1. WithRunner(v, r, x) = [root |-> v.root, runners |-> rs]
  BY DEF WithRunner, IsView
<1>2. RunnerStarted(v, e) = [WithRunner(v, r, x) EXCEPT !.root = r]
  BY DEF RunnerStarted
<1>3. RunnerStarted(v, e) = w
  <2> HIDE DEF rs, x
  <2> QED
    BY <1>1, <1>2
<1>4. DOMAIN rs = DOMAIN v.runners \cup {r} /\ rs[r] = x /\ x.items = items
  OBVIOUS
<1> HIDE DEF rs, x, items
<1>5. w.root = r /\ w.runners = rs
  OBVIOUS
<1> HIDE DEF w
<1> QED
  BY <1>3, <1>4, <1>5 DEF Items, items

LEMMA FinishShows ==
  ASSUME NEW v, IsView(v), NEW e
  PROVE  SameRunners(v, RunnerFinished(v, e))
<1> DEFINE r == e.runner
<1>1. CASE r \notin DOMAIN v.runners
  BY <1>1 DEF RunnerFinished, SameRunners
<1>2. CASE r \in DOMAIN v.runners
  <2> DEFINE items == v.runners[r].items
  <2>1. v.runners[r] = [status |-> v.runners[r].status, items |-> items]
    BY <1>2 DEF IsView
  <2>2. RunnerFinished(v, e) = WithRunner(v, r, [status |-> e.text, items |-> items])
    BY <1>2, <2>1 DEF RunnerFinished
  <2>3. Items(v, r) = items
    BY <1>2 DEF Items
  <2> QED
    BY <1>2, <2>2, <2>3, ItemsReplaced DEF SameRunners
<1> QED
  BY <1>1, <1>2

(* The error of a turn marks an item, or adds one.                                   *)
LEMMA TurnFinishedShows ==
  ASSUME NEW v, IsView(v), NEW e
  PROVE  SameRunners(v, TurnFinished(v, e))
<1> DEFINE r == e.runner
           items == Items(v, r)
           Marked(item) == [item EXCEPT !.status = "error"]
           changed == [i \in DOMAIN items |-> IF IsItem(items[i], "message", e.id)
                                              THEN Marked(items[i]) ELSE items[i]]
           error == Marked(Item("message", <<"turn-error", Len(items)>>, e.text))
<1>1. TurnFinished(v, e) \in {v, WithItems(v, r, changed), AddItem(v, r, error)}
  <2>1. MapItem(v, r, "message", e.id, Marked) = WithItems(v, r, changed)
    BY DEF MapItem, MapItems, Items, WithItems, IsView
  <2>2. TurnFinished(v, e) = IF e.text = <<>> THEN v
                             ELSE IF HasItem(items, "message", e.id)
                                  THEN MapItem(v, r, "message", e.id, Marked)
                                  ELSE AddItem(v, r, error)
    BY DEF TurnFinished
  <2> HIDE DEF items, error, changed
  <2> QED
    BY <2>1, <2>2
<1> HIDE DEF changed, error
<1>2. SameRunners(v, v)
  BY DEF SameRunners
<1> QED
  BY <1>1, <1>2, RunnersKept, ItemShown

(* All the events there are in a log of root runners, together.                        *)
Takes(v, e, w) ==
  /\ IsStart(e) => /\ w.root = e.runner
                   /\ DOMAIN w.runners = DOMAIN v.runners \cup {e.runner}
  /\ ~IsStart(e) => SameRunners(v, w)
  /\ Shows(e) /\ e.runner \in DOMAIN v.runners => InView(w, e)
LEMMA KnownShows ==
  ASSUME NEW v, IsView(v), NEW e, KnownEvent(e)
  PROVE  Takes(v, e, Reduce(v, e))
<1> DEFINE w == Reduce(v, e)
<1>1. CASE e.type = "runner-started"
  <2>1. w = RunnerStarted(v, e) /\ e.id = None
    BY <1>1 DEF KnownEvent, Reduce
  <2> HIDE DEF w
  <2>2. /\ w.root = e.runner /\ DOMAIN w.runners = DOMAIN v.runners \cup {e.runner}
        /\ Items(w, e.runner) = IF e.runner \in DOMAIN v.runners THEN Items(v, e.runner)
                                ELSE RootItems(v)
    BY <2>1, StartShows
  <2>3. Takes(v, e, w)
    BY <1>1, <2>2 DEF Takes, IsStart, Shows
  <2> QED
    BY <2>3 DEF w
<1>2. CASE e.type = "runner-finished"
  <2>1. w = RunnerFinished(v, e)
    BY <1>2 DEF Reduce
  <2> HIDE DEF w
  <2>2. SameRunners(v, w)
    BY <2>1, FinishShows
  <2>3. Takes(v, e, w)
    BY <1>2, <2>2 DEF Takes, IsStart, Shows
  <2> QED
    BY <2>3 DEF w
<1>3. CASE e.type = "turn-finished"
  <2>1. w = TurnFinished(v, e)
    BY <1>3 DEF Reduce
  <2> HIDE DEF w
  <2>2. SameRunners(v, w)
    BY <2>1, TurnFinishedShows
  <2>3. Takes(v, e, w)
    BY <1>3, <2>2 DEF Takes, IsStart, Shows
  <2> QED
    BY <2>3 DEF w
<1>4. CASE e.type \in {"user-text", "text-delta"}
  <2>1. w = TextDelta(v, e) /\ Key(e) = <<"message", e.id>>
    BY <1>4 DEF Reduce, Key
  <2> HIDE DEF w
  <2>2. SameRunners(v, w) /\ (e.runner \in DOMAIN v.runners => InView(w, e))
    BY <2>1, TextDeltaShows
  <2>3. Takes(v, e, w)
    BY <1>4, <2>2 DEF Takes, IsStart, Shows
  <2> QED
    BY <2>3 DEF w
<1>5. CASE e.type = "tool-call-started"
  <2>1. w = AddOnce(v, e, "tool-call") /\ Key(e) = <<"tool-call", e.id>>
    BY <1>5 DEF Reduce, Key
  <2> HIDE DEF w
  <2>2. SameRunners(v, w) /\ (e.runner \in DOMAIN v.runners => InView(w, e))
    BY <2>1, AddOnceShows
  <2>3. Takes(v, e, w)
    BY <1>5, <2>2 DEF Takes, IsStart, Shows
  <2> QED
    BY <2>3 DEF w
<1> QED
  BY <1>1, <1>2, <1>3, <1>4, <1>5 DEF KnownEvent

-----------------------------------------------------------------------------
(* The first frame arrives.                                                   *)
LEMMA TailOf ==
  ASSUME NEW E, NEW s \in Seq(E), s # <<>>
  PROVE  /\ Tail(s) \in Seq(E) /\ Len(s) \in Nat /\ Len(s) > 0 /\ Len(Tail(s)) = Len(s) - 1
         /\ DOMAIN s = 1..Len(s) /\ DOMAIN Tail(s) = 1..(Len(s) - 1) /\ Head(s) = s[1]
         /\ \A i \in 1..(Len(s) - 1) : Tail(s)[i] = s[i + 1]
  OBVIOUS

(* A view that goes on has what it had.                                         *)
LEMMA ArrivesOnwards ==
  ASSUME NEW v, IsView(v), NEW w, Onwards(v, w), NEW s, NEW l, AllArrives(v, s, l)
  PROVE  AllArrives(w, s, l)
<1>1. DOMAIN v.runners \subseteq DOMAIN w.runners
  BY DEF Onwards, Grows
<1>2. \A r : Begins(v, s, r) => Begins(w, s, r)
  BY <1>1 DEF Begins
<1>3. \A e : InView(v, e) => InView(w, e)
  BY InViewStill DEF Onwards
<1>4. \A e : Arrives(v, s, e) => Arrives(w, s, e)
  BY <1>1, <1>3 DEF Arrives
<1> QED
  BY <1>2, <1>4 DEF AllArrives

LEMMA DeliveredArrives ==
  ASSUME NEW v, IsView(v), NEW E, NEW s \in Seq(E), s # <<>>, KnownEvent(Head(s)),
         NEW l, AllArrives(v, s, l)
  PROVE  AllArrives(Reduce(v, Head(s)), Tail(s), l)
<1> DEFINE e == Head(s)
           w == Reduce(v, e)
           t == Tail(s)
<1>1. /\ Len(s) \in Nat /\ Len(s) > 0 /\ DOMAIN s = 1..Len(s) /\ DOMAIN t = 1..(Len(s) - 1)
      /\ e = s[1] /\ \A i \in 1..(Len(s) - 1) : t[i] = s[i + 1]
  BY TailOf
<1>2. Onwards(v, w)
  BY ReduceOnwards
<1>3. /\ IsStart(e) => e.runner \in DOMAIN w.runners
      /\ Shows(e) /\ e.runner \in DOMAIN v.runners => InView(w, e)
  <2>1. Takes(v, e, w)
    BY KnownShows
  <2> HIDE DEF w
  <2> QED
    BY <2>1 DEF Takes
<1> HIDE DEF e, w, t
<1>4. DOMAIN v.runners \subseteq DOMAIN w.runners /\ \A x : InView(v, x) => InView(w, x)
  BY <1>2, InViewStill DEF Onwards, Grows
<1>5. ASSUME NEW r, NEW q \in DOMAIN s, StartOf(s[q], r)
      PROVE  r \in DOMAIN w.runners \/ (q - 1 \in DOMAIN t /\ t[q - 1] = s[q])
  BY <1>1, <1>3, <1>5 DEF StartOf
<1>6. \A r : Begins(v, s, r) => Begins(w, t, r)
  BY <1>4, <1>5 DEF Begins
<1>7. ASSUME NEW x, Shows(x), Arrives(v, s, x)
      PROVE  Arrives(w, t, x)
  <2>1. CASE InView(v, x)
    BY <1>4, <2>1 DEF Arrives
  <2>2. CASE ~InView(v, x)
    <3>1. PICK q \in DOMAIN s : s[q] = x /\ (x.runner \in DOMAIN v.runners
                                              \/ \E p \in 1..(q - 1) : StartOf(s[p], x.runner))
      BY <1>7, <2>2 DEF Arrives
    <3>2. CASE q = 1
      <4>1. x = e /\ x.runner \in DOMAIN v.runners
        BY <1>1, <3>1, <3>2
      <4> QED
        BY <1>3, <1>7, <4>1 DEF Arrives
    <3>3. CASE q # 1
      <4>1. q - 1 \in DOMAIN t /\ t[q - 1] = x
        BY <1>1, <3>1, <3>3
      <4>2. CASE x.runner \in DOMAIN w.runners
        BY <4>1, <4>2 DEF Arrives
      <4>3. CASE x.runner \notin DOMAIN w.runners
        <5>1. PICK p \in 1..(q - 1) : StartOf(s[p], x.runner)
          BY <1>4, <3>1, <4>3
        <5>2. p \in DOMAIN s
          BY <1>1, <3>1, <5>1
        <5>3. p - 1 \in DOMAIN t /\ t[p - 1] = s[p]
          BY <1>5, <4>3, <5>1, <5>2
        <5>4. p - 1 \in 1..((q - 1) - 1)
          BY <1>1, <3>1, <5>1, <5>3
        <5> QED
          BY <4>1, <5>1, <5>3, <5>4 DEF Arrives
      <4> QED
        BY <4>2, <4>3
    <3> QED
      BY <3>2, <3>3
  <2> QED
    BY <2>1, <2>2
<1>8. AllArrives(w, t, l)
  BY <1>6, <1>7 DEF AllArrives
<1> QED
  BY <1>8 DEF e, w, t

(* The root and the typing indicator, as a frame arrives.                            *)
NextRoot(root, e) == IF IsStart(e) THEN e.runner ELSE root
LEMMA DeliveredRoot ==
  ASSUME NEW E, NEW s \in Seq(E), s # <<>>, NEW q \in 2..(Len(s) + 1), NEW root, NEW x,
         RootAt(s, q, root, x)
  PROVE  RootAt(Tail(s), q - 1, NextRoot(root, Head(s)), x)
<1> DEFINE t == Tail(s)
           next == NextRoot(root, Head(s))
<1>1. /\ Len(s) \in Nat /\ Len(s) > 0 /\ Head(s) = s[1]
      /\ \A i \in 1..(Len(s) - 1) : t[i] = s[i + 1]
  BY TailOf
<1> HIDE DEF t
<1>2. \A m \in 1..((q - 1) - 1) : t[m] = s[m + 1] /\ m + 1 \in 1..(q - 1)
  BY <1>1
<1>3. CASE Rooted(s, q, x)
  <2>1. PICK p \in 1..(q - 1) : StartOf(s[p], x) /\ \A m \in (p + 1)..(q - 1) : ~IsStart(s[m])
    BY <1>3 DEF Rooted
  <2>2. CASE p = 1
    <3>1. next = x
      BY <1>1, <2>1, <2>2 DEF NextRoot, StartOf
    <3>2. \A m \in 1..((q - 1) - 1) : ~IsStart(t[m])
      <4> SUFFICES ASSUME NEW m \in 1..((q - 1) - 1) PROVE ~IsStart(t[m])
        OBVIOUS
      <4>1. m + 1 \in (p + 1)..(q - 1)
        BY <2>2
      <4> QED
        BY <1>2, <2>1, <4>1
    <3> QED
      BY <3>1, <3>2 DEF RootAt, t
  <2>3. CASE p # 1
    <3>1. p - 1 \in 1..((q - 1) - 1) /\ StartOf(t[p - 1], x)
      BY <1>2, <2>1, <2>3
    <3>2. ASSUME NEW m \in ((p - 1) + 1)..((q - 1) - 1)
          PROVE  ~IsStart(t[m])
      <4>1. m \in 1..((q - 1) - 1) /\ m + 1 \in (p + 1)..(q - 1)
        OBVIOUS
      <4> QED
        BY <1>2, <2>1, <4>1
    <3>3. Rooted(t, q - 1, x)
      BY <3>1, <3>2 DEF Rooted
    <3> QED
      BY <3>3 DEF RootAt, t
  <2> QED
    BY <2>2, <2>3
<1>4. CASE root = x /\ \A p \in 1..(q - 1) : ~IsStart(s[p])
  <2>1. next = x
    <3>1. 1 \in 1..(q - 1)
      OBVIOUS
    <3> QED
      BY <1>1, <1>4, <3>1 DEF NextRoot
  <2>2. \A m \in 1..((q - 1) - 1) : ~IsStart(t[m])
    BY <1>2, <1>4
  <2> QED
    BY <2>1, <2>2 DEF RootAt, t
<1> QED
  BY <1>3, <1>4 DEF RootAt

LEMMA DeliveredGoesOut ==
  ASSUME NEW E, NEW s \in Seq(E), s # <<>>, NEW root, NEW b \in BOOLEAN, GoesOut(s, root, b),
         NEW w, w.root = NextRoot(root, Head(s))
  PROVE  GoesOut(Tail(s), w.root, NextBusy(b, Head(s), w))
<1> DEFINE t == Tail(s)
           e == Head(s)
           next == NextBusy(b, e, w)
<1>1. /\ Len(s) \in Nat /\ Len(s) > 0 /\ DOMAIN s = 1..Len(s) /\ DOMAIN t = 1..(Len(s) - 1)
      /\ e = s[1] /\ Len(t) = Len(s) - 1 /\ \A i \in 1..(Len(s) - 1) : t[i] = s[i + 1]
  BY TailOf
<1>2. next <=> (Says(e) \/ (b /\ ~(Ends(e) /\ e.runner = w.root)))
  BY DEF NextBusy, Says, Ends
<1> HIDE DEF t, e, next
<1>3. (\A m \in 2..Len(s) : ~Says(s[m])) => \A m \in DOMAIN t : ~Says(t[m])
  BY <1>1
<1>4. CASE ~b /\ \A m \in DOMAIN s : ~Says(s[m])
  <2>1. ~next
    BY <1>1, <1>2, <1>4
  <2> QED
    BY <1>1, <1>3, <1>4, <2>1 DEF GoesOut, t, e, next
<1>5. ASSUME NEW q \in DOMAIN s, Ends(s[q]), RootAt(s, q, root, s[q].runner),
             \A m \in (q + 1)..Len(s) : ~Says(s[m])
      PROVE  GoesOut(t, w.root, next)
  <2>1. CASE q = 1
    <3>1. root = e.runner
      BY <1>1, <1>5, <2>1 DEF RootAt, Rooted
    <3>2. ~IsStart(e) /\ ~Says(e)
      BY <1>1, <1>5, <2>1 DEF Ends, IsStart, Says
    <3>3. ~next
      BY <1>1, <1>2, <1>5, <2>1, <3>1, <3>2 DEF NextRoot, e
    <3> QED
      BY <1>3, <1>5, <2>1, <3>3 DEF GoesOut
  <2>2. CASE q # 1
    <3>1. q \in 2..(Len(s) + 1) /\ q - 1 \in DOMAIN t /\ t[q - 1] = s[q]
      BY <1>1, <2>2
    <3>2. RootAt(t, q - 1, w.root, s[q].runner)
      BY <1>5, <3>1, DeliveredRoot DEF t
    <3>3. \A m \in ((q - 1) + 1)..Len(t) : ~Says(t[m])
      <4> SUFFICES ASSUME NEW m \in ((q - 1) + 1)..Len(t) PROVE ~Says(t[m])
        OBVIOUS
      <4>1. m \in 1..(Len(s) - 1) /\ m + 1 \in (q + 1)..Len(s)
        BY <1>1
      <4> QED
        BY <1>1, <1>5, <4>1
    <3> QED
      BY <1>5, <3>1, <3>2, <3>3 DEF GoesOut
  <2> QED
    BY <2>1, <2>2
<1> QED
  BY <1>4, <1>5 DEF GoesOut, t, e, next

-----------------------------------------------------------------------------
(* More frames behind.                                                        *)
LEMMA RootBefore ==
  ASSUME NEW E, NEW s \in Seq(E), NEW t \in Seq(E), NEW q \in 1..(Len(s) + 1), NEW x, NEW root
  PROVE  /\ Rooted(s, q, x) => Rooted(s \o t, q, x)
         /\ RootAt(s, q, root, x) => RootAt(s \o t, q, root, x)
<1> DEFINE st == s \o t
<1>1. Len(s) \in Nat /\ \A i \in 1..Len(s) : st[i] = s[i]
  BY Joined
<1> HIDE DEF st
<1>2. \A m \in 1..(q - 1) : st[m] = s[m]
  BY <1>1
<1>3. Rooted(s, q, x) => Rooted(st, q, x)
  <2> SUFFICES ASSUME Rooted(s, q, x) PROVE Rooted(st, q, x)
    OBVIOUS
  <2>1. PICK p \in 1..(q - 1) : StartOf(s[p], x) /\ \A m \in (p + 1)..(q - 1) : ~IsStart(s[m])
    BY DEF Rooted
  <2>2. \A m \in (p + 1)..(q - 1) : m \in 1..(q - 1)
    OBVIOUS
  <2> QED
    BY <1>2, <2>1, <2>2 DEF Rooted
<1>4. RootAt(s, q, root, x) => RootAt(st, q, root, x)
  BY <1>2, <1>3 DEF RootAt
<1> QED
  BY <1>3, <1>4 DEF st

LEMMA RootStays ==
  ASSUME NEW E, NEW s \in Seq(E), NEW t \in Seq(E), \A i \in DOMAIN t : ~IsStart(t[i]),
         NEW x, NEW root
  PROVE  /\ Rooted(s, Len(s) + 1, x) => Rooted(s \o t, Len(s \o t) + 1, x)
         /\ RootAt(s, Len(s) + 1, root, x) => RootAt(s \o t, Len(s \o t) + 1, root, x)
<1> DEFINE st == s \o t
           q == Len(s) + 1
           z == Len(st) + 1
<1>1. /\ Len(s) \in Nat /\ Len(t) \in Nat /\ Len(st) = Len(s) + Len(t) /\ DOMAIN t = 1..Len(t)
      /\ \A i \in 1..Len(s) : st[i] = s[i]
      /\ \A i \in 1..Len(t) : st[Len(s) + i] = t[i]
  BY Joined
<1>2. /\ Rooted(s, q, x) => Rooted(st, q, x)
      /\ RootAt(s, q, root, x) => RootAt(st, q, root, x)
  BY <1>1, RootBefore
<1> HIDE DEF st
<1>3. \A m \in q..(z - 1) : ~IsStart(st[m])
  <2> SUFFICES ASSUME NEW m \in q..(z - 1) PROVE ~IsStart(st[m])
    OBVIOUS
  <2>1. m - Len(s) \in 1..Len(t) /\ m = Len(s) + (m - Len(s))
    BY <1>1
  <2>2. st[m] = t[m - Len(s)]
    BY <1>1, <2>1
  <2> QED
    BY <1>1, <2>1, <2>2
<1>4. Rooted(st, q, x) => Rooted(st, z, x)
  <2> SUFFICES ASSUME Rooted(st, q, x) PROVE Rooted(st, z, x)
    OBVIOUS
  <2>1. PICK p \in 1..(q - 1) : StartOf(st[p], x) /\ \A m \in (p + 1)..(q - 1) : ~IsStart(st[m])
    BY DEF Rooted
  <2>2. p \in 1..(z - 1)
    BY <1>1
  <2>3. \A m \in (p + 1)..(z - 1) : m \in (p + 1)..(q - 1) \/ m \in q..(z - 1)
    BY <1>1
  <2>4. \A m \in (p + 1)..(z - 1) : ~IsStart(st[m])
    BY <1>3, <2>1, <2>3
  <2> QED
    BY <2>1, <2>2, <2>4 DEF Rooted
<1>5. RootAt(st, q, root, x) => RootAt(st, z, root, x)
  <2>1. \A m \in 1..(z - 1) : m \in 1..(q - 1) \/ m \in q..(z - 1)
    BY <1>1
  <2> QED
    BY <1>3, <1>4, <2>1 DEF RootAt
<1> QED
  BY <1>2, <1>4, <1>5 DEF st

(* A log that is replayed has its root.                                          *)
LEMMA RootOfReplay ==
  ASSUME NEW E, NEW s \in Seq(E), NEW l \in Seq(E), NEW q \in 1..(Len(l) + 1), NEW x,
         Rooted(l, q, x)
  PROVE  Rooted(s \o l, Len(s) + q, x)
<1> DEFINE sl == s \o l
<1>1. /\ Len(s) \in Nat /\ Len(l) \in Nat /\ \A i \in 1..Len(l) : sl[Len(s) + i] = l[i]
  BY Joined
<1> HIDE DEF sl
<1>2. PICK p \in 1..(q - 1) : StartOf(l[p], x) /\ \A m \in (p + 1)..(q - 1) : ~IsStart(l[m])
  BY DEF Rooted
<1>3. Len(s) + p \in 1..((Len(s) + q) - 1) /\ StartOf(sl[Len(s) + p], x)
  BY <1>1, <1>2
<1>4. ASSUME NEW m \in ((Len(s) + p) + 1)..((Len(s) + q) - 1)
      PROVE  ~IsStart(sl[m])
  <2>1. m - Len(s) \in (p + 1)..(q - 1) /\ m - Len(s) \in 1..Len(l) /\ m = Len(s) + (m - Len(s))
    BY <1>1
  <2> QED
    BY <1>1, <1>2, <2>1
<1> QED
  BY <1>3, <1>4 DEF Rooted, sl

(* Nobody speaks, and the indicator goes out as it would have.                        *)
LEMMA QuietStays ==
  ASSUME NEW E, NEW s \in Seq(E), NEW t \in Seq(E), \A i \in DOMAIN t : ~Says(t[i])
  PROVE  /\ Closes(s) => Closes(s \o t)
         /\ \A root, b : GoesOut(s, root, b) => GoesOut(s \o t, root, b)
<1> DEFINE st == s \o t
<1>1. /\ Len(s) \in Nat /\ Len(t) \in Nat /\ Len(st) = Len(s) + Len(t)
      /\ DOMAIN s = 1..Len(s) /\ DOMAIN t = 1..Len(t) /\ DOMAIN st = 1..(Len(s) + Len(t))
      /\ \A i \in 1..Len(s) : st[i] = s[i]
      /\ \A i \in 1..Len(t) : st[Len(s) + i] = t[i]
  BY Joined
<1>2. \A x, root : \A q \in DOMAIN s :
        /\ Rooted(s, q, x) => Rooted(st, q, x)
        /\ RootAt(s, q, root, x) => RootAt(st, q, root, x)
  <2> TAKE x, root
  <2> TAKE q \in DOMAIN s
  <2>1. q \in 1..(Len(s) + 1)
    BY <1>1
  <2> QED
    BY <2>1, RootBefore
<1> HIDE DEF st
<1>3. ASSUME NEW m \in DOMAIN st, Says(st[m])
      PROVE  m \in DOMAIN s /\ Says(s[m])
  <2>1. m \notin 1..Len(s) => m - Len(s) \in 1..Len(t) /\ m = Len(s) + (m - Len(s))
    BY <1>1
  <2> QED
    BY <1>1, <1>3, <2>1
<1>4. ASSUME NEW q \in DOMAIN s, \A m \in (q + 1)..Len(s) : ~Says(s[m])
      PROVE  q \in DOMAIN st /\ st[q] = s[q] /\ \A m \in (q + 1)..Len(st) : ~Says(st[m])
  <2>1. q \in DOMAIN st /\ st[q] = s[q]
    BY <1>1
  <2>2. \A m \in (q + 1)..Len(st) : m \in DOMAIN st
    BY <1>1
  <2>3. \A m \in DOMAIN s : m >= q + 1 => m \in (q + 1)..Len(s)
    BY <1>1
  <2>4. \A m \in (q + 1)..Len(st) : m >= q + 1
    BY <1>1
  <2> QED
    BY <1>3, <1>4, <2>1, <2>2, <2>3, <2>4
<1>5. Closes(s) => Closes(st)
  BY <1>2, <1>3, <1>4 DEF Closes
<1>6. \A root, b : GoesOut(s, root, b) => GoesOut(st, root, b)
  BY <1>2, <1>3, <1>4 DEF GoesOut
<1> QED
  BY <1>5, <1>6 DEF st

(* It goes out by the end of a turn of the root, or of the root.                       *)
LEMMA EndCloses ==
  ASSUME NEW E, NEW s \in Seq(E), NEW e \in E, Ends(e)
  PROVE  /\ Rooted(s, Len(s) + 1, e.runner) => Closes(s \o <<e>>)
         /\ \A root, b : RootAt(s, Len(s) + 1, root, e.runner) => GoesOut(s \o <<e>>, root, b)
<1> DEFINE t == <<e>>
           st == s \o t
           q == Len(s) + 1
<1>0. t \in Seq(E)
  OBVIOUS
<1>1. Len(t) = 1 /\ t[1] = e
  OBVIOUS
<1> HIDE DEF t
<1>2. /\ Len(s) \in Nat /\ Len(st) = Len(s) + Len(t) /\ DOMAIN st = 1..(Len(s) + Len(t))
      /\ \A i \in 1..Len(t) : st[Len(s) + i] = t[i]
  BY <1>0, Joined
<1> HIDE DEF st
<1>3. q \in DOMAIN st /\ st[q] = e /\ q \in 1..(Len(s) + 1)
  BY <1>1, <1>2
<1>4. \A root : /\ Rooted(s, q, e.runner) => Rooted(st, q, e.runner)
                /\ RootAt(s, q, root, e.runner) => RootAt(st, q, root, e.runner)
  BY <1>0, <1>3, RootBefore DEF st
<1>5. (q + 1)..Len(st) = {}
  BY <1>1, <1>2
<1> HIDE DEF q
<1> QED
  BY <1>3, <1>4, <1>5 DEF Closes, GoesOut, st, t, q

(* A replay lets it go out, if the log does, and it is not on for another's words.        *)
LEMMA ReplayGoesOut ==
  ASSUME NEW E, NEW s \in Seq(E), NEW l \in Seq(E), Closes(l), NEW root, NEW b,
         b \/ (\E i \in DOMAIN s : Says(s[i])) => \E i \in DOMAIN l : Says(l[i])
  PROVE  GoesOut(s \o l, root, b)
<1> DEFINE sl == s \o l
<1>1. /\ Len(s) \in Nat /\ Len(l) \in Nat /\ Len(sl) = Len(s) + Len(l)
      /\ DOMAIN s = 1..Len(s) /\ DOMAIN l = 1..Len(l) /\ DOMAIN sl = 1..(Len(s) + Len(l))
      /\ \A i \in 1..Len(s) : sl[i] = s[i]
      /\ \A i \in 1..Len(l) : sl[Len(s) + i] = l[i]
  BY Joined
<1>2. CASE \A q \in DOMAIN l : ~Says(l[q])
  <2>1. \A m \in DOMAIN sl : ~Says(sl[m])
    <3> SUFFICES ASSUME NEW m \in DOMAIN sl PROVE ~Says(sl[m])
      OBVIOUS
    <3> HIDE DEF sl
    <3>1. CASE m \in 1..Len(s)
      BY <1>1, <1>2, <3>1
    <3>2. CASE m \notin 1..Len(s)
      <4>1. m - Len(s) \in 1..Len(l) /\ m = Len(s) + (m - Len(s))
        BY <1>1, <3>2
      <4> QED
        BY <1>1, <1>2, <4>1
    <3> QED
      BY <3>1, <3>2
  <2>2. ~b
    BY <1>2
  <2> QED
    BY <2>1, <2>2 DEF GoesOut
<1>3. ASSUME NEW q \in DOMAIN l, Ends(l[q]), Rooted(l, q, l[q].runner),
             \A m \in (q + 1)..Len(l) : ~Says(l[m])
      PROVE  GoesOut(sl, root, b)
  <2>1. Len(s) + q \in DOMAIN sl /\ sl[Len(s) + q] = l[q] /\ q \in 1..(Len(l) + 1)
    BY <1>1
  <2>2. Rooted(sl, Len(s) + q, l[q].runner)
    BY <1>3, <2>1, RootOfReplay
  <2> HIDE DEF sl
  <2>3. \A m \in ((Len(s) + q) + 1)..Len(sl) : ~Says(sl[m])
    <3> SUFFICES ASSUME NEW m \in ((Len(s) + q) + 1)..Len(sl) PROVE ~Says(sl[m])
      OBVIOUS
    <3>1. m - Len(s) \in (q + 1)..Len(l) /\ m - Len(s) \in 1..Len(l) /\ m = Len(s) + (m - Len(s))
      BY <1>1
    <3> QED
      BY <1>1, <1>3, <3>1
  <2> QED
    BY <1>3, <2>1, <2>2, <2>3 DEF GoesOut, RootAt
<1> QED
  BY <1>2, <1>3 DEF Closes

-----------------------------------------------------------------------------
(***************************************************************************)
(* That the view catches up: the inductive invariant.                           *)
(***************************************************************************)
(* The window attached, and has not been given up since; its attach is under way.      *)
LooksLive == isOpen /\ ~skip
Coming == sock = "down" \/ reattachDue \/ \E i \in DOMAIN up : up[i] = <<"attach">>

(* The log: the last root is the one that lives, and is where the log ends up.         *)
LiveIsLast ==
  /\ live = 0 => working = 0
  /\ live # 0 => live = roots /\ \A i \in DOMAIN store : store[i] # Finished(live, "errored")
LogIsRooted ==
  /\ \A i \in DOMAIN store : store[i].runner \in 1..roots
  /\ Rooted(store, Len(store) + 1, roots)
TurnsClose == LooksLive /\ working = 0 /\ RunsInTurn => Closes(store)

(* The window: it was told nothing that is not in the log.                            *)
SocketKept ==
  /\ mounted => isOpen
  /\ LooksLive => ever
  /\ sock = "down" => up = <<>> /\ down = <<>>
Told ==
  busy \/ (\E i \in DOMAIN down : Says(down[i])) => \E i \in DOMAIN store : Says(store[i])
WillCatchUp ==
  LooksLive /\ ~Coming =>
    /\ AllArrives(view, down, store)
    /\ RootAt(down, Len(down) + 1, view.root, roots)
    /\ working = 0 /\ RunsInTurn => GoesOut(down, view.root, busy)
CatchInv ==
  /\ IsView(view)
  /\ LiveIsLast /\ LogIsRooted /\ TurnsClose
  /\ SocketKept /\ Told /\ WillCatchUp

(* What is logged, and what is sent, as the lemmas about frames want it.                *)
Frame == Logged \cup {Failed}
LEMMA FramesTyped ==
  ASSUME ConvInv
  PROVE  /\ store \in Seq(Frame) /\ down \in Seq(Frame) /\ \A e \in Frame : KnownEvent(e)
         /\ roots \in Nat /\ roots \in 1..MaxRoots /\ working \in Nat
<1>1. store \in Seq(Logged) /\ down \in Seq(Frame)
  BY DEF ConvInv, ServerTyped, DownTyped, Frame
<1>2. Logged \subseteq Frame
  BY DEF Frame
<1>3. store \in Seq(Frame)
  BY <1>1, <1>2
<1>4. \A e \in Frame : KnownEvent(e)
  BY EventsAreKnown DEF Frame
<1> QED
  BY <1>1, <1>3, <1>4, ConversationAssumption DEF ConvInv, ServerTyped

(* What a record of an event says.                                              *)
LEMMA EventFacts ==
  ASSUME NEW r
  PROVE  /\ StartOf(Started(r), r) /\ ~Says(Started(r)) /\ ~Ends(Started(r))
         /\ Started(r).runner = r
         /\ Ends(TurnDone(r)) /\ TurnDone(r).runner = r /\ TurnDone(r).type = "turn-finished"
        /\ Ends(TurnFailed(r)) /\ TurnFailed(r).runner = r /\ TurnFailed(r).type = "turn-finished"
         /\ \A status : /\ Ends(Finished(r, status)) /\ Finished(r, status).runner = r
                        /\ Finished(r, status).type = "runner-finished"
         /\ \A s : /\ Says(Echo(r, s)) /\ Echo(r, s).runner = r /\ ~IsStart(Echo(r, s))
                   /\ ~Ends(Echo(r, s))
         /\ \A e \in AgentEvents(r) : /\ ~IsStart(e) /\ ~Says(e) /\ ~Ends(e) /\ e.runner = r
BY DEF StartOf, IsStart, Says, Ends, Started, TurnDone, TurnFailed, Finished, Echo, AgentEvents, Event

(* Runs that are in turn were so before.                                          *)
LEMMA InTurnBefore ==
  ASSUME NEW E, store \in Seq(E), NEW more \in Seq(E), store' = store \o more,
         roots \in Nat, roots' \in Nat, roots <= roots', RunsInTurn'
  PROVE  RunsInTurn
<1>1. /\ Len(store) \in Nat /\ DOMAIN store = 1..Len(store)
      /\ \A i \in 1..Len(store) : i \in DOMAIN store' /\ store'[i] = store[i]
  BY Joined
<1> SUFFICES ASSUME NEW r \in 2..roots, NEW i \in DOMAIN store, store[i] = Started(r)
             PROVE  \E j \in 1..(i - 1) : store[j] = Finished(r - 1, "errored")
  BY DEF RunsInTurn
<1>2. r \in 2..roots' /\ i \in DOMAIN store' /\ store'[i] = Started(r)
  BY <1>1
<1>3. PICK j \in 1..(i - 1) : store'[j] = Finished(r - 1, "errored")
  BY <1>2 DEF RunsInTurn, Started, Finished, Event
<1>4. j \in 1..Len(store)
  BY <1>1
<1> QED
  BY <1>1, <1>3, <1>4

(* Steps that leave the log, the frames to the window and what it shows alone.          *)
LEMMA CatchStays ==
  ASSUME CatchInv, SocketKept', LooksLive /\ ~Coming' => ~Coming,
         UNCHANGED <<store, live, roots, working, down, view, busy, isOpen, skip>>
  PROVE  CatchInv'
<1>1. LooksLive' = LooksLive /\ RunsInTurn' = RunsInTurn
  BY DEF LooksLive, RunsInTurn
<1>2. IsView(view') /\ LiveIsLast' /\ LogIsRooted' /\ Told'
  BY DEF CatchInv, LiveIsLast, LogIsRooted, Told
<1>3. TurnsClose' /\ WillCatchUp'
  BY <1>1 DEF CatchInv, TurnsClose, WillCatchUp
<1> QED
  BY <1>2, <1>3 DEF CatchInv

(* Steps after which a window that looks at the live run attaches again.               *)
LEMMA CatchAgain ==
  ASSUME CatchInv, SocketKept', LiveIsLast', UNCHANGED <<store, roots>>,
         view' \in {view, NoRun}, busy' \in {busy, FALSE}, down' \in {down, <<>>},
         LooksLive' => LooksLive /\ Coming' /\ UNCHANGED working
  PROVE  CatchInv'
<1>1. RunsInTurn' = RunsInTurn
  BY DEF RunsInTurn
<1>2. IsView(view')
  BY NoRunIsView DEF CatchInv
<1>3. LogIsRooted'
  BY DEF CatchInv, LogIsRooted
<1>4. Told'
  <2>1. \A i \in DOMAIN down' : i \in DOMAIN down /\ down'[i] = down[i]
    OBVIOUS
  <2>2. busy' => busy
    OBVIOUS
  <2> QED
    BY <2>1, <2>2 DEF CatchInv, Told
<1>5. TurnsClose' /\ WillCatchUp'
  BY <1>1 DEF CatchInv, TurnsClose, WillCatchUp
<1> QED
  BY <1>2, <1>3, <1>4, <1>5 DEF CatchInv

(* Frames of the window's: an attach is on its way, and others do not stop one.          *)
LEMMA FramesLead ==
  ASSUME ConvInv, NEW frames \in Seq(Commands), Frames(frames), UNCHANGED sock
  PROVE  /\ UNCHANGED reattachDue /\ Coming => Coming'
         /\ frames = <<<<"attach">>>> => Coming'
         /\ sock = "down" => up' = up
<1> DEFINE all == up \o frames
<1>1. up \in Seq(Commands)
  BY DEF ConvInv, NetTyped
<1>2. /\ \A i \in DOMAIN up : i \in DOMAIN all /\ all[i] = up[i]
      /\ Len(up) \in Nat
      /\ frames = <<<<"attach">>>> => Len(up) + 1 \in DOMAIN all /\ all[Len(up) + 1] = <<"attach">>
  BY <1>1
<1>3. (sock = "open" /\ up' = all) \/ (sock # "open" /\ up' = up)
  BY Zenon DEF Frames
<1>4. sock \in {"open", "down"}
  BY DEF ConvInv, NetTyped
<1> HIDE DEF all
<1> QED
  BY <1>2, <1>3, <1>4 DEF Coming

(* What is recorded, and is not the start of a root, reaches the window.                *)
LEMMA CatchRecorded ==
  ASSUME ConvInv, CatchInv, NEW e \in Logged, ~IsStart(e), e.runner = live, live # 0,
         Record(<<e>>), ~Coming' => ~Coming, UNCHANGED <<sock, view, busy, isOpen, skip, roots>>
  PROVE  /\ IsView(view') /\ LogIsRooted' /\ Told'
         /\ store \in Seq(Frame) /\ down \in Seq(Frame) /\ <<e>> \in Seq(Frame) /\ e \in Frame
         /\ store' = store \o <<e>>
         /\ RunsInTurn' => RunsInTurn
         /\ live = roots /\ Rooted(store, Len(store) + 1, roots)
         /\ LooksLive' = LooksLive
         /\ LooksLive' /\ ~Coming' =>
              /\ down' = down \o <<e>>
              /\ AllArrives(view', down', store')
              /\ RootAt(down', Len(down') + 1, view'.root, roots')
              /\ RootAt(down, Len(down) + 1, view.root, roots)
              /\ working = 0 /\ RunsInTurn => GoesOut(down, view.root, busy)
<1> DEFINE t == <<e>>
<1>1. e \in Frame
  BY DEF Frame
<1>2. t \in Seq(Frame) /\ DOMAIN t = {1} /\ t[1] = e
  BY <1>1
<1>3. store \in Seq(Frame) /\ down \in Seq(Frame) /\ roots \in Nat
  BY FramesTyped
<1>4. store' = store \o t /\ (sock = "open" => down' = down \o t) /\ (sock # "open" => down' = down)
  BY DEF Record, Push
<1>5. live = roots /\ Rooted(store, Len(store) + 1, roots) /\ IsView(view)
  BY DEF CatchInv, LiveIsLast, LogIsRooted
<1> HIDE DEF t
<1>6. /\ Len(store) \in Nat /\ DOMAIN store = 1..Len(store)
      /\ Len(t) = 1 /\ DOMAIN store' = 1..(Len(store) + Len(t))
      /\ \A i \in 1..Len(store) : store'[i] = store[i]
      /\ \A i \in 1..Len(t) : store'[Len(store) + i] = t[i]
  <2>1. t \in Seq(Frame)
    BY <1>2
  <2>2. /\ Len(store) \in Nat /\ DOMAIN store = 1..Len(store)
        /\ DOMAIN store' = 1..(Len(store) + Len(t))
        /\ \A i \in 1..Len(store) : store'[i] = store[i]
        /\ \A i \in 1..Len(t) : store'[Len(store) + i] = t[i]
    BY <1>3, <1>4, <2>1, Joined
  <2>3. Len(t) = 1
    BY DEF t
  <2> QED
    BY <2>2, <2>3
<1>7. store'[Len(store) + 1] = e
  BY <1>2, <1>6
<1>8. LogIsRooted'
  <2>1. Rooted(store', Len(store') + 1, roots)
    BY <1>2, <1>3, <1>4, <1>5, RootStays
  <2>2. \A i \in DOMAIN store' : store'[i].runner \in 1..roots
    <3> SUFFICES ASSUME NEW i \in DOMAIN store' PROVE store'[i].runner \in 1..roots
      OBVIOUS
    <3>1. CASE i \in 1..Len(store)
      BY <1>6, <3>1 DEF CatchInv, LogIsRooted
    <3>2. CASE i \notin 1..Len(store)
      <4>1. i = Len(store) + 1
        BY <1>6, <3>2
      <4> QED
        BY <1>3, <1>5, <1>7, <4>1, ConversationAssumption DEF ConvInv, ServerTyped
    <3> QED
      BY <3>1, <3>2
  <2> QED
    BY <2>1, <2>2 DEF LogIsRooted
<1>9. Told'
  <2>1. (\E i \in DOMAIN store : Says(store[i])) => \E i \in DOMAIN store' : Says(store'[i])
    BY <1>6
  <2>2. Says(e) => \E i \in DOMAIN store' : Says(store'[i])
    BY <1>6, <1>7
  <2>3. ASSUME NEW i \in DOMAIN down', Says(down'[i])
        PROVE  Says(e) \/ \E j \in DOMAIN down : Says(down[j])
    <3>1. CASE down' = down
      BY <2>3, <3>1
    <3>2. CASE down' = down \o t
      <4>1. /\ DOMAIN down = 1..Len(down) /\ DOMAIN down' = 1..(Len(down) + Len(t))
            /\ Len(down) \in Nat
            /\ \A j \in 1..Len(down) : down'[j] = down[j]
            /\ \A j \in 1..Len(t) : down'[Len(down) + j] = t[j]
        BY <1>2, <1>3, <3>2, Joined
      <4>2. i \in 1..Len(down) \/ i = Len(down) + 1
        BY <1>6, <2>3, <4>1
      <4>3. down'[Len(down) + 1] = e
        BY <1>2, <1>6, <4>1
      <4> QED
        BY <2>3, <4>1, <4>2, <4>3
    <3> QED
      BY <1>4, <3>1, <3>2
  <2> QED
    BY <2>1, <2>2, <2>3 DEF CatchInv, Told
<1>10. RunsInTurn' => RunsInTurn
  <2>1. roots' \in Nat /\ roots <= roots'
    BY <1>3
  <2> SUFFICES ASSUME RunsInTurn' PROVE RunsInTurn
    OBVIOUS
  <2>2. store' = store \o t
    BY <1>4
  <2> QED
    BY ONLY <1>2, <1>3, <2>1, <2>2, RunsInTurn', InTurnBefore
<1>11. LooksLive' = LooksLive
  BY DEF LooksLive
<1>12. ASSUME LooksLive', ~Coming'
       PROVE  /\ down' = down \o t
              /\ AllArrives(view', down', store')
              /\ RootAt(down', Len(down') + 1, view'.root, roots')
              /\ RootAt(down, Len(down) + 1, view.root, roots)
              /\ working = 0 /\ RunsInTurn => GoesOut(down, view.root, busy)
  <2>1. sock = "open"
    BY <1>12 DEF Coming, ConvInv, NetTyped
  <2>2. /\ AllArrives(view, down, store) /\ RootAt(down, Len(down) + 1, view.root, roots)
        /\ working = 0 /\ RunsInTurn => GoesOut(down, view.root, busy)
    BY <1>11, <1>12 DEF CatchInv, WillCatchUp
  <2>3. down' = down \o t
    BY <1>4, <2>1
  <2>4. AllArrives(view, down', store')
    BY <1>2, <1>3, <1>4, <2>2, <2>3, RecordedArrives
  <2>5. RootAt(down', Len(down') + 1, view.root, roots)
    BY <1>2, <1>3, <2>2, <2>3, RootStays
  <2> QED
    BY <2>2, <2>3, <2>4, <2>5
<1> QED
  BY <1>1, <1>2, <1>3, <1>4, <1>5, <1>8, <1>9, <1>10, <1>11, <1>12 DEF t

(* What sequences that are joined, or made longer by one, have.                        *)
LEMMA JoinedIsOf ==
  ASSUME NEW E, NEW s \in Seq(E), NEW t \in Seq(E)
  PROVE  /\ Len(s \o t) = Len(s) + Len(t) /\ DOMAIN s = 1..Len(s)
         /\ \A i \in DOMAIN (s \o t) : \/ i \in DOMAIN s /\ (s \o t)[i] = s[i]
                                       \/ i - Len(s) \in DOMAIN t /\ (s \o t)[i] = t[i - Len(s)]
<1> DEFINE st == s \o t
<1>1. /\ Len(s) \in Nat /\ Len(t) \in Nat /\ DOMAIN s = 1..Len(s) /\ DOMAIN t = 1..Len(t)
      /\ Len(st) = Len(s) + Len(t) /\ DOMAIN st = 1..(Len(s) + Len(t))
      /\ \A i \in 1..Len(s) : st[i] = s[i]
      /\ \A i \in 1..Len(t) : st[Len(s) + i] = t[i]
  BY Joined
<1> HIDE DEF st
<1>2. ASSUME NEW i \in DOMAIN st, i \notin 1..Len(s)
      PROVE  i - Len(s) \in DOMAIN t /\ st[i] = t[i - Len(s)]
  <2>1. i - Len(s) \in 1..Len(t) /\ i = Len(s) + (i - Len(s))
    BY <1>1, <1>2
  <2> QED
    BY <1>1, <2>1
<1> QED
  BY <1>1, <1>2 DEF st
LEMMA AppendedIsOther ==
  ASSUME NEW E, NEW s \in Seq(E), NEW e, NEW x, e # x, \A i \in DOMAIN s : s[i] # x
  PROVE  \A i \in DOMAIN (s \o <<e>>) : (s \o <<e>>)[i] # x
<1> DEFINE t == <<e>>
           D == E \cup {e}
<1>1. s \in Seq(D) /\ t \in Seq(D) /\ DOMAIN t = {1} /\ t[1] = e
  OBVIOUS
<1> HIDE DEF t, D
<1>2. \A i \in DOMAIN (s \o t) : \/ i \in DOMAIN s /\ (s \o t)[i] = s[i]
                                 \/ i - Len(s) \in DOMAIN t /\ (s \o t)[i] = t[i - Len(s)]
  BY <1>1, JoinedIsOf
<1>3. \A i \in DOMAIN (s \o t) : (s \o t)[i] # x
  BY <1>1, <1>2
<1> QED
  BY <1>3 DEF t

-----------------------------------------------------------------------------
(* The steps of the manager.                                                   *)
LEMMA AgentEmitsCatches ==
  ASSUME ConvInv, CatchInv, NEW e \in AgentEvents(live), AgentEmits(e)
  PROVE  CatchInv'
<1> USE DEF AgentEmits
<1>1. e \in Logged
  <2>1. live \in 1..MaxRoots
    BY ConversationAssumption DEF ConvInv, ServerTyped
  <2> QED
    BY <2>1, LoggedEvents
<1>2. ~IsStart(e) /\ ~Says(e) /\ ~Ends(e) /\ e.runner = live
  BY EventFacts
<1>3. Coming' = Coming
  BY DEF Coming
<1>4. /\ IsView(view') /\ LogIsRooted' /\ Told'
      /\ store \in Seq(Frame) /\ down \in Seq(Frame) /\ <<e>> \in Seq(Frame)
      /\ store' = store \o <<e>> /\ (RunsInTurn' => RunsInTurn) /\ LooksLive' = LooksLive
      /\ LooksLive' /\ ~Coming' =>
           /\ down' = down \o <<e>> /\ AllArrives(view', down', store')
           /\ RootAt(down', Len(down') + 1, view'.root, roots')
           /\ working = 0 /\ RunsInTurn => GoesOut(down, view.root, busy)
  BY <1>1, <1>2, <1>3, CatchRecorded
<1>5. \A i \in DOMAIN <<e>> : ~Says(<<e>>[i])
  BY <1>2
<1>6. LiveIsLast'
  BY <1>2, <1>4, AppendedIsOther, EventFacts DEF CatchInv, LiveIsLast
<1>7. TurnsClose'
  BY <1>4, <1>5, QuietStays DEF CatchInv, TurnsClose
<1>8. WillCatchUp'
  <2>1. LooksLive' /\ ~Coming' /\ GoesOut(down, view.root, busy) => GoesOut(down', view.root, busy)
    BY <1>4, <1>5, QuietStays
  <2> QED
    BY <1>4, <2>1 DEF WillCatchUp
<1>9. SocketKept'
  BY DEF CatchInv, SocketKept, LooksLive, Record, Push
<1> QED
  BY <1>4, <1>6, <1>7, <1>8, <1>9 DEF CatchInv

(* The end of a turn, or of the root, puts the typing indicator out.                  *)
LEMMA EndCatches ==
  ASSUME ConvInv, CatchInv, live # 0, NEW e \in {TurnDone(live), TurnFailed(live), Finished(live, "errored")},
         Record(<<e>>), LiveIsLast', UNCHANGED <<roots, sock, ever, up, view, busy, mounted, isOpen,
                                               skip, reattachDue>>
  PROVE  CatchInv'
<1>1. e \in Logged
  <2>1. live \in 1..MaxRoots
    BY ConversationAssumption DEF ConvInv, ServerTyped
  <2> QED
    BY <2>1, LoggedEvents
<1>2. ~IsStart(e) /\ Ends(e) /\ e.runner = live
  BY EventFacts DEF IsStart
<1>3. Coming' = Coming
  BY DEF Coming
<1>4. /\ IsView(view') /\ LogIsRooted' /\ Told'
      /\ store \in Seq(Frame) /\ down \in Seq(Frame) /\ e \in Frame
      /\ store' = store \o <<e>> /\ LooksLive' = LooksLive
      /\ live = roots /\ Rooted(store, Len(store) + 1, roots)
      /\ LooksLive' /\ ~Coming' =>
           /\ down' = down \o <<e>> /\ AllArrives(view', down', store')
           /\ RootAt(down', Len(down') + 1, view'.root, roots')
           /\ RootAt(down, Len(down) + 1, view.root, roots)
  BY <1>1, <1>2, <1>3, CatchRecorded
<1>5. TurnsClose'
  <2>1. Closes(store')
    BY <1>2, <1>4, EndCloses
  <2> QED
    BY <2>1 DEF TurnsClose
<1>6. WillCatchUp'
  <2>1. LooksLive' /\ ~Coming' => GoesOut(down', view.root, busy)
    BY <1>2, <1>4, EndCloses
  <2> QED
    BY <1>4, <2>1 DEF WillCatchUp
<1>7. SocketKept'
  BY DEF CatchInv, SocketKept, LooksLive, Record, Push
<1> QED
  BY <1>4, <1>5, <1>6, <1>7 DEF CatchInv

LEMMA TurnEndsCatches ==
  ASSUME ConvInv, CatchInv, NEW failed \in BOOLEAN, TurnEnds(failed)
  PROVE  CatchInv'
<1> DEFINE e == IF failed THEN TurnFailed(live) ELSE TurnDone(live)
<1> USE DEF TurnEnds
<1>1. LiveIsLast'
  <2>1. e # Finished(live, "errored")
    BY EventFacts
  <2>2. store \in Seq(Frame) /\ store' = store \o <<e>>
    BY FramesTyped DEF Record
  <2> HIDE DEF e
  <2> QED
    BY <2>1, <2>2, AppendedIsOther DEF CatchInv, LiveIsLast
<1> QED
  BY <1>1, EndCatches

LEMMA RunEndsCatches ==
  ASSUME ConvInv, CatchInv, RunEnds
  PROVE  CatchInv'
<1> USE DEF RunEnds
<1>1. LiveIsLast'
  BY DEF LiveIsLast
<1> QED
  BY <1>1, EndCatches

(* The log is replayed to the window, as far as it goes.                               *)
LEMMA ReplayCatches ==
  ASSUME ConvInv, store' \in Seq(Frame), sock = "open" => down' = down \o store',
         sock # "open" => down' = down, LogIsRooted', TurnsClose',
         busy \/ (\E i \in DOMAIN down : Says(down[i])) => \E i \in DOMAIN store' : Says(store'[i]),
         roots' \in Nat, UNCHANGED <<sock, view, busy>>
  PROVE  Told' /\ WillCatchUp'
<1> DEFINE next == store'
<1>1. down \in Seq(Frame) /\ next \in Seq(Frame) /\ Len(next) \in Nat /\ Len(down) \in Nat
  BY FramesTyped
<1>2. CASE sock # "open"
  <2>1. Told'
    BY <1>2 DEF Told
  <2>2. Coming'
    BY <1>2 DEF Coming, ConvInv, NetTyped
  <2> QED
    BY <2>1, <2>2 DEF WillCatchUp
<1>3. CASE sock = "open"
  <2> HIDE DEF next
  <2>1. down' = down \o next
    BY <1>3 DEF next
  <2>2. /\ Len(down') = Len(down) + Len(next) /\ DOMAIN down = 1..Len(down)
        /\ \A i \in DOMAIN down' :
             \/ i \in DOMAIN down /\ down'[i] = down[i]
             \/ i - Len(down) \in DOMAIN next /\ down'[i] = next[i - Len(down)]
    BY <1>1, <2>1, JoinedIsOf
  <2>3. AllArrives(view, down', next)
    BY <1>1, <2>1, ReplayArrives
  <2>4. RootAt(down', Len(down') + 1, view.root, roots')
    <3>1. Rooted(next, Len(next) + 1, roots') /\ Len(next) + 1 \in 1..(Len(next) + 1)
      BY <1>1 DEF LogIsRooted, next
    <3>2. Rooted(down', Len(down) + (Len(next) + 1), roots')
      BY <1>1, <2>1, <3>1, RootOfReplay
    <3>3. Len(down) + (Len(next) + 1) = Len(down') + 1
      BY <1>1, <2>2
    <3> QED
      BY <3>2, <3>3 DEF RootAt
  <2>5. Told'
    BY <2>2 DEF Told, next
  <2>6. Closes(next) => GoesOut(down', view.root, busy)
    BY <1>1, <2>1, ReplayGoesOut DEF next
  <2>7. WillCatchUp'
    BY <2>3, <2>4, <2>6 DEF WillCatchUp, TurnsClose, next
  <2> QED
    BY <2>5, <2>7
<1> QED
  BY <1>2, <1>3

(* An attach has the log replayed; a send is echoed, or waits for a resume.               *)
LEMMA AttachCatches ==
  ASSUME ConvInv, CatchInv, Push(store), sock # "down",
         UNCHANGED <<store, live, roots, working, sock, ever, view, busy, mounted, isOpen, skip,
                     reattachDue>>
  PROVE  CatchInv'
<1>1. LooksLive' = LooksLive /\ RunsInTurn' = RunsInTurn
  BY DEF LooksLive, RunsInTurn
<1>2. IsView(view') /\ LiveIsLast' /\ LogIsRooted' /\ TurnsClose'
  BY <1>1 DEF CatchInv, LiveIsLast, LogIsRooted, TurnsClose
<1>3. SocketKept'
  BY DEF CatchInv, SocketKept, LooksLive
<1>4. store' \in Seq(Frame) /\ roots' \in Nat
  BY FramesTyped
<1>5. Told' /\ WillCatchUp'
  BY <1>2, <1>4, ReplayCatches DEF Push, CatchInv, Told
<1> QED
  BY <1>2, <1>3, <1>5 DEF CatchInv

LEMMA ReceivesCatches ==
  ASSUME ConvInv, CatchInv, Receives
  PROVE  CatchInv'
<1> DEFINE frame == Head(up)
<1>1. up \in Seq(Commands) /\ up # <<>> /\ up' = Tail(up) /\ sock # "down"
  BY DEF ConvInv, NetTyped, Receives, CatchInv, SocketKept
<1>2. UNCHANGED <<sock, ever, view, busy, mounted, isOpen, skip, reattachDue>>
  BY DEF Receives
<1>3. frame[1] # "attach" /\ ~Coming' => ~Coming
  <2>1. /\ Len(up) \in Nat /\ DOMAIN up = 1..Len(up) /\ frame = up[1]
        /\ \A i \in 2..Len(up) : i - 1 \in DOMAIN up' /\ up'[i - 1] = up[i]
    BY <1>1
  <2>2. ASSUME frame[1] # "attach", NEW i \in DOMAIN up, up[i] = <<"attach">>
        PROVE  \E j \in DOMAIN up' : up'[j] = <<"attach">>
    <3>1. i # 1
      BY <2>1, <2>2
    <3>2. i \in 2..Len(up)
      BY <2>1, <3>1
    <3> QED
      BY <2>1, <2>2, <3>2
  <2> HIDE DEF frame
  <2> QED
    BY <1>2, <2>2 DEF Coming
<1>4. SocketKept'
  BY <1>1, <1>2 DEF CatchInv, SocketKept, LooksLive
<1>5. CASE frame[1] = "attach" /\ Push(store) /\ UNCHANGED server
  BY <1>1, <1>2, <1>5, AttachCatches
<1>6. CASE /\ frame[1] = "send" /\ live # 0 /\ Record(<<Echo(live, frame[2])>>)
           /\ working' = working + 1 /\ UNCHANGED <<live, roots, queue, resumes>>
  <2> DEFINE e == Echo(live, frame[2])
  <2>1. e \in Logged
    <3>1. live \in 1..MaxRoots
      BY <1>6, ConversationAssumption DEF ConvInv, ServerTyped
    <3>2. frame \in Commands
      BY <1>1
    <3>3. frame[2] \in Sends \cup {None}
      BY <1>6, <3>2 DEF Commands
    <3> QED
      BY <3>1, <3>3, LoggedEvents
  <2>2. ~IsStart(e) /\ e.runner = live /\ e # Finished(live, "errored")
    BY EventFacts DEF Says, Ends
  <2> HIDE DEF e
  <2>3. Record(<<e>>)
    BY <1>6 DEF e
  <2>4. /\ IsView(view') /\ LogIsRooted' /\ Told'
        /\ store \in Seq(Frame) /\ store' = store \o <<e>>
        /\ LooksLive' /\ ~Coming' =>
             /\ AllArrives(view', down', store')
             /\ RootAt(down', Len(down') + 1, view'.root, roots')
    BY <1>2, <1>3, <1>6, <2>1, <2>2, <2>3, CatchRecorded
  <2>5. working' # 0
    BY <1>6, FramesTyped
  <2>6. LiveIsLast'
    BY <1>6, <2>2, <2>4, AppendedIsOther DEF CatchInv, LiveIsLast
  <2>7. TurnsClose' /\ WillCatchUp'
    BY <2>4, <2>5 DEF TurnsClose, WillCatchUp
  <2> QED
    BY <1>4, <2>4, <2>6, <2>7 DEF CatchInv
<1>7. CASE frame[1] # "attach" /\ UNCHANGED <<store, live, roots, working, down>>
  BY <1>2, <1>3, <1>4, <1>7, CatchStays
<1> QED
  BY <1>5, <1>6, <1>7 DEF Receives

(* A root starts where another had ended, or a resume failed.                           *)
LEMMA ResumeFailsCatches ==
  ASSUME ConvInv, CatchInv, ResumeFails
  PROVE  CatchInv'
<1> USE DEF ResumeFails
<1> DEFINE t == <<Failed>>
<1>1. t \in Seq(Frame) /\ DOMAIN t = {1} /\ t[1] = Failed
  BY DEF Frame
<1>2. ~IsStart(Failed) /\ ~Says(Failed)
  BY DEF Failed, Finished, Event, IsStart, Says
<1>3. store \in Seq(Frame) /\ down \in Seq(Frame)
  BY FramesTyped
<1>4. (sock = "open" => down' = down \o t) /\ (sock # "open" => down' = down)
  BY DEF Push, Failed
<1> HIDE DEF t
<1>5. \A i \in DOMAIN t : ~IsStart(t[i]) /\ ~Says(t[i])
  BY <1>1, <1>2
<1>6. LooksLive' = LooksLive /\ RunsInTurn' = RunsInTurn /\ Coming' = Coming
  BY DEF LooksLive, RunsInTurn, Coming
<1>7. \A i \in DOMAIN down' : Says(down'[i]) => i \in DOMAIN down /\ Says(down[i])
  <2>1. CASE down' = down \o t
    <3>1. \A i \in DOMAIN down' : \/ i \in DOMAIN down /\ down'[i] = down[i]
                                  \/ i - Len(down) \in DOMAIN t /\ down'[i] = t[i - Len(down)]
      BY <1>1, <1>3, <2>1, JoinedIsOf
    <3> QED
      BY <1>5, <3>1
  <2> QED
    BY <1>4, <2>1
<1>8. Told'
  BY <1>7 DEF CatchInv, Told
<1>9. WillCatchUp'
  <2> SUFFICES ASSUME LooksLive, ~Coming
               PROVE  /\ AllArrives(view, down', store)
                      /\ RootAt(down', Len(down') + 1, view.root, roots)
                      /\ working = 0 /\ RunsInTurn => GoesOut(down', view.root, busy)
    BY <1>6 DEF WillCatchUp
  <2>1. down' = down \o t
    BY <1>4 DEF Coming, ConvInv, NetTyped
  <2>2. /\ AllArrives(view, down, store) /\ RootAt(down, Len(down) + 1, view.root, roots)
        /\ working = 0 /\ RunsInTurn => GoesOut(down, view.root, busy)
    BY DEF CatchInv, WillCatchUp
  <2>3. AllArrives(view, down', store)
    BY <1>1, <1>3, <2>1, <2>2, ArrivesStill DEF AllArrives
  <2>4. RootAt(down', Len(down') + 1, view.root, roots)
    BY <1>1, <1>3, <1>5, <2>1, <2>2, RootStays
  <2>5. working = 0 /\ RunsInTurn => GoesOut(down', view.root, busy)
    BY <1>1, <1>3, <1>5, <2>1, <2>2, QuietStays
  <2> QED
    BY <2>3, <2>4, <2>5
<1>10. IsView(view') /\ LiveIsLast' /\ LogIsRooted' /\ TurnsClose'
  BY <1>6 DEF CatchInv, LiveIsLast, LogIsRooted, TurnsClose
<1>11. SocketKept'
  BY <1>4 DEF CatchInv, SocketKept, LooksLive
<1> QED
  BY <1>8, <1>9, <1>10, <1>11 DEF CatchInv

LEMMA SeqOfEvents ==
  ASSUME NEW E, NEW n \in Nat, NEW f \in [1..n -> E]
  PROVE  f \in Seq(E) /\ Len(f) = n
  OBVIOUS
LEMMA StartRoots ==
  ASSUME NEW E, NEW s \in Seq(E), NEW e \in E, NEW x, StartOf(e, x)
  PROVE  Rooted(s \o <<e>>, Len(s \o <<e>>) + 1, x)
<1> DEFINE st == s \o <<e>>
<1>1. Len(s) \in Nat /\ Len(st) = Len(s) + 1 /\ st[Len(s) + 1] = e
  OBVIOUS
<1> HIDE DEF st
<1>2. Len(s) + 1 \in 1..((Len(st) + 1) - 1) /\ ((Len(s) + 1) + 1)..((Len(st) + 1) - 1) = {}
  BY <1>1
<1> QED
  BY <1>1, <1>2 DEF Rooted, st
LEMMA ResumeStartsCatches ==
  ASSUME ConvInv, CatchInv, ResumeStarts
  PROVE  CatchInv'
<1> USE DEF ResumeStarts
<1> DEFINE r == roots + 1
           waiting == IF queue = None THEN <<>> ELSE queue
           echoes == [i \in DOMAIN waiting |-> Echo(r, waiting[i])]
           before == store \o echoes
           start == Started(r)
           more == echoes \o <<start>>
<1>1. r \in 1..MaxRoots /\ waiting \in Seq(Sends \cup {None})
  BY ConversationAssumption DEF ConvInv, ServerTyped
<1>2. echoes \in Seq(Frame) /\ start \in Frame /\ Len(echoes) = Len(waiting)
  <2>1. \A s \in Sends \cup {None} : Echo(r, s) \in Frame
    BY <1>1, LoggedEvents DEF Frame
  <2>2. start \in Frame
    BY <1>1, LoggedEvents DEF Frame
  <2>3. /\ \A i \in DOMAIN waiting : waiting[i] \in Sends \cup {None}
        /\ Len(waiting) \in Nat /\ DOMAIN waiting = 1..Len(waiting)
    BY <1>1
  <2> HIDE DEF r, waiting, start
  <2>4. echoes \in [1..Len(waiting) -> Frame]
    BY <2>1, <2>3, Zenon
  <2> HIDE DEF echoes
  <2>5. echoes \in Seq(Frame) /\ Len(echoes) = Len(waiting)
    BY <2>3, <2>4, SeqOfEvents
  <2> QED
    BY <2>2, <2>5
<1>3. \A i \in DOMAIN echoes : /\ Says(echoes[i]) /\ echoes[i].runner = r
                               /\ ~IsStart(echoes[i]) /\ ~Ends(echoes[i])
  BY EventFacts
<1>4. /\ live' = r /\ roots' = r /\ working' = Len(waiting)
      /\ store' = before \o <<start>> /\ Push(before \o <<start>>)
      /\ UNCHANGED <<sock, ever, up, view, busy, mounted, isOpen, skip, reattachDue>>
  OBVIOUS
<1>5. StartOf(start, r) /\ ~Says(start) /\ ~Ends(start) /\ start.runner = r
  BY EventFacts
<1>6. store \in Seq(Frame) /\ roots \in Nat /\ r \in Nat /\ r > roots
  BY FramesTyped
<1> HIDE DEF r, waiting, echoes, start, ResumeStarts
<1>7. before \in Seq(Frame) /\ store' \in Seq(Frame)
  BY <1>2, <1>4, <1>6
<1>8. more \in Seq(Frame) /\ store' = store \o more
  BY <1>2, <1>4, <1>6
<1>9. \A i \in DOMAIN before : \/ i \in DOMAIN store /\ before[i] = store[i]
                               \/ i - Len(store) \in DOMAIN echoes
                                    /\ before[i] = echoes[i - Len(store)]
  BY <1>2, <1>6, JoinedIsOf
<1> HIDE DEF before
<1>10. /\ Len(before) \in Nat /\ DOMAIN before = 1..Len(before)
       /\ DOMAIN store' = 1..(Len(before) + 1) /\ Len(store') = Len(before) + 1
       /\ store'[Len(before) + 1] = start
       /\ \A i \in 1..Len(before) : store'[i] = before[i]
  BY <1>2, <1>4, <1>7
<1>11. \A i \in DOMAIN before : before[i].runner \in 1..r
  <2>1. \A i \in DOMAIN store : store[i].runner \in 1..r
    BY <1>6 DEF CatchInv, LogIsRooted
  <2>2. r \in 1..r
    BY <1>1
  <2> QED
    BY <1>3, <1>9, <2>1, <2>2
<1>12. LogIsRooted'
  <2>1. Rooted(store', Len(store') + 1, r)
    BY <1>2, <1>4, <1>5, <1>7, StartRoots
  <2>2. \A i \in DOMAIN store' : store'[i].runner \in 1..r
    BY <1>1, <1>5, <1>10, <1>11
  <2> QED
    BY <1>4, <2>1, <2>2 DEF LogIsRooted
<1>13. LiveIsLast'
  <2> DEFINE end == Finished(r, "errored")
  <2>1. Ends(end) /\ end.runner = r
    BY EventFacts
  <2> HIDE DEF end
  <2>2. \A i \in DOMAIN store : store[i] # end
    BY <1>6, <2>1 DEF CatchInv, LogIsRooted
  <2>3. \A i \in DOMAIN before : before[i] # end
    BY <1>3, <1>9, <2>1, <2>2
  <2>4. \A i \in DOMAIN store' : store'[i] # end
    BY <1>5, <1>10, <2>1, <2>3
  <2> QED
    BY <1>1, <1>4, <2>4 DEF LiveIsLast, end
<1>14. TurnsClose'
  <2> SUFFICES ASSUME LooksLive', working' = 0, RunsInTurn' PROVE Closes(store')
    BY DEF TurnsClose
  <2>1. LooksLive
    BY <1>4 DEF LooksLive
  <2>2. RunsInTurn
    <3> HIDE DEF more
    <3>1. roots' \in Nat /\ roots <= roots'
      BY <1>4, <1>6
    <3> QED
      BY ONLY <1>6, <1>8, <3>1, RunsInTurn', InTurnBefore
  <2>3. live = 0
    <3> SUFFICES ASSUME live # 0 PROVE FALSE
      OBVIOUS
    <3> DEFINE end == Finished(roots, "errored")
    <3>1. \A i \in DOMAIN store : store[i] # end
      BY DEF CatchInv, LiveIsLast
    <3>2. Ends(end)
      BY EventFacts
    <3>3. roots' = r /\ r \in 2..r /\ r - 1 = roots
      BY <1>4, <1>6, FramesTyped DEF r
    <3>4. Len(before) + 1 \in DOMAIN store' /\ store'[Len(before) + 1] = Started(r)
      BY <1>10 DEF start
    <3>5. \A q \in 2..r : \A i \in DOMAIN store' : store'[i] = Started(q) =>
            \E j \in 1..(i - 1) : store'[j] = Finished(q - 1, "errored")
      BY <3>3 DEF RunsInTurn, Started, Finished, Event
    <3>6. PICK j \in 1..((Len(before) + 1) - 1) : store'[j] = end
      BY <3>3, <3>4, <3>5
    <3> HIDE DEF end
    <3>7. j \in DOMAIN before /\ before[j] = end
      BY <1>10, <3>6
    <3> QED
      BY <1>3, <1>9, <3>1, <3>2, <3>7
  <2>4. Closes(store)
    BY <2>1, <2>2, <2>3 DEF CatchInv, TurnsClose, LiveIsLast
  <2>5. Len(echoes) = 0
    BY <1>2, <1>4
  <2>6. \A i \in DOMAIN more : ~Says(more[i])
    <3>1. \A i \in DOMAIN more : more[i] = start
      BY <1>2, <2>5
    <3> QED
      BY <1>5, <3>1
  <2> HIDE DEF more
  <2> QED
    BY <1>6, <1>8, <2>4, <2>6, QuietStays
<1>15. busy \/ (\E i \in DOMAIN down : Says(down[i])) => \E i \in DOMAIN store' : Says(store'[i])
  <2>1. \A i \in DOMAIN store : i \in DOMAIN store' /\ store'[i] = store[i]
    BY <1>6, <1>8
  <2> QED
    BY <2>1 DEF CatchInv, Told
<1>16. Told' /\ WillCatchUp'
  BY <1>4, <1>6, <1>7, <1>12, <1>14, <1>15, ReplayCatches DEF Push
<1>17. SocketKept'
  BY <1>4 DEF CatchInv, SocketKept, LooksLive, Push
<1> QED
  BY <1>4, <1>12, <1>13, <1>14, <1>16, <1>17 DEF CatchInv

-----------------------------------------------------------------------------
(* The steps of the window. An event is applied once, or twice by a second listener.      *)
LEMMA AppliedAgain ==
  ASSUME NEW v, IsView(v), NEW b \in BOOLEAN, NEW e, KnownEvent(e)
  PROVE  LET once == ApplyOnce(v, b, e)
             twice == ApplyOnce(once[1], once[2], e)
         IN /\ once[1] = Reduce(v, e) /\ IsView(once[1]) /\ once[1].root = NextRoot(v.root, e)
            /\ once[2] = NextBusy(b, e, once[1])
            /\ Onwards(once[1], twice[1]) /\ twice[1].root = once[1].root
            /\ twice[2] = once[2]
<1> DEFINE w == Reduce(v, e)
           x == Reduce(w, e)
           c == NextBusy(b, e, w)
           d == NextBusy(c, e, x)
<1>1. Onwards(v, w) /\ IsView(w) /\ Takes(v, e, w)
  BY ReduceOnwards, KnownShows DEF Onwards
<1> HIDE DEF w
<1>2. Onwards(w, x) /\ Takes(w, e, x)
  BY <1>1, ReduceOnwards, KnownShows
<1> HIDE DEF x
<1>3. w.root = NextRoot(v.root, e) /\ x.root = NextRoot(w.root, e)
  BY <1>1, <1>2 DEF Takes, SameRunners, NextRoot
<1>4. x.root = w.root
  BY <1>3 DEF NextRoot
<1>5. d = c
  BY <1>4 DEF NextBusy
<1>6. ApplyOnce(v, b, e) = <<w, c>> /\ ApplyOnce(w, c, e) = <<x, d>>
  BY DEF ApplyOnce, w, x
<1> HIDE DEF c, d
<1> QED
  BY <1>1, <1>2, <1>3, <1>4, <1>5, <1>6 DEF w, c

LEMMA DeliversCatches ==
  ASSUME ConvInv, CatchInv, Delivers
  PROVE  CatchInv'
<1> DEFINE e == Head(down)
           once == ApplyOnce(view, busy, e)
           last == IF listening THEN ApplyOnce(once[1], once[2], e) ELSE once
<1>1. /\ down # <<>> /\ down' = Tail(down) /\ view' = last[1] /\ busy' = last[2]
      /\ UNCHANGED <<store, live, roots, working, sock, ever, up, mounted, isOpen, skip, reattachDue>>
  BY DEF Delivers
<1>2. down \in Seq(Frame) /\ KnownEvent(e) /\ busy \in BOOLEAN /\ IsView(view)
  BY <1>1, FramesTyped DEF ConvInv, WindowTyped, CatchInv
<1>3. /\ e = down[1] /\ 1 \in DOMAIN down /\ Len(down) \in Nat
      /\ \A i \in DOMAIN down' : i + 1 \in DOMAIN down /\ down'[i] = down[i + 1]
      /\ Len(down') + 1 = (Len(down) + 1) - 1 /\ Len(down) + 1 \in 2..(Len(down) + 1)
  BY <1>1, <1>2, TailOf
<1> HIDE DEF e
<1>4. /\ once[1] = Reduce(view, e) /\ IsView(once[1]) /\ once[1].root = NextRoot(view.root, e)
      /\ once[2] = NextBusy(busy, e, once[1])
      /\ IsView(last[1]) /\ Onwards(once[1], last[1]) /\ last[1].root = once[1].root
      /\ last[2] = once[2]
  <2>1. /\ once[1] = Reduce(view, e) /\ IsView(once[1]) /\ once[1].root = NextRoot(view.root, e)
        /\ once[2] = NextBusy(busy, e, once[1])
    BY <1>2, AppliedAgain
  <2>2. CASE listening
    <3> DEFINE twice == ApplyOnce(once[1], once[2], e)
    <3>1. Onwards(once[1], twice[1]) /\ twice[1].root = once[1].root /\ twice[2] = once[2]
      BY <1>2, AppliedAgain
    <3>2. last = twice
      BY <2>2
    <3> HIDE DEF once, last, twice
    <3> QED
      BY <2>1, <3>1, <3>2 DEF Onwards
  <2>3. CASE ~listening
    <3>1. last = once
      BY <2>3
    <3> HIDE DEF once, last
    <3> QED
      BY <2>1, <3>1, GrowsNot DEF Onwards
  <2> QED
    BY <2>2, <2>3
<1> HIDE DEF once, last
<1>5. LooksLive' = LooksLive /\ RunsInTurn' = RunsInTurn /\ Coming' = Coming
  BY <1>1 DEF LooksLive, RunsInTurn, Coming
<1>6. LiveIsLast' /\ LogIsRooted' /\ TurnsClose'
  BY <1>1, <1>5 DEF CatchInv, LiveIsLast, LogIsRooted, TurnsClose
<1>7. Told'
  <2>1. busy' => busy \/ Says(e)
    BY <1>1, <1>4 DEF NextBusy, Says
  <2> QED
    BY <1>1, <1>3, <2>1 DEF CatchInv, Told
<1>8. WillCatchUp'
  <2> SUFFICES ASSUME LooksLive, ~Coming
               PROVE  /\ AllArrives(view', down', store)
                      /\ RootAt(down', Len(down') + 1, view'.root, roots)
                      /\ working = 0 /\ RunsInTurn => GoesOut(down', view'.root, busy')
    BY <1>1, <1>5 DEF WillCatchUp
  <2>1. /\ AllArrives(view, down, store) /\ RootAt(down, Len(down) + 1, view.root, roots)
        /\ working = 0 /\ RunsInTurn => GoesOut(down, view.root, busy)
    BY DEF CatchInv, WillCatchUp
  <2>2. AllArrives(once[1], down', store)
    BY <1>1, <1>2, <1>4, <2>1, DeliveredArrives DEF e
  <2>3. AllArrives(view', down', store)
    BY <1>1, <1>4, <2>2, ArrivesOnwards
  <2>4. RootAt(down', Len(down') + 1, view'.root, roots)
    BY <1>1, <1>2, <1>3, <1>4, <2>1, DeliveredRoot DEF e
  <2>5. working = 0 /\ RunsInTurn => GoesOut(down', view'.root, busy')
    BY <1>1, <1>2, <1>4, <2>1, DeliveredGoesOut DEF e
  <2> QED
    BY <2>3, <2>4, <2>5
<1>9. SocketKept'
  <2>1. sock = "down" => FALSE
    BY <1>1 DEF CatchInv, SocketKept
  <2> QED
    BY <1>1, <2>1 DEF CatchInv, SocketKept, LooksLive
<1> QED
  BY <1>1, <1>4, <1>6, <1>7, <1>8, <1>9 DEF CatchInv

(* The steps of the window that leave what it shows and is sent alone.                 *)
LEMMA SendsCatch ==
  ASSUME ConvInv, CatchInv,
         \/ \E s \in Sends : UserSends(s) \/ AckTimeout(s) \/ UserTakesBack(s)
         \/ UserInterrupts \/ Leaves \/ Comes
  PROVE  CatchInv'
<1>1. CASE \E s \in Sends : UserSends(s)
  <2>1. PICK s \in Sends : UserSends(s)
    BY <1>1
  <2>2. /\ Frames(<<<<"send", s>>>>)
        /\ UNCHANGED <<store, live, roots, working, sock, ever, down, view, busy, mounted, isOpen,
                       skip, reattachDue>>
    BY <2>1 DEF UserSends
  <2>3. <<<<"send", s>>>> \in Seq(Commands)
    BY DEF Commands
  <2>4. (Coming => Coming') /\ (sock = "down" => up' = up)
    BY <2>2, <2>3, FramesLead
  <2>5. SocketKept'
    BY <2>2, <2>4 DEF CatchInv, SocketKept, LooksLive
  <2> QED
    BY <2>2, <2>4, <2>5, CatchStays
<1>2. CASE \E s \in Sends : AckTimeout(s) \/ UserTakesBack(s)
  <2>1. UNCHANGED <<store, live, roots, working, sock, ever, up, down, view, busy, mounted,
                    isOpen, skip, reattachDue>>
    BY <1>2 DEF AckTimeout, UserTakesBack
  <2>2. SocketKept' /\ (Coming' = Coming)
    BY <2>1 DEF CatchInv, SocketKept, LooksLive, Coming
  <2> QED
    BY <2>1, <2>2, CatchStays
<1>3. CASE UserInterrupts
  <2>2. /\ Frames(<<<<"interrupt">>>>)
        /\ UNCHANGED <<store, live, roots, working, sock, ever, down, view, busy, mounted, isOpen,
                       skip, reattachDue>>
    BY <1>3 DEF UserInterrupts
  <2>3. <<<<"interrupt">>>> \in Seq(Commands)
    BY DEF Commands
  <2>4. (Coming => Coming') /\ (sock = "down" => up' = up)
    BY <2>2, <2>3, FramesLead
  <2>5. SocketKept'
    BY <2>2, <2>4 DEF CatchInv, SocketKept, LooksLive
  <2> QED
    BY <2>2, <2>4, <2>5, CatchStays
<1>4. CASE Leaves
  <2>1. /\ mounted' = FALSE
        /\ UNCHANGED <<store, live, roots, working, sock, ever, up, down, view, busy, isOpen, skip,
                       reattachDue>>
    BY <1>4 DEF Leaves
  <2>2. SocketKept' /\ (Coming' = Coming)
    BY <2>1 DEF CatchInv, SocketKept, LooksLive, Coming
  <2> QED
    BY <2>1, <2>2, CatchStays
<1>5. CASE Comes
  <2>1. /\ isOpen
        /\ Frames(<<<<"attach">>>>) \/ UNCHANGED up
        /\ UNCHANGED <<store, live, roots, working, sock, ever, down, view, busy, isOpen, skip,
                       reattachDue>>
    BY <1>5 DEF Comes, Mount
  <2>2. <<<<"attach">>>> \in Seq(Commands)
    BY DEF Commands
  <2>3. (Coming => Coming') /\ (sock = "down" => up' = up)
    <3>1. CASE Frames(<<<<"attach">>>>)
      BY <2>1, <2>2, <3>1, FramesLead
    <3>2. CASE UNCHANGED up
      BY <2>1, <3>2 DEF Coming
    <3> QED
      BY <2>1, <3>1, <3>2
  <2>4. SocketKept'
    BY <2>1, <2>3 DEF CatchInv, SocketKept, LooksLive
  <2> QED
    BY <2>1, <2>3, <2>4, CatchStays
<1> QED
  BY <1>1, <1>2, <1>3, <1>4, <1>5, Zenon

(* The steps of the socket, and those that start the view anew.                        *)
LEMMA SocketCatches ==
  ASSUME ConvInv, CatchInv,
         Reopens \/ Reattaches \/ \E reported \in BOOLEAN : Drops(reported)
  PROVE  CatchInv'
<1>1. CASE \E reported \in BOOLEAN : Drops(reported)
  <2>1. /\ sock' = "down" /\ up' = <<>> /\ down' = <<>>
        /\ UNCHANGED <<store, live, roots, working, ever, view, busy, mounted, isOpen, skip,
                       reattachDue>>
    BY <1>1 DEF Drops
  <2>2. Coming' /\ (LooksLive' => LooksLive)
    BY <2>1 DEF Coming, LooksLive
  <2>3. SocketKept' /\ LiveIsLast'
    BY <2>1 DEF CatchInv, SocketKept, LooksLive, LiveIsLast
  <2> QED
    BY <2>1, <2>2, <2>3, CatchAgain
<1>2. CASE Reopens
  <2>1. /\ sock' = "open" /\ ever' = TRUE /\ reattachDue' = ever
        /\ UNCHANGED <<store, live, roots, working, down, view, busy, mounted, isOpen, skip>>
    BY <1>2 DEF Reopens
  <2>2. LooksLive' => LooksLive /\ Coming'
    BY <2>1 DEF CatchInv, SocketKept, Coming, LooksLive
  <2>3. SocketKept' /\ LiveIsLast'
    BY <2>1 DEF CatchInv, SocketKept, LiveIsLast
  <2> QED
    BY <2>1, <2>2, <2>3, CatchAgain
<1>3. CASE Reattaches
  <2>1. /\ (isOpen /\ ResetView /\ Frames(<<<<"attach">>>>))
             \/ (~isOpen /\ UNCHANGED <<view, busy, up>>)
        /\ UNCHANGED <<store, live, roots, working, sock, ever, down, mounted, isOpen, skip>>
    BY <1>3 DEF Reattaches
  <2>2. <<<<"attach">>>> \in Seq(Commands)
    BY DEF Commands
  <2>3. /\ view' \in {view, NoRun} /\ busy' \in {busy, FALSE} /\ (isOpen => Coming')
        /\ sock = "down" => up' = up
    <3>1. CASE isOpen /\ ResetView /\ Frames(<<<<"attach">>>>)
      BY <2>1, <2>2, <3>1, FramesLead DEF ResetView
    <3>2. CASE ~isOpen /\ UNCHANGED <<view, busy, up>>
      BY <3>2
    <3> QED
      BY <2>1, <3>1, <3>2
  <2>4. LooksLive' => LooksLive /\ Coming'
    BY <2>1, <2>3 DEF LooksLive
  <2>5. SocketKept' /\ LiveIsLast'
    BY <2>1, <2>3 DEF CatchInv, SocketKept, LooksLive, LiveIsLast
  <2> QED
    BY <2>1, <2>3, <2>4, <2>5, CatchAgain
<1> QED
  BY <1>1, <1>2, <1>3

LEMMA StartsCatch ==
  ASSUME ConvInv, CatchInv,
         \/ ResumesFromReplay
         \/ \E retry \in BOOLEAN : StartWatchdog(retry)
         \/ \E restart \in BOOLEAN : Reloads(restart)
  PROVE  CatchInv'
<1>1. CASE ResumesFromReplay
  <2>1. /\ isOpen' = TRUE /\ skip' = TRUE /\ Frames(<<<<"send", None>>>>)
        /\ UNCHANGED <<store, live, roots, working, sock, ever, down, view, busy, reattachDue>>
    BY <1>1 DEF ResumesFromReplay
  <2>2. <<<<"send", None>>>> \in Seq(Commands)
    BY DEF Commands
  <2>3. sock = "down" => up' = up
    BY <2>1, <2>2, FramesLead
  <2>4. ~LooksLive'
    BY <2>1 DEF LooksLive
  <2>5. SocketKept' /\ LiveIsLast'
    BY <2>1, <2>3, <2>4 DEF CatchInv, SocketKept, LiveIsLast
  <2> QED
    BY <2>1, <2>4, <2>5, CatchAgain
<1>2. CASE \E retry \in BOOLEAN : StartWatchdog(retry)
  <2>1. /\ ResetView /\ Frames(<<<<"attach">>>>)
        /\ UNCHANGED <<store, live, roots, working, sock, ever, down, mounted, isOpen, skip,
                       reattachDue>>
    BY <1>2 DEF StartWatchdog
  <2>2. <<<<"attach">>>> \in Seq(Commands)
    BY DEF Commands
  <2>3. Coming' /\ (sock = "down" => up' = up)
    BY <2>1, <2>2, FramesLead
  <2>4. LooksLive' => LooksLive
    BY <2>1 DEF LooksLive
  <2>5. SocketKept' /\ LiveIsLast'
    BY <2>1, <2>3 DEF CatchInv, SocketKept, LooksLive, LiveIsLast
  <2> QED
    BY <2>1, <2>3, <2>4, <2>5, CatchAgain DEF ResetView
<1>3. CASE \E restart \in BOOLEAN : Reloads(restart)
  <2>1. /\ sock' = "down" /\ up' = <<>> /\ down' = <<>> /\ ResetView
        /\ mounted' = FALSE /\ isOpen' = FALSE
        /\ (live' = 0 /\ working' = 0) \/ UNCHANGED <<live, working>>
        /\ UNCHANGED <<store, roots>>
    BY <1>3 DEF Reloads
  <2>2. ~LooksLive'
    BY <2>1 DEF LooksLive
  <2>3. SocketKept'
    BY <2>1, <2>2 DEF SocketKept
  <2>4. LiveIsLast'
    BY <2>1 DEF CatchInv, LiveIsLast
  <2> QED
    BY <2>1, <2>2, <2>3, <2>4, CatchAgain DEF ResetView
<1> QED
  BY <1>1, <1>2, <1>3

LEMMA CatchInit == ConvInit => CatchInv
<1> SUFFICES ASSUME ConvInit PROVE CatchInv
  OBVIOUS
<1> USE DEF ConvInit
<1> DEFINE e == Started(1)
           s == <<e>>
<1>1. StartOf(e, 1) /\ ~Says(e) /\ ~Ends(e) /\ e.runner = 1
  BY EventFacts
<1>2. store = s /\ down = s /\ roots = 1 /\ live = 1 /\ working = 0 /\ ~busy
  OBVIOUS
<1> HIDE DEF e
<1>3. DOMAIN s = {1} /\ s[1] = e /\ Len(s) = 1
  OBVIOUS
<1> HIDE DEF s
<1>4. IsView(view)
  BY NoRunIsView
<1>5. LiveIsLast
  BY <1>1, <1>2, <1>3, EventFacts DEF LiveIsLast
<1>6. LogIsRooted
  <2>1. Rooted(s, Len(s) + 1, 1)
    BY <1>1, <1>3 DEF Rooted
  <2>2. \A i \in DOMAIN s : s[i].runner \in 1..1
    BY <1>1, <1>3
  <2> QED
    BY <1>2, <2>1, <2>2 DEF LogIsRooted
<1>7. TurnsClose
  BY <1>1, <1>2, <1>3 DEF TurnsClose, Closes
<1>8. SocketKept
  BY DEF SocketKept
<1>9. Told
  BY <1>1, <1>2, <1>3 DEF Told
<1>10. WillCatchUp
  <2>1. 1 \in DOMAIN up /\ up[1] = <<"attach">>
    OBVIOUS
  <2> QED
    BY <2>1 DEF WillCatchUp, Coming
<1> QED
  BY <1>4, <1>5, <1>6, <1>7, <1>8, <1>9, <1>10 DEF CatchInv

LEMMA CatchKept ==
  ASSUME ConvInv, CatchInv, [ConvNext]_convVars
  PROVE  CatchInv'
<1>1. ASSUME NEW e \in AgentEvents(live), AgentEmits(e)
      PROVE CatchInv'
  BY <1>1, AgentEmitsCatches
<1>2. CASE (\E failed \in BOOLEAN : TurnEnds(failed))
             \/ RunEnds \/ Receives \/ ResumeStarts \/ ResumeFails
  BY <1>2, TurnEndsCatches, RunEndsCatches, ReceivesCatches, ResumeStartsCatches,
     ResumeFailsCatches
<1>3. CASE Delivers
  BY <1>3, DeliversCatches
<1>4. ASSUME NEW s \in Sends, UserSends(s) \/ AckTimeout(s) \/ UserTakesBack(s)
      PROVE CatchInv'
  BY <1>4, SendsCatch
<1>5. ASSUME NEW reported \in BOOLEAN, Drops(reported)
      PROVE CatchInv'
  BY <1>5, SocketCatches
<1>6. CASE UserInterrupts \/ Leaves \/ Comes
  BY <1>6, SendsCatch
<1>7. CASE Reopens \/ Reattaches
  BY <1>7, SocketCatches
<1>8. ASSUME NEW retry \in BOOLEAN, StartWatchdog(retry)
      PROVE CatchInv'
  BY <1>8, StartsCatch
<1>9. ASSUME NEW restart \in BOOLEAN, Reloads(restart)
      PROVE CatchInv'
  BY <1>9, StartsCatch
<1>10. CASE ResumesFromReplay
  BY <1>10, StartsCatch
<1>11. CASE UNCHANGED convVars
  <2>1. UNCHANGED <<store, live, roots, working, sock, ever, up, down, view, busy, mounted,
                    isOpen, skip, reattachDue>>
    BY <1>11 DEF convVars
  <2>2. SocketKept' /\ (Coming' = Coming)
    BY <2>1 DEF CatchInv, SocketKept, LooksLive, Coming
  <2> QED
    BY <2>1, <2>2, CatchStays
<1> HIDE DEF server, net, shown, page, outbox
<1> QED
  BY <1>1, <1>2, <1>3, <1>4, <1>5, <1>6, <1>7, <1>8, <1>9, <1>10, <1>11, Zenon DEF ConvNext

(* When all is quiet, nothing is left to arrive.                                     *)
LEMMA CatchIsSeen ==
  ASSUME ConvInv, CatchInv
  PROVE  ViewCatchesUp
<1> SUFFICES ASSUME Quiet, mounted, ~skip
             PROVE  /\ \A i \in DOMAIN store :
                         /\ IsStart(store[i]) => store[i].runner \in DOMAIN view.runners
                         /\ /\ IsStart(store[i])
                            /\ \A j \in (i + 1)..Len(store) : ~IsStart(store[j])
                            => view.root = store[i].runner
                         /\ Shows(store[i]) /\ ~Early(i) => InView(view, store[i])
                    /\ RunsInTurn /\ working = 0 /\ live # 0 => ~busy
  BY Zenon DEF ViewCatchesUp
<1>1. LooksLive /\ ~Coming /\ down = <<>>
  BY DEF Quiet, CatchInv, SocketKept, LooksLive, Coming
<1>2. /\ AllArrives(view, down, store) /\ RootAt(down, Len(down) + 1, view.root, roots)
      /\ working = 0 /\ RunsInTurn => GoesOut(down, view.root, busy)
  BY <1>1 DEF CatchInv, WillCatchUp
<1>3. DOMAIN down = {} /\ 1..((Len(down) + 1) - 1) = {}
  BY <1>1
<1>4. view.root = roots
  BY <1>2, <1>3 DEF RootAt, Rooted
<1>5. ASSUME NEW i \in DOMAIN store, IsStart(store[i])
      PROVE  store[i].runner \in DOMAIN view.runners
  BY <1>2, <1>3, <1>5 DEF AllArrives, Begins
<1>6. ASSUME NEW i \in DOMAIN store, IsStart(store[i]),
             \A j \in (i + 1)..Len(store) : ~IsStart(store[j])
      PROVE  view.root = store[i].runner
  <2>1. Len(store) \in Nat /\ DOMAIN store = 1..Len(store)
    BY FramesTyped
  <2>2. PICK p \in 1..Len(store) : StartOf(store[p], roots)
                                    /\ \A m \in (p + 1)..Len(store) : ~IsStart(store[m])
    BY <2>1 DEF CatchInv, LogIsRooted, Rooted
  <2>3. p = i
    BY <1>6, <2>1, <2>2 DEF StartOf
  <2> QED
    BY <1>4, <2>2, <2>3 DEF StartOf
<1>7. ASSUME NEW i \in DOMAIN store, Shows(store[i]), ~Early(i)
      PROVE  InView(view, store[i])
  <2>1. Arrives(view, down, store[i])
    BY <1>2, <1>7 DEF AllArrives, Early
  <2> QED
    BY <1>3, <2>1 DEF Arrives
<1>8. RunsInTurn /\ working = 0 => ~busy
  BY <1>2, <1>3 DEF GoesOut
<1> QED
  BY <1>5, <1>6, <1>7, <1>8

-----------------------------------------------------------------------------
(* When nothing is on its way, a live view that attached, whatever was lost, replayed or *)
(* delivered twice before, has every runner of the log and the last root as its root,   *)
(* shows the item of every event that was logged after its runner started, and no      *)
(* typing indicator for turns that are over (app.tsx and RunDetail.tsx, which attach;    *)
(* runViewStore.ts, which applies).  Of the turns a resume flushes the log has the echo   *)
(* before the start of their runner; those are never shown (ResumedTurnIsShown).         *)
THEOREM ViewsCatchUp == ConvSpec => []ViewCatchesUp
<1>1. ConvInv /\ CatchInv /\ [ConvNext]_convVars => CatchInv'
  BY CatchKept
<1>2. ConvInv /\ CatchInv => ViewCatchesUp
  BY CatchIsSeen
<1> QED
  BY <1>1, <1>2, CatchInit, ConversationIsSound, PTL DEF ConvSpec
===============================================================================

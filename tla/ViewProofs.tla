------------------------------ MODULE ViewProofs ------------------------------
(***************************************************************************)
(* Proofs about what the windows of the application show and send, as MCDesktop     *)
(* puts their components side by side, for any bounds: the geometry, focus and      *)
(* pages of the windows, the composer's files, the terminals, the notices, the       *)
(* settings pages and the launches.  Each has an inductive invariant of its own,     *)
(* and the last section puts them together.                                     *)
(***************************************************************************)
EXTENDS MCDesktop, TLAPS, Sequences, WellFoundedInduction

-----------------------------------------------------------------------------
(***************************************************************************)
(* Numbers, and sequences.                                                      *)
(***************************************************************************)

(* Induction: a property of no number has no least counterexample.                 *)
LEMMA NoLeast ==
  ASSUME NEW S, S \subseteq Nat, \A n \in S : \E m \in S : m < n
  PROVE  S = {}
<1> DEFINE less == OpToRel(<, Nat)
<1>1. IsWellFoundedOn(less, Nat)
  BY NatLessThanWellFounded
<1>2. \A x, y \in Nat : y < x => <<y, x>> \in less
  <2> SUFFICES ASSUME NEW x \in Nat, NEW y \in Nat, y < x
               PROVE <<y, x>> \in less
    OBVIOUS
  <2> DEFINE pair == <<y, x>>
  <2>1. pair \in Nat \X Nat /\ pair[1] < pair[2]
    OBVIOUS
  <2>2. pair \in {ss \in Nat \X Nat : ss[1] < ss[2]}
    <3> HIDE DEF pair
    <3> QED
      BY <2>1
  <2> QED
    BY <2>2, Zenon DEF OpToRel
<1> HIDE DEF less
<1>3. SUFFICES ASSUME S # {} PROVE FALSE
  OBVIOUS
<1>4. PICK x \in S : \A y \in S : ~ (<<y, x>> \in less)
  BY <1>1, <1>3, WFMin
<1> QED
  BY <1>2, <1>4

(* A set of numbers has a least.                                                  *)
LEMMA HasLeast ==
  ASSUME NEW S, S \subseteq Nat, S # {}
  PROVE  \E m \in S : \A k \in S : m <= k
<1> SUFFICES ASSUME ~ \E m \in S : \A k \in S : m <= k PROVE FALSE
  OBVIOUS
<1>1. \A n \in S : \E m \in S : m < n
  OBVIOUS
<1> QED
  BY <1>1, NoLeast

(* A sequence without one of its places.                                             *)
LEMMA OneRemoved ==
  ASSUME NEW S, NEW s \in Seq(S), NEW i \in DOMAIN s
  PROVE  LET rest == SubSeq(s, 1, i - 1) \o SubSeq(s, i + 1, Len(s)) IN
           /\ rest \in Seq(S) /\ Len(rest) = Len(s) - 1
           /\ \A k \in DOMAIN rest : rest[k] = IF k < i THEN s[k] ELSE s[k + 1]
<1> DEFINE a == SubSeq(s, 1, i - 1)
           b == SubSeq(s, i + 1, Len(s))
           rest == a \o b
<1> SUFFICES /\ rest \in Seq(S) /\ Len(rest) = Len(s) - 1
             /\ \A k \in DOMAIN rest : rest[k] = IF k < i THEN s[k] ELSE s[k + 1]
  OBVIOUS
<1>1. rest = a \o b
  OBVIOUS
<1>2. Len(s) \in Nat /\ i \in 1..Len(s)
  OBVIOUS
<1>3. a \in Seq(S) /\ Len(a) = i - 1 /\ \A k \in 1..(i - 1) : a[k] = s[k]
  BY <1>2
<1>4. b \in Seq(S) /\ Len(b) = Len(s) - i /\ \A k \in 1..(Len(s) - i) : b[k] = s[i + k]
  BY <1>2
<1> HIDE DEF a, b, rest
<1>5. rest \in Seq(S) /\ Len(rest) = Len(s) - 1
  BY <1>1, <1>2, <1>3, <1>4
<1>6. ASSUME NEW k \in 1..(Len(s) - 1) PROVE rest[k] = IF k < i THEN s[k] ELSE s[k + 1]
  <2>1. \A x, y \in Seq(S) : \A n \in 1..(Len(x) + Len(y)) :
          (x \o y)[n] = IF n <= Len(x) THEN x[n] ELSE y[n - Len(x)]
    OBVIOUS
  <2>2. k \in 1..(Len(a) + Len(b))
    BY <1>2, <1>3, <1>4
  <2>3. rest[k] = IF k <= Len(a) THEN a[k] ELSE b[k - Len(a)]
    BY <1>1, <1>3, <1>4, <2>1, <2>2
  <2>4. CASE k < i
    BY <1>2, <1>3, <2>3, <2>4
  <2>5. CASE ~(k < i)
    <3> DEFINE m == k - (i - 1)
    <3>1. m \in 1..(Len(s) - i) /\ i + m = k + 1
      BY <1>2, <2>5
    <3>2. rest[k] = b[m]
      BY <1>2, <1>3, <2>3, <2>5
    <3> HIDE DEF m
    <3> QED
      BY <1>4, <2>5, <3>1, <3>2
  <2> QED
    BY <2>4, <2>5
<1>7. DOMAIN rest = 1..(Len(s) - 1)
  BY <1>5
<1> QED
  BY <1>5, <1>6, <1>7

-----------------------------------------------------------------------------
(***************************************************************************)
(* The windows: their geometry, their focus and their pages.                      *)
(***************************************************************************)

Documented == [bounds : Shown!Geometries \cup {None}, edits : Nat, revision : Nat]
Settling(w) == pendingBounds[w] # None
Unsettled == \E w \in Shown!WindowIds : Settling(w)
EditsUnderWay == IF saving = None THEN 0 ELSE 1

WindowTypes ==
  /\ windows \in [Shown!WindowIds -> {"none", "loading", "open"}]
  /\ DOMAIN openFrames = Shown!WindowIds /\ DOMAIN pages = Shown!WindowIds
  /\ config \in Documented /\ saving \in Documented \cup {None}
  /\ pendingBounds \in [Shown!WindowIds -> [bounds : Shown!Geometries, by : 1..moves] \cup {None}]
  /\ flushes \subseteq [by : 1..moves, bounds : Shown!Geometries, from : Documented]
  /\ moves \in Nat /\ saves \in Nat /\ saves <= MaxSaves /\ focusTurns \in Nat
  /\ holder \in 0..MaxWindows /\ focusEvents \in Seq({"blur", "focus"})
  /\ focused \in BOOLEAN /\ crossedSaves \in BOOLEAN

(* A document has one content for each save that was made of it, and counts no edit more      *)
(* than were begun.                                                               *)
OfOneFile(d) ==
  /\ d.revision <= config.revision
  /\ d.revision = config.revision => d = config
  /\ d.edits + EditsUnderWay <= saves
FilesFollow ==
  /\ OfOneFile(config)
  /\ saving # None => OfOneFile(saving)
  /\ \A f \in flushes : OfOneFile(f.from)
  /\ ~crossedSaves => config.edits + EditsUnderWay = saves

(* The last geometry waits for its debounce, or is on its way to the file, or is in it and    *)
(* what is still on its way was loaded before.                                        *)
LastIsKept ==
  /\ \A w \in Shown!WindowIds : \A v \in Shown!WindowIds :
       Settling(w) /\ Settling(v) /\ pendingBounds[w].by = pendingBounds[v].by => w = v
  /\ ~crossedSaves /\ lastMove # None =>
       \/ \E w \in Shown!WindowIds :
            Settling(w) /\ pendingBounds[w].by = moves /\ pendingBounds[w].bounds = lastMove
       \/ /\ ~Unsettled
          /\ \E f \in flushes : f.by = moves /\ f.bounds = lastMove
       \/ /\ ~Unsettled /\ config.bounds = lastMove
          /\ \A f \in flushes : f.from.revision < config.revision

FramesFit == \A w \in Shown!WindowIds : openFrames[w] # None => openFrames[w] \in {"here", "there", Shown!DefaultBounds}

(* The last event about the focus says where it is.                                     *)
FocusFollows ==
  focusTurns > 0 =>
    IF focusEvents = <<>> THEN focused = (holder # 0)
    ELSE focusEvents[Len(focusEvents)] = IF holder = 0 THEN "blur" ELSE "focus"

WindowInv == WindowTypes /\ FilesFollow /\ LastIsKept /\ FramesFit /\ FocusFollows /\ Shown!PagesAreOwn

(* The bounds are numbers, and None is no document and no geometry.                       *)
LEMMA WindowBounds ==
  /\ MaxWindows \in Nat /\ MaxSaves \in Nat /\ None \notin Documented
  /\ \A n \in Nat : None \notin [bounds : Shown!Geometries, by : 1..n]
<1>1. MaxWindows \in Nat /\ MaxSaves \in Nat /\ None \notin Documented
  BY WindowsAssumption DEF Documented
<1>2. None \notin [bounds : Shown!Geometries, by : Nat]
  BY WindowsAssumption
<1> QED
  BY <1>1, <1>2

(* What the invariant says is what the windows promise.                                *)
LEMMA WindowInvSound == WindowInv => Shown!WindowsAreSound
<1> SUFFICES ASSUME WindowInv PROVE Shown!WindowsAreSound
  OBVIOUS
<1>1. Shown!FocusIsTold
  BY DEF WindowInv, FocusFollows, Shown!FocusIsTold
<1>2. Shown!BoundsAreKept
  <2> DEFINE Still == \A w \in Shown!WindowIds : pendingBounds[w] = None
             Done == (lastMove # None => config.bounds = lastMove) /\ config.edits = saves
  <2>0. FramesFit
    BY DEF WindowInv
  <2> SUFFICES ASSUME Still, flushes = {}, saving = None, ~crossedSaves
               PROVE  Done
    BY <2>0, Zenon DEF FramesFit, Shown!BoundsAreKept
  <2>1. lastMove # None => config.bounds = lastMove
    BY DEF WindowInv, LastIsKept, Settling
  <2>2. config.edits = saves
    BY DEF WindowInv, WindowTypes, FilesFollow, EditsUnderWay, Documented
  <2> QED
    BY <2>1, <2>2
<1> QED
  BY <1>1, <1>2 DEF WindowInv, Shown!WindowsAreSound

(* The invariant holds at the start.                                              *)
LEMMA WindowInvInit == Shown!WindowsInit => WindowInv
<1> SUFFICES ASSUME Shown!WindowsInit PROVE WindowInv
  OBVIOUS
<1>0. /\ windows = [w \in Shown!WindowIds |-> "none"] /\ openFrames = [w \in Shown!WindowIds |-> None]
      /\ pages = [w \in Shown!WindowIds |-> None]
      /\ \E g \in Shown!Geometries \cup {None} : config = [bounds |-> g, edits |-> 0, revision |-> 0]
      /\ pendingBounds = [w \in Shown!WindowIds |-> None]
      /\ flushes = {} /\ saving = None /\ holder = 0 /\ focusEvents = <<>> /\ focused = TRUE
      /\ external = {} /\ moves = 0 /\ saves = 0 /\ focusTurns = 0 /\ lastMove = None
      /\ crossedSaves = FALSE
  BY DEF Shown!WindowsInit
<1>1. config \in Documented /\ config.revision = 0 /\ config.edits = 0
  BY <1>0 DEF Documented
<1>2. WindowTypes
  <2>1. /\ windows \in [Shown!WindowIds -> {"none", "loading", "open"}]
        /\ DOMAIN openFrames = Shown!WindowIds /\ DOMAIN pages = Shown!WindowIds
        /\ \A S : pendingBounds \in [Shown!WindowIds -> S \cup {None}]
    BY <1>0
  <2>2. /\ moves \in Nat /\ saves \in Nat /\ saves <= MaxSaves /\ focusTurns \in Nat
        /\ holder \in 0..MaxWindows /\ focusEvents \in Seq({"blur", "focus"})
    BY <1>0, WindowBounds
  <2> QED
    BY <1>0, <1>1, <2>1, <2>2 DEF WindowTypes
<1>3. FilesFollow
  BY <1>0, <1>1 DEF FilesFollow, OfOneFile, EditsUnderWay
<1>4. LastIsKept /\ FramesFit /\ FocusFollows
  BY <1>0 DEF LastIsKept, FramesFit, FocusFollows, Settling
<1>5. Shown!PagesAreOwn
  BY <1>0 DEF Shown!PagesAreOwn
<1> QED
  BY <1>2, <1>3, <1>4, <1>5 DEF WindowInv

(* Steps that leave the geometry alone.                                             *)
GeometryStays == UNCHANGED <<config, pendingBounds, flushes, saving, moves, saves, lastMove, crossedSaves>>
LEMMA GeometryKept ==
  ASSUME WindowInv, GeometryStays
  PROVE  FilesFollow' /\ LastIsKept'
<1>1. FilesFollow'
  BY DEF WindowInv, GeometryStays, FilesFollow, OfOneFile, EditsUnderWay
<1>2. LastIsKept'
  BY DEF WindowInv, GeometryStays, LastIsKept, Settling, Unsettled
<1> QED
  BY <1>1, <1>2
FocusStill == UNCHANGED <<holder, focusEvents, focused, focusTurns>>
PagesStill == UNCHANGED <<external, pages, trips>>

(* A window opens, is shown, and goes somewhere.                                      *)
LEMMA WindowOpens == WindowInv /\ Shown!OpenWindow => WindowInv'
<1> SUFFICES ASSUME WindowInv, Shown!OpenWindow PROVE WindowInv'
  OBVIOUS
<1>0. PICK w \in Shown!WindowIds : windows' = [windows EXCEPT ![w] = "loading"]
  BY DEF Shown!OpenWindow
<1>1. UNCHANGED openFrames /\ FocusStill /\ PagesStill /\ GeometryStays
  BY DEF Shown!OpenWindow, Shown!keepFocus, Shown!keepPages, Shown!keepBounds, FocusStill, PagesStill,
         GeometryStays
<1>2. FilesFollow' /\ LastIsKept'
  BY <1>1, GeometryKept
<1>3. WindowTypes'
  BY <1>0, <1>1 DEF WindowInv, WindowTypes, FocusStill, PagesStill, GeometryStays
<1>4. FramesFit' /\ FocusFollows'
  BY <1>1 DEF WindowInv, FramesFit, FocusFollows, FocusStill
<1>5. Shown!PagesAreOwn'
  BY <1>0, <1>1 DEF WindowInv, WindowTypes, Shown!PagesAreOwn, PagesStill
<1> QED
  BY <1>2, <1>3, <1>4, <1>5 DEF WindowInv

LEMMA WindowLoads ==
  ASSUME WindowInv, NEW w \in Shown!WindowIds, Shown!BoundsLoaded(w)
  PROVE  WindowInv'
<1>0. /\ windows' = [windows EXCEPT ![w] = "open"] /\ pages' = [pages EXCEPT ![w] = "own"]
      /\ UNCHANGED external
      /\ \/ openFrames' = [openFrames EXCEPT ![w] = Shown!Frame(config.bounds)]
         \/ openFrames' = [openFrames EXCEPT ![w] = Shown!DefaultBounds]
  BY DEF Shown!BoundsLoaded
<1>1. FocusStill /\ GeometryStays
  BY DEF Shown!BoundsLoaded, Shown!keepFocus, Shown!keepBounds, FocusStill, GeometryStays
<1>2. FilesFollow' /\ LastIsKept'
  BY <1>1, GeometryKept
<1>3. WindowTypes'
  BY <1>0, <1>1 DEF WindowInv, WindowTypes, FocusStill, GeometryStays
<1>4. FramesFit'
  <2>1. Shown!Frame(config.bounds) \in {"here", "there", Shown!DefaultBounds}
    BY DEF Shown!Frame, Shown!Sane
  <2> QED
    BY <1>0, <2>1 DEF WindowInv, WindowTypes, FramesFit
<1>5. FocusFollows'
  BY <1>1 DEF WindowInv, FocusFollows, FocusStill
<1>6. Shown!PagesAreOwn'
  BY <1>0 DEF WindowInv, WindowTypes, Shown!PagesAreOwn
<1> QED
  BY <1>2, <1>3, <1>4, <1>5, <1>6 DEF WindowInv

(* The rules let a window go to its own page only.                                       *)
LEMMA OnlyOwn ==
  /\ Shown!Allowed(Shown!OriginLockRules, "own")
  /\ \A target \in Shown!Targets : Shown!Allowed(Shown!OriginLockRules, target) => target = "own"
<1> DEFINE rules == Shown!OriginLockRules
<1>1. /\ DOMAIN rules = 1..2 /\ rules[1] = [deny |-> TRUE, pattern |-> "*"]
      /\ rules[2] = [deny |-> FALSE, pattern |-> "own"]
  BY DEF Shown!OriginLockRules
<1> HIDE DEF rules
<1>2. Shown!Allowed(rules, "own")
  BY <1>1 DEF Shown!Allowed, Shown!Matches
<1>3. ASSUME NEW target \in Shown!Targets, target # "own" PROVE ~Shown!Allowed(rules, target)
  <2>1. {i \in DOMAIN rules : Shown!Matches(rules[i].pattern, target)} = {1}
    BY <1>1, <1>3 DEF Shown!Matches, Shown!Targets
  <2> QED
    BY <1>1, <2>1 DEF Shown!Allowed
<1> QED
  BY <1>2, <1>3 DEF rules

LEMMA WindowGoes ==
  ASSUME WindowInv, NEW w \in Shown!WindowIds,
         Shown!Reloads(w) \/ \E t \in Shown!Targets : Shown!Navigates(w, t)
  PROVE  WindowInv'
<1>0. /\ windows[w] = "open"
      /\ \/ UNCHANGED external /\ pages' = [pages EXCEPT ![w] = "own"]
         \/ \E t \in Shown!Targets :
              /\ pages' = [pages EXCEPT ![w] = IF Shown!Allowed(Shown!OriginLockRules, t) THEN t ELSE @]
              /\ external' = IF t = "web" THEN external \cup {t} ELSE external
  BY OnlyOwn DEF Shown!Reloads, Shown!Navigates
<1>1. FocusStill /\ GeometryStays /\ UNCHANGED <<windows, openFrames>>
  BY DEF Shown!Reloads, Shown!Navigates, Shown!keepFocus, Shown!keepBounds, FocusStill, GeometryStays
<1>2. FilesFollow' /\ LastIsKept'
  BY <1>1, GeometryKept
<1>3. WindowTypes'
  BY <1>0, <1>1 DEF WindowInv, WindowTypes, FocusStill, GeometryStays
<1>4. FramesFit' /\ FocusFollows'
  BY <1>1 DEF WindowInv, FramesFit, FocusFollows, FocusStill
<1>5. Shown!PagesAreOwn'
  BY <1>0, <1>1, OnlyOwn DEF WindowInv, WindowTypes, Shown!PagesAreOwn
<1> QED
  BY <1>2, <1>3, <1>4, <1>5 DEF WindowInv

(* The focus moves, and the process hears of it.                                       *)
LEMMA WindowFocuses == WindowInv /\ (Shown!FocusMoves \/ Shown!FocusSeen) => WindowInv'
<1> SUFFICES ASSUME WindowInv, Shown!FocusMoves \/ Shown!FocusSeen PROVE WindowInv'
  OBVIOUS
<1>1. PagesStill /\ GeometryStays /\ UNCHANGED <<windows, openFrames>>
  BY DEF Shown!FocusMoves, Shown!FocusSeen, Shown!keepPages, Shown!keepBounds, PagesStill, GeometryStays
<1>2. FilesFollow' /\ LastIsKept'
  BY <1>1, GeometryKept
<1>3. FramesFit' /\ Shown!PagesAreOwn'
  BY <1>1 DEF WindowInv, FramesFit, Shown!PagesAreOwn, PagesStill
<1>4. focusEvents \in Seq({"blur", "focus"}) /\ holder \in 0..MaxWindows /\ focusTurns \in Nat
  BY DEF WindowInv, WindowTypes
<1>5. /\ holder' \in 0..MaxWindows /\ focusEvents' \in Seq({"blur", "focus"})
      /\ focused' \in BOOLEAN /\ focusTurns' \in Nat /\ FocusFollows'
  <2>1. CASE Shown!FocusMoves
    <3>1. PICK w \in {0} \cup {v \in Shown!WindowIds : windows[v] = "open"} :
            /\ w # holder /\ holder' = w
            /\ focusEvents' = focusEvents \o (IF holder = 0 THEN <<>> ELSE <<"blur">>)
                                          \o (IF w = 0 THEN <<>> ELSE <<"focus">>)
      BY <2>1 DEF Shown!FocusMoves
    <3>2. focusTurns' = focusTurns + 1 /\ focused' = focused
      BY <2>1 DEF Shown!FocusMoves
    <3>3. w \in 0..MaxWindows
      BY WindowBounds DEF Shown!WindowIds
    <3>4. CASE w = 0
      <4>1. focusEvents' = (focusEvents \o <<"blur">>) \o <<>>
        BY <3>1, <3>4
      <4>2. /\ focusEvents' \in Seq({"blur", "focus"}) /\ focusEvents' # <<>>
            /\ focusEvents'[Len(focusEvents')] = "blur"
        BY <1>4, <4>1
      <4> QED
        BY <1>4, <3>1, <3>2, <3>3, <3>4, <4>2 DEF FocusFollows, WindowInv, WindowTypes
    <3>5. CASE w # 0
      <4> DEFINE before == focusEvents \o (IF holder = 0 THEN <<>> ELSE <<"blur">>)
      <4>1. before \in Seq({"blur", "focus"})
        <5>1. \A m \in Seq({"blur", "focus"}) : focusEvents \o m \in Seq({"blur", "focus"})
          BY <1>4
        <5>2. <<>> \in Seq({"blur", "focus"}) /\ <<"blur">> \in Seq({"blur", "focus"})
          OBVIOUS
        <5> QED
          BY <5>1, <5>2, Zenon
      <4>2. focusEvents' = before \o <<"focus">>
        BY <3>1, <3>5
      <4> HIDE DEF before
      <4>3. /\ focusEvents' \in Seq({"blur", "focus"}) /\ focusEvents' # <<>>
            /\ focusEvents'[Len(focusEvents')] = "focus"
        BY <4>1, <4>2
      <4> QED
        BY <1>4, <3>1, <3>2, <3>3, <3>5, <4>3 DEF FocusFollows, WindowInv, WindowTypes
    <3> QED
      BY <3>4, <3>5
  <2>2. CASE Shown!FocusSeen
    <3>1. /\ focusEvents # <<>> /\ focusEvents' = Tail(focusEvents)
          /\ focused' = (Head(focusEvents) = "focus") /\ UNCHANGED <<holder, focusTurns>>
      BY <2>2 DEF Shown!FocusSeen
    <3>2. /\ focusEvents' \in Seq({"blur", "focus"}) /\ focused' \in BOOLEAN
          /\ Len(focusEvents) \in Nat \ {0}
      BY <1>4, <3>1
    <3>4. focusEvents' # <<>> => focusEvents'[Len(focusEvents')] = focusEvents[Len(focusEvents)]
      <4>1. Len(focusEvents') = Len(focusEvents) - 1
        BY <1>4, <3>1
      <4>2. \A i \in 1..Len(focusEvents') : focusEvents'[i] = focusEvents[i + 1]
        BY <1>4, <3>1
      <4>3. focusEvents' # <<>> => Len(focusEvents') # 0
        BY <3>2
      <4> QED
        BY <3>2, <4>1, <4>2, <4>3
    <3>5. focusEvents' = <<>> => Head(focusEvents) = focusEvents[Len(focusEvents)]
      <4>1. Len(focusEvents') = Len(focusEvents) - 1
        BY <1>4, <3>1
      <4>2. focusEvents' = <<>> => Len(focusEvents') = 0
        OBVIOUS
      <4>3. Head(focusEvents) = focusEvents[1]
        BY <1>4, <3>1
      <4>4. focusEvents' = <<>> => Len(focusEvents) = 1
        BY <3>2, <4>1, <4>2
      <4> QED
        BY <4>3, <4>4
    <3>3. FocusFollows'
      BY <1>4, <3>1, <3>2, <3>4, <3>5 DEF FocusFollows, WindowInv
    <3> QED
      BY <1>4, <3>1, <3>2, <3>3
  <2> QED
    BY <2>1, <2>2
<1>6. WindowTypes'
  BY <1>1, <1>5 DEF WindowInv, WindowTypes, PagesStill, GeometryStays
<1> QED
  BY <1>2, <1>3, <1>5, <1>6 DEF WindowInv

(* Geometry: what a step does not touch.                                              *)
ShownStill == UNCHANGED <<windows, openFrames, external, pages, trips, holder, focusEvents, focused, focusTurns>>
LEMMA ShownKept ==
  ASSUME WindowInv, ShownStill
  PROVE  FramesFit' /\ FocusFollows' /\ Shown!PagesAreOwn'
BY DEF WindowInv, ShownStill, FramesFit, FocusFollows, Shown!PagesAreOwn

LEMMA WindowMoves ==
  ASSUME WindowInv, NEW w \in Shown!WindowIds, Shown!Moves(w)
  PROVE  WindowInv'
<1>0. PICK g \in Shown!Geometries :
        /\ pendingBounds' = [pendingBounds EXCEPT ![w] = [bounds |-> g, by |-> moves + 1]]
        /\ lastMove' = g
  BY DEF Shown!Moves
<1>1. ShownStill /\ moves' = moves + 1 /\ UNCHANGED <<config, flushes, saving, saves, crossedSaves>>
  BY DEF Shown!Moves, Shown!keepFocus, Shown!keepPages, ShownStill
<1>2. FramesFit' /\ FocusFollows' /\ Shown!PagesAreOwn'
  BY <1>1, ShownKept
<1>3. moves \in Nat /\ moves' \in Nat
  BY <1>1 DEF WindowInv, WindowTypes
<1>4. pendingBounds \in [Shown!WindowIds -> [bounds : Shown!Geometries, by : 1..moves] \cup {None}]
  BY DEF WindowInv, WindowTypes
<1>5. WindowTypes'
  <2>1. [bounds |-> g, by |-> moves + 1] \in [bounds : Shown!Geometries, by : 1..moves']
    BY <1>1, <1>3
  <2>2. [bounds : Shown!Geometries, by : 1..moves] \subseteq [bounds : Shown!Geometries, by : 1..moves']
    BY <1>1, <1>3
  <2>3. pendingBounds' \in [Shown!WindowIds -> [bounds : Shown!Geometries, by : 1..moves'] \cup {None}]
    BY <1>0, <1>4, <2>1, <2>2
  <2>4. flushes' \subseteq [by : 1..moves', bounds : Shown!Geometries, from : Documented]
    BY <1>1, <1>3 DEF WindowInv, WindowTypes
  <2> QED
    BY <1>1, <1>3, <2>3, <2>4 DEF WindowInv, WindowTypes, ShownStill
<1>6. FilesFollow'
  BY <1>1 DEF WindowInv, FilesFollow, OfOneFile, EditsUnderWay
<1>7. LastIsKept'
  <2> DEFINE new == [bounds |-> g, by |-> moves + 1]
  <2>1. /\ pendingBounds'[w] = new /\ new # None /\ new.by = moves' /\ new.bounds = g
        /\ \A v \in Shown!WindowIds : v # w => pendingBounds'[v] = pendingBounds[v]
    <3>1. new \in [bounds : Shown!Geometries, by : 1..(moves + 1)]
      BY <1>3
    <3>2. new # None
      BY <1>3, <3>1, WindowBounds
    <3> QED
      BY <1>0, <1>1, <1>4, <3>2
  <2> HIDE DEF new
  <2>2. \A v \in Shown!WindowIds : Settling(v) => pendingBounds[v].by \in 1..moves
    BY <1>4 DEF Settling
  <2>3. \A v \in Shown!WindowIds : v # w /\ Settling(v)' => Settling(v) /\ pendingBounds'[v].by # moves'
    BY <1>1, <1>3, <2>1, <2>2 DEF Settling
  <2>4. \A u \in Shown!WindowIds : \A v \in Shown!WindowIds :
          (Settling(u) /\ Settling(v) /\ pendingBounds[u].by = pendingBounds[v].by)' => u = v
    BY <2>1, <2>3 DEF WindowInv, LastIsKept, Settling
  <2>5. Settling(w)' /\ pendingBounds'[w].by = moves' /\ pendingBounds'[w].bounds = lastMove'
    BY <1>0, <2>1 DEF Settling
  <2> QED
    BY <2>4, <2>5 DEF LastIsKept
<1> QED
  BY <1>2, <1>5, <1>6, <1>7 DEF WindowInv

(* The debounce is over.                                                            *)
LEMMA WindowSettles == WindowInv /\ Shown!Settles => WindowInv'
<1> SUFFICES ASSUME WindowInv, Shown!Settles PROVE WindowInv'
  OBVIOUS
<1>0. PICK w \in Shown!WindowIds :
        /\ Settling(w) /\ \A v \in Shown!WindowIds : Settling(v) => pendingBounds[w].by <= pendingBounds[v].by
        /\ pendingBounds' = [pendingBounds EXCEPT ![w] = None]
        /\ \/ /\ flushes' = flushes \cup {[by |-> pendingBounds[w].by, bounds |-> pendingBounds[w].bounds,
                                          from |-> config]}
              /\ lastMove' = lastMove
           \/ /\ lastMove' = (IF pendingBounds[w].by = moves THEN None ELSE lastMove)
              /\ flushes' = flushes
  BY DEF Shown!Settles, Settling
<1>1. ShownStill /\ UNCHANGED <<config, saving, moves, saves, crossedSaves>>
  BY DEF Shown!Settles, Shown!keepFocus, Shown!keepPages, ShownStill
<1>2. FramesFit' /\ FocusFollows' /\ Shown!PagesAreOwn'
  BY <1>1, ShownKept
<1>3. moves \in Nat /\ config \in Documented
  BY DEF WindowInv, WindowTypes
<1>4. pendingBounds \in [Shown!WindowIds -> [bounds : Shown!Geometries, by : 1..moves] \cup {None}]
  BY DEF WindowInv, WindowTypes
<1> DEFINE p == pendingBounds[w]
           f == [by |-> p.by, bounds |-> p.bounds, from |-> config]
<1>5. p.bounds \in Shown!Geometries /\ p.by \in 1..moves
  BY <1>0, <1>4 DEF Settling
<1>6. f \in [by : 1..moves, bounds : Shown!Geometries, from : Documented]
      /\ f.by = p.by /\ f.bounds = p.bounds /\ f.from = config
  BY <1>3, <1>5
<1>7. flushes' \in {flushes, flushes \cup {f}}
  BY <1>0
<1>8. /\ ~Settling(w)'
      /\ \A v \in Shown!WindowIds : v # w => pendingBounds'[v] = pendingBounds[v]
  BY <1>0, <1>4 DEF Settling
<1>9. WindowTypes'
  <2>1. pendingBounds' \in [Shown!WindowIds -> [bounds : Shown!Geometries, by : 1..moves'] \cup {None}]
    BY <1>0, <1>1, <1>4
  <2>2. flushes' \subseteq [by : 1..moves', bounds : Shown!Geometries, from : Documented]
    <3> HIDE DEF f
    <3> QED
      BY <1>1, <1>6, <1>7 DEF WindowInv, WindowTypes
  <2> QED
    BY <1>1, <2>1, <2>2 DEF WindowInv, WindowTypes, ShownStill
<1>10. FilesFollow'
  <2> HIDE DEF f
  <2>1. \A g \in flushes' : g \in flushes \/ g.from = config
    BY <1>6, <1>7
  <2> QED
    BY <1>1, <2>1 DEF WindowInv, FilesFollow, OfOneFile, EditsUnderWay
<1>11. LastIsKept'
  <2>1. \A v \in Shown!WindowIds : Settling(v)' => Settling(v) /\ pendingBounds'[v] = pendingBounds[v]
    BY <1>8 DEF Settling
  <2>2. \A u \in Shown!WindowIds : \A v \in Shown!WindowIds :
          (Settling(u) /\ Settling(v) /\ pendingBounds[u].by = pendingBounds[v].by)' => u = v
    BY <2>1 DEF WindowInv, LastIsKept
  <2> DEFINE Held ==
         \/ \E v \in Shown!WindowIds :
              Settling(v) /\ pendingBounds[v].by = moves /\ pendingBounds[v].bounds = lastMove
         \/ /\ ~Unsettled
            /\ \E g \in flushes : g.by = moves /\ g.bounds = lastMove
         \/ /\ ~Unsettled /\ config.bounds = lastMove
            /\ \A g \in flushes : g.from.revision < config.revision
  <2>3. ASSUME ~crossedSaves', lastMove' # None PROVE Held'
    <3>1. lastMove' = lastMove
      BY <1>0, <2>3
    <3>2. PICK v \in Shown!WindowIds :
            Settling(v) /\ pendingBounds[v].by = moves /\ pendingBounds[v].bounds = lastMove
      <4>1. Held
        BY <1>1, <2>3, <3>1 DEF WindowInv, LastIsKept
      <4>2. Unsettled
        BY <1>0 DEF Unsettled
      <4> QED
        BY <4>1, <4>2
    <3>3. CASE v # w
      <4>1. Settling(v)' /\ pendingBounds'[v] = pendingBounds[v]
        BY <1>8, <3>2, <3>3 DEF Settling
      <4> QED
        BY <1>1, <3>1, <3>2, <4>1
    <3>4. CASE v = w
      <4>1. \A u \in Shown!WindowIds : Settling(u) => u = w
        <5> SUFFICES ASSUME NEW u \in Shown!WindowIds, Settling(u) PROVE u = w
          OBVIOUS
        <5>1. pendingBounds[u].by \in 1..moves /\ moves <= pendingBounds[u].by
          BY <1>0, <1>4, <3>2, <3>4 DEF Settling
        <5>2. pendingBounds[u].by = pendingBounds[w].by
          BY <1>3, <3>2, <3>4, <5>1
        <5> QED
          BY <1>0, <5>2 DEF WindowInv, LastIsKept
      <4>2. ~Unsettled'
        BY <1>8, <2>1, <4>1 DEF Unsettled
      <4>3. f \in flushes' /\ f.by = moves /\ f.bounds = lastMove
        <5>1. p.by = moves /\ p.bounds = lastMove
          BY <3>2, <3>4
        <5>2. f \in flushes'
          BY <1>0, <2>3, <3>1, <5>1
        <5> QED
          BY <1>6, <5>1, <5>2
      <4> HIDE DEF f
      <4> QED
        BY <1>1, <3>1, <4>2, <4>3
    <3> QED
      BY <3>3, <3>4
  <2> QED
    BY <2>2, <2>3 DEF LastIsKept
<1> QED
  BY <1>2, <1>9, <1>10, <1>11 DEF WindowInv

(* A document is saved: the file is a new one.                                            *)
LEMMA DocumentSaved ==
  ASSUME WindowInv, NEW d \in Documented, Shown!Saved(d)
  PROVE  /\ config' \in Documented /\ config'.revision = config.revision + 1
         /\ config'.bounds = d.bounds /\ config'.edits = d.edits
BY DEF WindowInv, WindowTypes, Documented, Shown!Saved

LEMMA WindowSaves ==
  ASSUME WindowInv, NEW f \in flushes, Shown!SavesBounds(f)
  PROVE  WindowInv'
<1> DEFINE d == [f.from EXCEPT !.bounds = f.bounds]
<1>0. /\ flushes' = flushes \ {f} /\ Shown!Saved(d) /\ Shown!Crossed(f.from)
  BY DEF Shown!SavesBounds
<1>1. ShownStill /\ UNCHANGED <<pendingBounds, saving, moves, saves, lastMove>>
  BY DEF Shown!SavesBounds, Shown!keepFocus, Shown!keepPages, ShownStill
<1>2. FramesFit' /\ FocusFollows' /\ Shown!PagesAreOwn'
  BY <1>1, ShownKept
<1>3. /\ flushes \subseteq [by : 1..moves, bounds : Shown!Geometries, from : Documented]
      /\ config \in Documented /\ saving \in Documented \cup {None} /\ saves \in Nat
  BY DEF WindowInv, WindowTypes
<1>4. d \in Documented /\ d.bounds = f.bounds /\ d.edits = f.from.edits
  BY <1>3 DEF Documented
<1> HIDE DEF d
<1>5. /\ config' \in Documented /\ config'.revision = config.revision + 1
      /\ config'.bounds = f.bounds /\ config'.edits = f.from.edits
  BY <1>0, <1>4, DocumentSaved
<1>6. crossedSaves' = (crossedSaves \/ f.from.revision # config.revision) /\ config.revision \in Nat
  BY <1>0, <1>3 DEF Shown!Crossed, Documented
<1>7. ~crossedSaves' => ~crossedSaves /\ f.from = config
  BY <1>6 DEF WindowInv, FilesFollow, OfOneFile
<1>8. WindowTypes'
  BY <1>0, <1>1, <1>3, <1>5, <1>6 DEF WindowInv, WindowTypes, ShownStill
<1>9. FilesFollow'
  <2>1. \A x \in Documented : OfOneFile(x) => OfOneFile(x)'
    BY <1>1, <1>5, <1>6 DEF OfOneFile, EditsUnderWay, Documented
  <2>2. OfOneFile(config)'
    BY <1>1, <1>5, <1>6 DEF WindowInv, FilesFollow, OfOneFile, EditsUnderWay
  <2>3. saving' # None => OfOneFile(saving)'
    BY <1>1, <1>3, <2>1 DEF WindowInv, FilesFollow
  <2>4. \A g \in flushes' : OfOneFile(g.from)'
    BY <1>0, <1>3, <2>1 DEF WindowInv, FilesFollow
  <2>5. ~crossedSaves' => config'.edits + EditsUnderWay' = saves'
    BY <1>1, <1>5, <1>7 DEF WindowInv, FilesFollow, EditsUnderWay
  <2> QED
    BY <2>2, <2>3, <2>4, <2>5 DEF FilesFollow
<1>10. LastIsKept'
  <2>1. \A g \in flushes' : g.from.revision < config'.revision
    BY <1>0, <1>3, <1>5, <1>6 DEF WindowInv, FilesFollow, OfOneFile, Documented
  <2>2. ASSUME ~crossedSaves, ~Unsettled, config.bounds = lastMove, f.from = config,
               \A g \in flushes : g.from.revision < config.revision
        PROVE  FALSE
    BY <2>2, <1>6
  <2>3. f.by = moves /\ f.bounds = lastMove => config'.bounds = lastMove'
    BY <1>1, <1>5
  <2>4. \A g \in flushes : g.by = moves /\ g.bounds = lastMove => g \in flushes' \/ config'.bounds = lastMove'
    BY <1>0, <2>3
  <2> QED
    BY <1>1, <1>7, <2>1, <2>2, <2>4 DEF WindowInv, LastIsKept, Settling, Unsettled
<1> QED
  BY <1>2, <1>8, <1>9, <1>10 DEF WindowInv

LEMMA WindowSaveFails ==
  ASSUME WindowInv, NEW f \in flushes, Shown!SaveFails(f)
  PROVE  WindowInv'
<1>0. flushes' = flushes \ {f} /\ lastMove' = (IF f.by = moves THEN None ELSE lastMove)
  BY DEF Shown!SaveFails
<1>1. ShownStill /\ UNCHANGED <<config, pendingBounds, saving, moves, saves, crossedSaves>>
  BY DEF Shown!SaveFails, Shown!keepFocus, Shown!keepPages, ShownStill
<1>2. FramesFit' /\ FocusFollows' /\ Shown!PagesAreOwn'
  BY <1>1, ShownKept
<1>3. WindowTypes'
  BY <1>0, <1>1 DEF WindowInv, WindowTypes, ShownStill
<1>4. FilesFollow'
  BY <1>0, <1>1 DEF WindowInv, FilesFollow, OfOneFile, EditsUnderWay
<1>5. LastIsKept'
  <2>1. lastMove' # None => lastMove' = lastMove /\ f.by # moves
    BY <1>0
  <2> QED
    BY <1>0, <1>1, <2>1 DEF WindowInv, LastIsKept, Settling, Unsettled
<1> QED
  BY <1>2, <1>3, <1>4, <1>5 DEF WindowInv

(* Any other edit loads the document, and saves it.                                     *)
LEMMA WindowEditLoads == WindowInv /\ Shown!EditLoads => WindowInv'
<1> SUFFICES ASSUME WindowInv, Shown!EditLoads PROVE WindowInv'
  OBVIOUS
<1>0. saving = None /\ saves < MaxSaves /\ saves' = saves + 1 /\ saving' = config
  BY DEF Shown!EditLoads
<1>1. ShownStill /\ UNCHANGED <<config, pendingBounds, flushes, moves, lastMove, crossedSaves>>
  BY DEF Shown!EditLoads, Shown!keepFocus, Shown!keepPages, ShownStill
<1>2. FramesFit' /\ FocusFollows' /\ Shown!PagesAreOwn'
  BY <1>1, ShownKept
<1>3. config \in Documented /\ config # None /\ saves \in Nat /\ MaxSaves \in Nat
  BY WindowBounds DEF WindowInv, WindowTypes
<1>4. WindowTypes'
  BY <1>0, <1>1, <1>3 DEF WindowInv, WindowTypes, ShownStill
<1>5. FilesFollow'
  <2>1. EditsUnderWay = 0 /\ EditsUnderWay' = 1
    BY <1>0, <1>3 DEF EditsUnderWay
  <2>2. \A x : x.edits \in Nat /\ OfOneFile(x) => OfOneFile(x)'
    BY <1>0, <1>1, <1>3, <2>1 DEF OfOneFile
  <2>3. config.edits \in Nat /\ \A g \in flushes : g.from.edits \in Nat
    BY DEF WindowInv, WindowTypes, Documented
  <2>4. OfOneFile(config)' /\ OfOneFile(saving)'
    BY <1>0, <1>1, <2>2, <2>3 DEF WindowInv, FilesFollow, OfOneFile
  <2>5. \A g \in flushes' : OfOneFile(g.from)'
    BY <1>1, <2>2, <2>3 DEF WindowInv, FilesFollow
  <2>6. ~crossedSaves' => config'.edits + EditsUnderWay' = saves'
    BY <1>0, <1>1, <1>3, <2>1, <2>3 DEF WindowInv, FilesFollow
  <2> QED
    BY <2>4, <2>5, <2>6 DEF FilesFollow
<1>6. LastIsKept'
  BY <1>0, <1>1 DEF WindowInv, LastIsKept, Settling, Unsettled
<1> QED
  BY <1>2, <1>4, <1>5, <1>6 DEF WindowInv

LEMMA WindowEditSaves == WindowInv /\ Shown!EditSaves => WindowInv'
<1> SUFFICES ASSUME WindowInv, Shown!EditSaves PROVE WindowInv'
  OBVIOUS
<1> DEFINE d == [saving EXCEPT !.edits = @ + 1]
<1>0. saving # None /\ saving' = None /\ Shown!Saved(d) /\ Shown!Crossed(saving)
  BY DEF Shown!EditSaves
<1>1. ShownStill /\ UNCHANGED <<pendingBounds, flushes, moves, saves, lastMove>>
  BY DEF Shown!EditSaves, Shown!keepFocus, Shown!keepPages, ShownStill
<1>2. FramesFit' /\ FocusFollows' /\ Shown!PagesAreOwn'
  BY <1>1, ShownKept
<1>3. config \in Documented /\ saving \in Documented /\ saves \in Nat
      /\ flushes \subseteq [by : 1..moves, bounds : Shown!Geometries, from : Documented]
  BY <1>0 DEF WindowInv, WindowTypes
<1>4. d \in Documented /\ d.bounds = saving.bounds /\ d.edits = saving.edits + 1
  BY <1>3 DEF Documented
<1> HIDE DEF d
<1>5. /\ config' \in Documented /\ config'.revision = config.revision + 1
      /\ config'.bounds = saving.bounds /\ config'.edits = saving.edits + 1
  BY <1>0, <1>4, DocumentSaved
<1>6. crossedSaves' = (crossedSaves \/ saving.revision # config.revision) /\ config.revision \in Nat
      /\ saving.edits \in Nat
  BY <1>0, <1>3 DEF Shown!Crossed, Documented
<1>7. ~crossedSaves' => ~crossedSaves /\ saving = config
  BY <1>0, <1>6 DEF WindowInv, FilesFollow, OfOneFile
<1>8. WindowTypes'
  BY <1>0, <1>1, <1>3, <1>5, <1>6 DEF WindowInv, WindowTypes, ShownStill
<1>9. FilesFollow'
  <2>0. EditsUnderWay = 1 /\ EditsUnderWay' = 0
    BY <1>0 DEF EditsUnderWay
  <2>1. \A x \in Documented : OfOneFile(x) => OfOneFile(x)'
    BY <1>1, <1>3, <1>5, <1>6, <2>0 DEF OfOneFile, Documented
  <2>2. OfOneFile(config)'
    BY <1>0, <1>1, <1>3, <1>5, <1>6, <2>0 DEF WindowInv, FilesFollow, OfOneFile
  <2>3. \A g \in flushes' : OfOneFile(g.from)'
    BY <1>1, <1>3, <2>1 DEF WindowInv, FilesFollow
  <2>4. ~crossedSaves' => config'.edits + EditsUnderWay' = saves'
    BY <1>1, <1>3, <1>5, <1>6, <1>7, <2>0 DEF WindowInv, FilesFollow, Documented
  <2> QED
    BY <1>0, <2>2, <2>3, <2>4 DEF FilesFollow
<1>10. LastIsKept'
  <2>1. \A g \in flushes' : g.from.revision < config'.revision
    BY <1>1, <1>3, <1>5, <1>6 DEF WindowInv, FilesFollow, OfOneFile, Documented
  <2>2. ~crossedSaves' => config'.bounds = config.bounds
    BY <1>5, <1>7
  <2> QED
    BY <1>1, <1>7, <2>1, <2>2 DEF WindowInv, LastIsKept, Settling, Unsettled
<1> QED
  BY <1>2, <1>8, <1>9, <1>10 DEF WindowInv

(* The invariant is kept by every step.                                              *)
LEMMA WindowInvInductive == WindowInv /\ [Shown!WindowsNext]_windowVars => WindowInv'
<1> SUFFICES ASSUME WindowInv, [Shown!WindowsNext]_windowVars PROVE WindowInv'
  OBVIOUS
<1>1. CASE UNCHANGED windowVars
  <2>1. ShownStill /\ GeometryStays
    BY <1>1 DEF windowVars, ShownStill, GeometryStays
  <2>2. FilesFollow' /\ LastIsKept' /\ FramesFit' /\ FocusFollows' /\ Shown!PagesAreOwn'
    BY <2>1, GeometryKept, ShownKept
  <2>3. WindowTypes'
    BY <2>1 DEF WindowInv, WindowTypes, ShownStill, GeometryStays
  <2> QED
    BY <2>2, <2>3 DEF WindowInv
<1>2. CASE Shown!WindowsNext
  BY <1>2, WindowOpens, WindowLoads, WindowGoes, WindowFocuses, WindowMoves, WindowSettles, WindowSaves,
     WindowSaveFails, WindowEditLoads, WindowEditSaves DEF Shown!WindowsNext
<1> QED
  BY <1>1, <1>2

-----------------------------------------------------------------------------
(***************************************************************************)
(* The composer's files, from the user to the message.                             *)
(***************************************************************************)

(* Files that came in calls that are over.                                          *)
Landed(refs) == \A r \in refs : r.n <= ingested /\ \A c \in ingests : c.n # r.n

Offered == [file : Attachments!Files, n : Nat]

UploadTypes ==
  /\ owed \subseteq Offered
  /\ ingested \in Nat /\ over \in Nat /\ dragDepth \in Nat
  /\ \A m \in reading \cup bubbles : \A r \in m.refs : r.n \in Nat
  /\ \A b \in bubbles : DOMAIN b = {"n", "failed", "refs"}
  /\ \A c \in ingests : DOMAIN c = {"n", "kinds", "batch", "uploads"} /\ c.n \in Nat /\ c.n <= ingested
                        /\ DOMAIN c.batch \subseteq Nat /\ Attachments!Range(c.batch) \subseteq Attachments!Files
                        /\ (c.uploads # None => /\ DOMAIN c.uploads \subseteq Nat
                                              /\ Attachments!Range(c.uploads) \subseteq Attachments!Files)

(* Each call has a number of its own, and what has come of one is of no call under way.     *)
CallsApart ==
  /\ \A c, d \in ingests : c.n = d.n => c = d
  /\ Landed(staged)
  /\ \A m \in reading : Landed(m.refs)
  /\ \A b \in bubbles : Landed(b.refs)

(* A file the user is owed an answer about is where it can be offered.                      *)
OnItsWay(g) == \E c \in ingests : c.n = g.n /\ (c.uploads = None => g.file \in Attachments!Range(c.batch))
Somewhere(g) == \/ g \in staged \cup swept
                \/ OnItsWay(g)
                \/ \E b \in bubbles : g \in b.refs
FilesSomewhere ==
  /\ staged \subseteq owed
  /\ \A b \in bubbles : \A r \in b.refs : r \notin staged
  /\ \A g \in owed : Somewhere(g)

DragCounted ==
  /\ dragDepth <= over
  /\ ~Attachments!TakesFiles(Attachments!Caps) => dragDepth = 0

UploadInv == UploadTypes /\ CallsApart /\ FilesSomewhere /\ Attachments!TrayIsSendable /\ DragCounted

(* What the invariant says is what the composer promises.                                *)
LEMMA UploadInvSound == UploadInv => Attachments!UploadsAreSound
<1> SUFFICES ASSUME UploadInv PROVE Attachments!UploadsAreSound
  OBVIOUS
<1>1. Attachments!FilesAreAccounted
  BY DEF UploadInv, FilesSomewhere, Somewhere, OnItsWay, Attachments!FilesAreAccounted
<1>2. Attachments!HighlightFollowsDrag
  BY DEF UploadInv, DragCounted, Attachments!HighlightFollowsDrag
<1> QED
  BY <1>1, <1>2 DEF UploadInv, Attachments!UploadsAreSound

LEMMA UploadInvInit == Attachments!UploadsInit => UploadInv
BY DEF Attachments!UploadsInit, UploadInv, UploadTypes, CallsApart, Landed, FilesSomewhere, Attachments!TrayIsSendable,
       DragCounted

(* What a change of the model leaves of the tray.                                    *)
LEMMA SettledIsSendable ==
  ASSUME NEW refs, NEW caps
  PROVE  /\ Attachments!Settled(refs, caps) \subseteq refs
         /\ caps # None => \A r \in Attachments!Settled(refs, caps) : r.file.kind \in caps
BY DEF Attachments!Settled

LEMMA UploadChanges ==
  ASSUME UploadInv, NEW h, NEW r, Attachments!Changes(h, r)
  PROVE  UploadInv'
<1> DEFINE caps == Attachments!CapsOf(h, r)
           left == Attachments!Settled(staged, caps)
<1>1. /\ staged' = left /\ owed' = owed \ (staged \ left)
      /\ dragDepth' = Attachments!Resynced(dragDepth, caps)
      /\ UNCHANGED <<ingests, reading, bubbles, over, ingested, swept>>
  BY DEF Attachments!Changes, Attachments!Tray
<1>2. Attachments!Caps' = caps
  BY DEF Attachments!Changes, Attachments!Caps
<1>3. left \subseteq staged /\ (caps # None => \A q \in left : q.file.kind \in caps)
  BY SettledIsSendable
<1> HIDE DEF left
<1>4. UploadTypes' /\ DragCounted'
  BY <1>1, <1>2, <1>3 DEF UploadInv, UploadTypes, DragCounted, Attachments!Resynced
<1>5. CallsApart'
  BY <1>1, <1>3 DEF UploadInv, CallsApart, Landed
<1>6. FilesSomewhere'
  BY <1>1, <1>3 DEF UploadInv, FilesSomewhere, Somewhere, OnItsWay
<1>7. Attachments!TrayIsSendable'
  BY <1>1, <1>2, <1>3 DEF UploadInv, Attachments!TrayIsSendable
<1> QED
  BY <1>4, <1>5, <1>6, <1>7 DEF UploadInv

(* The models stay, and the drag: what the tray takes is what it took.                    *)
LEMMA CapsStay ==
  ASSUME UNCHANGED <<harness, route>>
  PROVE  Attachments!Caps' = Attachments!Caps
BY DEF Attachments!Caps, Attachments!CapsOf

(* A call with a batch.                                                           *)
LEMMA UploadIngests ==
  ASSUME UploadInv, NEW batch \in Attachments!Batches, Attachments!Ingests(batch), DragCounted',
         over' \in Nat, dragDepth' \in Nat, UNCHANGED <<harness, route, staged, reading, bubbles, swept>>
  PROVE  UploadInv'
<1> DEFINE new == [n |-> ingested + 1, kinds |-> Attachments!Caps, batch |-> batch, uploads |-> None]
           offers == {[file |-> f, n |-> ingested + 1] : f \in Attachments!Range(batch)}
<1>1. ingested' = ingested + 1 /\ ingests' = ingests \cup {new} /\ owed' = owed \cup offers
  BY DEF Attachments!Ingests
<1>2. /\ new.n = ingested + 1 /\ new.batch = batch /\ new.uploads = None
      /\ DOMAIN new = {"n", "kinds", "batch", "uploads"}
  OBVIOUS
<1>3. DOMAIN batch \subseteq Nat /\ Attachments!Range(batch) \subseteq Attachments!Files
  <2>1. \A f \in Attachments!Files : DOMAIN <<f>> \subseteq Nat /\ Attachments!Range(<<f>>) \subseteq Attachments!Files
    BY DEF Attachments!Range
  <2>2. \A f, g \in Attachments!Files : DOMAIN <<f, g>> \subseteq Nat /\ Attachments!Range(<<f, g>>) \subseteq Attachments!Files
    BY DEF Attachments!Range
  <2>3. Attachments!Photo \in Attachments!Files /\ Attachments!Bare \in Attachments!Files
    BY DEF Attachments!Files
  <2> QED
    BY <2>1, <2>2, <2>3 DEF Attachments!Batches
<1>4. /\ \A g \in offers : g.n = ingested + 1 /\ g.file \in Attachments!Range(batch)
      /\ offers \subseteq Offered
  BY <1>3 DEF UploadInv, UploadTypes, Offered
<1>5. Attachments!Caps' = Attachments!Caps
  BY CapsStay
<1> HIDE DEF new, offers
<1>6. UploadTypes'
  BY <1>1, <1>2, <1>3, <1>4 DEF UploadInv, UploadTypes
<1>7. CallsApart'
  <2>1. \A r \in staged : r.n \in Nat
    BY DEF UploadInv, UploadTypes, FilesSomewhere, Offered
  <2>2. \A m \in reading \cup bubbles : \A r \in m.refs : r.n \in Nat
    BY DEF UploadInv, UploadTypes
  <2>3. ingested \in Nat /\ \A c \in ingests : c.n \in Nat /\ c.n <= ingested
    BY DEF UploadInv, UploadTypes
  <2>4. ASSUME NEW refs, Landed(refs), \A r \in refs : r.n \in Nat PROVE Landed(refs)'
    BY <1>1, <1>2, <2>3, <2>4 DEF Landed
  <2>5. \A c, d \in ingests' : c.n = d.n => c = d
    BY <1>1, <1>2, <2>3 DEF UploadInv, CallsApart
  <2> QED
    BY <2>1, <2>2, <2>4, <2>5 DEF UploadInv, CallsApart, Landed
<1>8. FilesSomewhere'
  BY <1>1, <1>2, <1>4 DEF UploadInv, FilesSomewhere, Somewhere, OnItsWay
<1>9. Attachments!TrayIsSendable'
  BY <1>5 DEF UploadInv, Attachments!TrayIsSendable
<1> QED
  BY <1>6, <1>7, <1>8, <1>9 DEF UploadInv

LEMMA UploadPick == UploadInv /\ Attachments!Pick => UploadInv'
<1> SUFFICES ASSUME UploadInv, Attachments!Pick PROVE UploadInv'
  OBVIOUS
<1>1. PICK batch \in Attachments!Batches : Attachments!Ingests(batch)
  BY DEF Attachments!Pick
<1>2. UNCHANGED <<harness, route, staged, reading, bubbles, swept, over, dragDepth>>
  BY DEF Attachments!Pick
<1>3. DragCounted' /\ over' \in Nat /\ dragDepth' \in Nat
  BY <1>2, CapsStay DEF UploadInv, UploadTypes, DragCounted
<1> QED
  BY <1>1, <1>2, <1>3, UploadIngests

LEMMA UploadDrags == UploadInv /\ (Attachments!DragEnters \/ Attachments!DragLeaves) => UploadInv'
<1> SUFFICES ASSUME UploadInv, Attachments!DragEnters \/ Attachments!DragLeaves PROVE UploadInv'
  OBVIOUS
<1>1. UNCHANGED <<harness, route, staged, ingests, reading, bubbles, ingested, owed, swept>>
  BY DEF Attachments!DragEnters, Attachments!DragLeaves
<1>2. Attachments!Caps' = Attachments!Caps
  BY <1>1, CapsStay
<1>3. over \in Nat /\ dragDepth \in Nat /\ dragDepth <= over
      /\ (~Attachments!TakesFiles(Attachments!Caps) => dragDepth = 0)
  BY DEF UploadInv, UploadTypes, DragCounted
<1>4. over' \in Nat /\ dragDepth' \in Nat /\ dragDepth' <= over'
      /\ (~Attachments!TakesFiles(Attachments!Caps) => dragDepth' = 0)
  <2> DEFINE takes == Attachments!TakesFiles(Attachments!Caps)
  <2>1. \/ over' = over + 1 /\ dragDepth' = IF takes THEN dragDepth + 1 ELSE dragDepth
        \/ over > 0 /\ over' = over - 1 /\ dragDepth' = IF takes /\ dragDepth > 0 THEN dragDepth - 1 ELSE dragDepth
    BY DEF Attachments!DragEnters, Attachments!DragLeaves
  <2> HIDE DEF takes
  <2> QED
    BY <1>3, <2>1 DEF takes
<1>5. DragCounted'
  BY <1>2, <1>4 DEF DragCounted, Attachments!TakesFiles
<1>6. UploadTypes' /\ CallsApart' /\ FilesSomewhere'
  BY <1>1, <1>4 DEF UploadInv, UploadTypes, CallsApart, Landed, FilesSomewhere, Somewhere, OnItsWay
<1>7. Attachments!TrayIsSendable'
  BY <1>1, <1>2 DEF UploadInv, Attachments!TrayIsSendable
<1> QED
  BY <1>5, <1>6, <1>7 DEF UploadInv

(* What a step leaves of the tray when it takes files from it and no more.                 *)
LEMMA TrayShrinks ==
  ASSUME UploadInv, staged' \subseteq staged, UNCHANGED <<harness, route, over, dragDepth>>
  PROVE  Attachments!TrayIsSendable' /\ DragCounted'
<1>1. Attachments!Caps' = Attachments!Caps
  BY CapsStay
<1> QED
  BY <1>1 DEF UploadInv, Attachments!TrayIsSendable, DragCounted, Attachments!TakesFiles

LEMMA UploadDrop == UploadInv /\ Attachments!Drop => UploadInv'
<1> SUFFICES ASSUME UploadInv, Attachments!Drop PROVE UploadInv'
  OBVIOUS
<1>1. over' = 0 /\ UNCHANGED <<harness, route, staged, reading, bubbles, swept>>
  BY DEF Attachments!Drop
<1>2. Attachments!Caps' = Attachments!Caps
  BY <1>1, CapsStay
<1>3. CASE Attachments!TakesFiles(Attachments!Caps)
  <2>1. PICK batch \in Attachments!Batches : Attachments!Ingests(batch)
    BY <1>3 DEF Attachments!Drop
  <2>2. dragDepth' = 0
    BY <1>3 DEF Attachments!Drop
  <2>3. DragCounted' /\ over' \in Nat /\ dragDepth' \in Nat
    BY <1>1, <2>2 DEF DragCounted
  <2> QED
    BY <1>1, <2>1, <2>3, UploadIngests
<1>4. CASE ~Attachments!TakesFiles(Attachments!Caps)
  <2>1. UNCHANGED <<dragDepth, ingests, ingested, owed>>
    BY <1>4 DEF Attachments!Drop
  <2>2. dragDepth = 0
    BY <1>4 DEF UploadInv, DragCounted
  <2>3. UploadTypes' /\ CallsApart' /\ FilesSomewhere' /\ DragCounted'
    BY <1>1, <2>1, <2>2 DEF UploadInv, UploadTypes, CallsApart, Landed, FilesSomewhere, Somewhere, OnItsWay,
       DragCounted
  <2>4. Attachments!TrayIsSendable'
    BY <1>1, <1>2 DEF UploadInv, Attachments!TrayIsSendable
  <2> QED
    BY <2>3, <2>4 DEF UploadInv
<1> QED
  BY <1>3, <1>4

(* The files of a batch keep their places.                                            *)
LEMMA OnlyKeeps ==
  ASSUME NEW f, NEW kept
  PROVE  /\ DOMAIN Attachments!Only(f, kept) \subseteq DOMAIN f
         /\ Attachments!Range(Attachments!Only(f, kept)) \subseteq Attachments!Range(f)
         /\ \A x \in Attachments!Range(f) : x \in kept => x \in Attachments!Range(Attachments!Only(f, kept))
BY DEF Attachments!Only, Attachments!Range, Attachments!Restrict

LEMMA UploadUnreadable ==
  ASSUME UploadInv, NEW c \in ingests, NEW f \in Attachments!Range(c.batch), Attachments!Unreadable(c, f)
  PROVE  UploadInv'
<1> DEFINE rest == Attachments!Only(c.batch, Attachments!Files \ {f})
           less == [c EXCEPT !.batch = rest]
           lost == [file |-> f, n |-> c.n]
<1>1. /\ c.uploads = None
      /\ ingests' = (ingests \ {c}) \cup (IF Attachments!Range(rest) = {} THEN {} ELSE {less})
      /\ owed' = owed \ {lost}
      /\ UNCHANGED <<harness, route, staged, reading, bubbles, over, dragDepth, ingested, swept>>
  BY DEF Attachments!Unreadable
<1>2. /\ DOMAIN rest \subseteq DOMAIN c.batch
      /\ Attachments!Range(rest) \subseteq Attachments!Range(c.batch)
      /\ \A x \in Attachments!Range(c.batch) : x # f => x \in Attachments!Range(rest)
  BY OnlyKeeps DEF UploadInv, UploadTypes
<1>3. lost.n = c.n /\ lost.file = f
  OBVIOUS
<1> HIDE DEF rest
<1>4. /\ DOMAIN less = {"n", "kinds", "batch", "uploads"}
      /\ less.n = c.n /\ less.batch = rest /\ less.uploads = None
  BY <1>1 DEF UploadInv, UploadTypes
<1> HIDE DEF less
<1>5. Attachments!TrayIsSendable' /\ DragCounted'
  BY <1>1, TrayShrinks
<1>6. UploadTypes'
  BY <1>1, <1>2, <1>4 DEF UploadInv, UploadTypes
<1>7. CallsApart'
  BY <1>1, <1>4 DEF UploadInv, CallsApart, Landed
<1>8. FilesSomewhere'
  <2>1. staged' \subseteq owed'
    BY <1>1, <1>3 DEF UploadInv, CallsApart, Landed, FilesSomewhere
  <2>2. ASSUME NEW g \in owed', OnItsWay(g) PROVE OnItsWay(g)'
    <3>1. g \in owed /\ g # lost
      BY <1>1
    <3>2. PICK d \in ingests : d.n = g.n /\ (d.uploads = None => g.file \in Attachments!Range(d.batch))
      BY <2>2 DEF OnItsWay
    <3>3. CASE d # c
      BY <1>1, <3>2, <3>3 DEF OnItsWay
    <3>4. CASE d = c
      <4>1. g.file # f
        BY <3>1, <3>2, <3>4 DEF UploadInv, UploadTypes, Offered
      <4>2. g.file \in Attachments!Range(rest)
        BY <1>1, <1>2, <3>2, <3>4, <4>1
      <4>3. less \in ingests'
        BY <1>1, <4>2
      <4> QED
        BY <1>4, <3>2, <3>4, <4>2, <4>3 DEF OnItsWay
    <3> QED
      BY <3>3, <3>4
  <2> QED
    BY <1>1, <2>1, <2>2 DEF UploadInv, FilesSomewhere, Somewhere
<1> QED
  BY <1>5, <1>6, <1>7, <1>8 DEF UploadInv

LEMMA UploadSaves ==
  ASSUME UploadInv, NEW c \in ingests, Attachments!Saves(c)
  PROVE  UploadInv'
<1>1. PICK bad :
        LET keeps == Attachments!Only(c.batch, {f \in Attachments!Files \ bad : f.kind \in c.kinds})
        IN  ingests' = (ingests \ {c}) \cup {[c EXCEPT !.uploads = keeps]}
  BY DEF Attachments!Saves
<1> DEFINE keeps == Attachments!Only(c.batch, {f \in Attachments!Files \ bad : f.kind \in c.kinds})
           after == [c EXCEPT !.uploads = keeps]
<1>2. c.uploads = None /\ UNCHANGED <<harness, route, staged, reading, bubbles, over, dragDepth, ingested, owed, swept>>
  BY DEF Attachments!Saves
<1>3. ingests' = (ingests \ {c}) \cup {after}
  BY <1>1
<1>4. DOMAIN keeps \subseteq DOMAIN c.batch /\ Attachments!Range(keeps) \subseteq Attachments!Range(c.batch)
  BY OnlyKeeps
<1> HIDE DEF keeps
<1>5. /\ DOMAIN after = {"n", "kinds", "batch", "uploads"}
      /\ after.n = c.n /\ after.batch = c.batch /\ after.uploads = keeps
  BY DEF UploadInv, UploadTypes
<1> HIDE DEF after
<1>6. Attachments!TrayIsSendable' /\ DragCounted'
  BY <1>2, TrayShrinks
<1>7. UploadTypes'
  BY <1>2, <1>3, <1>4, <1>5 DEF UploadInv, UploadTypes
<1>8. CallsApart'
  BY <1>2, <1>3, <1>5 DEF UploadInv, CallsApart, Landed
<1>9. FilesSomewhere'
  <2>1. ASSUME NEW g, OnItsWay(g) PROVE OnItsWay(g)'
    BY <1>2, <1>3, <1>5, <2>1 DEF OnItsWay
  <2> QED
    BY <1>2, <2>1 DEF UploadInv, FilesSomewhere, Somewhere
<1> QED
  BY <1>6, <1>7, <1>8, <1>9 DEF UploadInv

(* What joins the tray is of the call, and of no content that is in it.                   *)
LEMMA JoinedOnce ==
  ASSUME NEW tray, NEW f, NEW n, DOMAIN f \subseteq Nat, \A q, r \in tray : q.file.id = r.file.id => q = r
  PROVE  /\ tray \subseteq Attachments!Joined(tray, f, n)
         /\ \A r \in Attachments!Joined(tray, f, n) :
              r \in tray \/ \E i \in DOMAIN f : r = [file |-> f[i], n |-> n]
         /\ \A q, r \in Attachments!Joined(tray, f, n) : q.file.id = r.file.id => q = r
<1> DEFINE fresh == {i \in DOMAIN f : /\ \A r \in tray : r.file.id # f[i].id
                                     /\ \A j \in DOMAIN f : j < i => f[j].id # f[i].id}
           came == {[file |-> f[i], n |-> n] : i \in fresh}
<1>1. Attachments!Joined(tray, f, n) = tray \cup came
  BY DEF Attachments!Joined
<1>2. \A r \in came : \E i \in fresh : r = [file |-> f[i], n |-> n] /\ r.file = f[i]
  OBVIOUS
<1>3. \A i, j \in fresh : f[i].id = f[j].id => i = j
  OBVIOUS
<1>4. \A i \in fresh : i \in DOMAIN f /\ \A r \in tray : r.file.id # f[i].id
  OBVIOUS
<1> HIDE DEF fresh, came
<1> QED
  BY <1>1, <1>2, <1>3, <1>4

LEMMA UploadArrives ==
  ASSUME UploadInv, NEW c \in ingests, Attachments!Arrives(c)
  PROVE  UploadInv'
<1> DEFINE tray == Attachments!Joined(staged, c.uploads, c.n)
           left == Attachments!Settled(tray, Attachments!Caps)
           owing == {g \in owed : g.n # c.n} \cup {g \in tray : g.n = c.n}
<1>1. /\ c.uploads # None /\ staged' = left /\ owed' = owing \ (tray \ left) /\ ingests' = ingests \ {c}
      /\ UNCHANGED <<harness, route, reading, bubbles, over, dragDepth, ingested, swept>>
  BY DEF Attachments!Arrives, Attachments!Tray
<1>2. /\ staged \subseteq tray
      /\ \A r \in tray : r \in staged \/ \E i \in DOMAIN c.uploads : r = [file |-> c.uploads[i], n |-> c.n]
      /\ \A q, r \in tray : q.file.id = r.file.id => q = r
  <2>1. DOMAIN c.uploads \subseteq Nat
    BY <1>1 DEF UploadInv, UploadTypes
  <2>2. \A q, r \in staged : q.file.id = r.file.id => q = r
    BY DEF UploadInv, Attachments!TrayIsSendable
  <2> QED
    BY <2>1, <2>2, JoinedOnce
<1>3. \A r \in tray : r \in staged \/ (r.n = c.n /\ r \in Offered)
  BY <1>1, <1>2 DEF UploadInv, UploadTypes, Offered, Attachments!Range
<1>4. left \subseteq tray
      /\ (Attachments!Caps # None => \A r \in left : r.file.kind \in Attachments!Caps)
  BY SettledIsSendable
<1>5. Attachments!Caps' = Attachments!Caps
  BY <1>1, CapsStay
<1>6. \A r \in staged : r.n # c.n /\ r \in owed /\ r \in Offered
  BY DEF UploadInv, UploadTypes, CallsApart, Landed, FilesSomewhere
<1>7. owing \subseteq Offered
  BY <1>3, <1>6 DEF UploadInv, UploadTypes
<1>8. \A g \in owing : g \in tray \/ (g.n # c.n /\ g \in owed)
  OBVIOUS
<1>9. \A g \in tray : g \in owing
  BY <1>3, <1>6
<1> HIDE DEF tray, left, owing
<1>10. DragCounted'
  BY <1>1, <1>5 DEF UploadInv, DragCounted, Attachments!TakesFiles
<1>11. Attachments!TrayIsSendable'
  BY <1>1, <1>2, <1>4, <1>5 DEF Attachments!TrayIsSendable
<1>12. UploadTypes'
  BY <1>1, <1>7 DEF UploadInv, UploadTypes
<1>13. CallsApart'
  <2>1. Landed(staged)'
    BY <1>1, <1>3, <1>4 DEF UploadInv, UploadTypes, CallsApart, Landed
  <2> QED
    BY <1>1, <2>1 DEF UploadInv, CallsApart, Landed
<1>14. FilesSomewhere'
  <2>1. staged' \subseteq owed'
    BY <1>1, <1>4, <1>9
  <2>2. \A b \in bubbles' : \A r \in b.refs : r \notin staged'
    BY <1>1, <1>3, <1>4 DEF UploadInv, CallsApart, Landed, FilesSomewhere
  <2>3. ASSUME NEW g \in owed' PROVE Somewhere(g)'
    <3>1. CASE g \in tray
      BY <1>1, <2>3, <3>1 DEF Somewhere
    <3>2. CASE g \notin tray
      <4>1. g.n # c.n /\ g \in owed /\ g \notin staged
        BY <1>1, <1>2, <1>8, <2>3, <3>2
      <4>2. OnItsWay(g) => OnItsWay(g)'
        BY <1>1, <4>1 DEF OnItsWay
      <4> QED
        BY <1>1, <4>1, <4>2 DEF UploadInv, FilesSomewhere, Somewhere
    <3> QED
      BY <3>1, <3>2
  <2> QED
    BY <2>1, <2>2, <2>3 DEF FilesSomewhere
<1> QED
  BY <1>10, <1>11, <1>12, <1>13, <1>14 DEF UploadInv

LEMMA UploadCallFails ==
  ASSUME UploadInv, NEW c \in ingests, Attachments!CallFails(c)
  PROVE  UploadInv'
<1>1. /\ ingests' = ingests \ {c} /\ owed' = {g \in owed : g.n # c.n}
      /\ UNCHANGED <<harness, route, staged, reading, bubbles, over, dragDepth, ingested, swept>>
  BY DEF Attachments!CallFails
<1>2. Attachments!TrayIsSendable' /\ DragCounted'
  BY <1>1, TrayShrinks
<1>3. UploadTypes' /\ CallsApart'
  BY <1>1 DEF UploadInv, UploadTypes, CallsApart, Landed
<1>4. FilesSomewhere'
  BY <1>1 DEF UploadInv, CallsApart, Landed, FilesSomewhere, Somewhere, OnItsWay
<1> QED
  BY <1>2, <1>3, <1>4 DEF UploadInv

LEMMA UploadRemoves ==
  ASSUME UploadInv, NEW r \in staged, Attachments!Removes(r)
  PROVE  UploadInv'
<1>1. /\ staged' = staged \ {r} /\ owed' = owed \ {r}
      /\ UNCHANGED <<harness, route, ingests, reading, bubbles, over, dragDepth, ingested, swept>>
  BY DEF Attachments!Removes
<1>2. Attachments!TrayIsSendable' /\ DragCounted'
  BY <1>1, TrayShrinks
<1>3. UploadTypes' /\ CallsApart'
  BY <1>1 DEF UploadInv, UploadTypes, CallsApart, Landed
<1>4. FilesSomewhere'
  BY <1>1 DEF UploadInv, FilesSomewhere, Somewhere, OnItsWay
<1> QED
  BY <1>2, <1>3, <1>4 DEF UploadInv

(* A message takes what is in the tray with it.                                        *)
LEMMA UploadSends == UploadInv /\ Attachments!Sends => UploadInv'
<1> SUFFICES ASSUME UploadInv, Attachments!Sends PROVE UploadInv'
  OBVIOUS
<1> DEFINE new == [n |-> messages + 1, refs |-> staged]
<1>1. /\ reading' = reading \cup {new}
      /\ UNCHANGED <<harness, route, staged, ingests, bubbles, over, dragDepth, ingested, owed, swept>>
  BY DEF Attachments!Sends, Attachments!Begins
<1>2. new.refs = staged
  OBVIOUS
<1> HIDE DEF new
<1>3. Attachments!TrayIsSendable' /\ DragCounted'
  BY <1>1, TrayShrinks
<1>4. UploadTypes' /\ CallsApart'
  BY <1>1, <1>2 DEF UploadInv, UploadTypes, CallsApart, Landed, FilesSomewhere, Offered
<1>5. FilesSomewhere'
  BY <1>1 DEF UploadInv, FilesSomewhere, Somewhere, OnItsWay
<1> QED
  BY <1>3, <1>4, <1>5 DEF UploadInv

LEMMA UploadDelivers ==
  ASSUME UploadInv, NEW m \in reading, Attachments!Delivers(m)
  PROVE  UploadInv'
<1> DEFINE found == {r \in m.refs : Attachments!Found(r.file)}
           new == [n |-> m.n, failed |-> FALSE, refs |-> IF found = {} THEN {} ELSE m.refs]
<1>1. /\ bubbles' = bubbles \cup {new} /\ owed' = owed \ (m.refs \ found) /\ reading' = reading \ {m}
      /\ staged' = {} /\ swept' = swept \cup (staged \ m.refs)
      /\ UNCHANGED <<harness, route, ingests, over, dragDepth, ingested>>
  BY DEF Attachments!Delivers
<1>2. found \subseteq m.refs
  OBVIOUS
<1> HIDE DEF found
<1>3. new.refs \subseteq m.refs /\ (found # {} => new.refs = m.refs) /\ DOMAIN new = {"n", "failed", "refs"}
  OBVIOUS
<1> HIDE DEF new
<1>4. Attachments!TrayIsSendable' /\ DragCounted'
  BY <1>1, TrayShrinks
<1>5. UploadTypes' /\ CallsApart'
  BY <1>1, <1>3 DEF UploadInv, UploadTypes, CallsApart, Landed
<1>6. FilesSomewhere'
  <2>1. ASSUME NEW g \in owed' PROVE Somewhere(g)'
    <3>1. g \in owed /\ (g \in m.refs => g \in found)
      BY <1>1, <2>1
    <3>2. g \in staged => g \in swept' \/ g \in new.refs
      BY <1>1, <1>3, <3>1
    <3>3. OnItsWay(g) => OnItsWay(g)'
      BY <1>1 DEF OnItsWay
    <3> QED
      BY <1>1, <3>1, <3>2, <3>3 DEF UploadInv, FilesSomewhere, Somewhere
  <2> QED
    BY <1>1, <2>1 DEF FilesSomewhere
<1> QED
  BY <1>4, <1>5, <1>6 DEF UploadInv

LEMMA UploadBubbles ==
  ASSUME UploadInv, NEW b \in bubbles,
         \/ Attachments!Echoes(b) \/ Attachments!TimesOut(b) \/ Attachments!Cancels(b)
  PROVE  UploadInv'
<1> DEFINE after == [b EXCEPT !.failed = TRUE]
<1>1. /\ \/ bubbles' = bubbles \ {b} /\ owed' = owed \ b.refs /\ swept' = swept
         \/ bubbles' = (bubbles \ {b}) \cup {after} /\ owed' = owed /\ swept' = swept
         \/ bubbles' = bubbles \ {b} /\ owed' = owed /\ swept' = swept \cup b.refs
      /\ UNCHANGED <<harness, route, staged, ingests, reading, over, dragDepth, ingested>>
  BY DEF Attachments!Echoes, Attachments!TimesOut, Attachments!Cancels
<1>2. after.refs = b.refs /\ DOMAIN after = {"n", "failed", "refs"}
  BY DEF UploadInv, UploadTypes
<1> HIDE DEF after
<1>3. Attachments!TrayIsSendable' /\ DragCounted'
  BY <1>1, TrayShrinks
<1>4. UploadTypes'
  BY <1>1, <1>2 DEF UploadInv, UploadTypes
<1>5. CallsApart'
  BY <1>1, <1>2 DEF UploadInv, CallsApart, Landed
<1>6. FilesSomewhere'
  <2>1. \A g : OnItsWay(g) => OnItsWay(g)'
    BY <1>1 DEF OnItsWay
  <2> QED
    BY <1>1, <1>2, <2>1 DEF UploadInv, FilesSomewhere, Somewhere
<1> QED
  BY <1>3, <1>4, <1>5, <1>6 DEF UploadInv

LEMMA UploadResends ==
  ASSUME UploadInv, NEW b \in bubbles, Attachments!Resends(b)
  PROVE  UploadInv'
<1> DEFINE new == [n |-> messages + 1, refs |-> staged]
<1>1. /\ reading' = reading \cup {new} /\ bubbles' = bubbles \ {b} /\ swept' = swept \cup b.refs
      /\ UNCHANGED <<harness, route, staged, ingests, over, dragDepth, ingested, owed>>
  BY DEF Attachments!Resends, Attachments!Begins
<1>2. new.refs = staged
  OBVIOUS
<1> HIDE DEF new
<1>3. Attachments!TrayIsSendable' /\ DragCounted'
  BY <1>1, TrayShrinks
<1>4. UploadTypes' /\ CallsApart'
  BY <1>1, <1>2 DEF UploadInv, UploadTypes, CallsApart, Landed, FilesSomewhere, Offered
<1>5. FilesSomewhere'
  <2>1. \A g : OnItsWay(g) => OnItsWay(g)'
    BY <1>1 DEF OnItsWay
  <2> QED
    BY <1>1, <2>1 DEF UploadInv, FilesSomewhere, Somewhere
<1> QED
  BY <1>3, <1>4, <1>5 DEF UploadInv

(* The invariant is kept by every step.                                              *)
LEMMA UploadInvInductive == UploadInv /\ [Attachments!UploadsNext]_uploadVars => UploadInv'
<1> SUFFICES ASSUME UploadInv, [Attachments!UploadsNext]_uploadVars PROVE UploadInv'
  OBVIOUS
<1>1. CASE UNCHANGED uploadVars
  <2>1. UNCHANGED <<harness, route, staged, ingests, reading, bubbles, over, dragDepth, ingested, owed, swept>>
    BY <1>1 DEF uploadVars
  <2>2. UploadTypes' /\ CallsApart'
    BY <2>1 DEF UploadInv, UploadTypes, CallsApart, Landed
  <2>3. FilesSomewhere'
    BY <2>1 DEF UploadInv, FilesSomewhere, Somewhere, OnItsWay
  <2> QED
    BY <2>1, <2>2, <2>3, TrayShrinks DEF UploadInv
<1>2. CASE Attachments!RunnerStarts \/ Attachments!RunnerGoes \/ Attachments!PicksModel
  BY <1>2, UploadChanges DEF Attachments!RunnerStarts, Attachments!RunnerGoes, Attachments!PicksModel
<1>3. CASE Attachments!UploadsNext /\ ~(Attachments!RunnerStarts \/ Attachments!RunnerGoes \/ Attachments!PicksModel)
  BY <1>3, UploadPick, UploadDrags, UploadDrop, UploadSaves, UploadArrives, UploadCallFails, UploadUnreadable,
     UploadRemoves, UploadSends, UploadDelivers, UploadBubbles, UploadResends DEF Attachments!UploadsNext
<1> QED
  BY <1>1, <1>2, <1>3

-----------------------------------------------------------------------------
(***************************************************************************)
(* The terminals: the tabs, the frames and the shells.                             *)
(***************************************************************************)

ToHostFrames == {"open", "close", "input"} \X Terms!TabIds
ToViewFrames == {"error", "exited"} \X Terms!TabIds

(* Queues of frames.                                                           *)
Carries(q, frame) == \E i \in DOMAIN q : q[i] = frame
(* What is opened is closed again, further back.                                      *)
ClosesAfter(q, t) ==
  \A i \in DOMAIN q : q[i] = <<"open", t>> => \E j \in DOMAIN q : i < j /\ q[j] = <<"close", t>>

LEMMA QueueLonger ==
  ASSUME NEW S, NEW q \in Seq(S), NEW more \in Seq(S)
  PROVE  /\ q \o more \in Seq(S)
         /\ \A x : Carries(q \o more, x) <=> Carries(q, x) \/ Carries(more, x)
         /\ \A t : ClosesAfter(q, t) /\ ~Carries(more, <<"open", t>>) => ClosesAfter(q \o more, t)
         /\ \A t : Carries(more, <<"close", t>>) /\ ~Carries(more, <<"open", t>>) => ClosesAfter(q \o more, t)
<1> DEFINE all == q \o more
<1>1. /\ all \in Seq(S) /\ Len(all) = Len(q) + Len(more)
      /\ \A i \in 1..Len(q) : all[i] = q[i]
      /\ \A i \in 1..Len(more) : all[Len(q) + i] = more[i]
  OBVIOUS
<1>2. /\ DOMAIN all = 1..Len(all) /\ DOMAIN q = 1..Len(q) /\ DOMAIN more = 1..Len(more)
      /\ Len(q) \in Nat /\ Len(more) \in Nat
  BY <1>1
<1> HIDE DEF all
<1>3. \A i \in DOMAIN all : i \in DOMAIN q \/ (i - Len(q) \in DOMAIN more /\ all[i] = more[i - Len(q)])
  <2> SUFFICES ASSUME NEW i \in DOMAIN all, i \notin DOMAIN q
               PROVE  i - Len(q) \in DOMAIN more /\ all[i] = more[i - Len(q)]
    OBVIOUS
  <2>1. i - Len(q) \in 1..Len(more) /\ Len(q) + (i - Len(q)) = i
    BY <1>1, <1>2
  <2> QED
    BY <1>1, <1>2, <2>1
<1>4. \A i \in DOMAIN q : i \in DOMAIN all /\ all[i] = q[i]
  BY <1>1, <1>2
<1>5. \A i \in DOMAIN more : Len(q) + i \in DOMAIN all /\ all[Len(q) + i] = more[i]
  BY <1>1, <1>2
<1>6. \A x : Carries(all, x) <=> Carries(q, x) \/ Carries(more, x)
  BY <1>3, <1>4, <1>5 DEF Carries
<1>7. \A t : ClosesAfter(q, t) /\ ~Carries(more, <<"open", t>>) => ClosesAfter(all, t)
  BY <1>3, <1>4 DEF Carries, ClosesAfter
<1>8. \A t : Carries(more, <<"close", t>>) /\ ~Carries(more, <<"open", t>>) => ClosesAfter(all, t)
  <2> SUFFICES ASSUME NEW t, Carries(more, <<"close", t>>), ~Carries(more, <<"open", t>>),
                      NEW i \in DOMAIN all, all[i] = <<"open", t>>
               PROVE  \E j \in DOMAIN all : i < j /\ all[j] = <<"close", t>>
    BY DEF ClosesAfter
  <2>1. PICK k \in DOMAIN more : more[k] = <<"close", t>>
    BY DEF Carries
  <2>2. i \in DOMAIN q
    BY <1>3 DEF Carries
  <2>3. Len(q) + k \in DOMAIN all /\ all[Len(q) + k] = <<"close", t>> /\ i < Len(q) + k
    BY <1>2, <1>5, <2>1, <2>2
  <2> QED
    BY <2>3
<1> QED
  BY <1>1, <1>6, <1>7, <1>8 DEF all

LEMMA QueueShorter ==
  ASSUME NEW S, NEW q \in Seq(S), q # << >>
  PROVE  /\ Tail(q) \in Seq(S) /\ Head(q) \in S /\ Carries(q, Head(q))
         /\ \A x : Carries(Tail(q), x) => Carries(q, x)
         /\ \A x : Carries(q, x) /\ Head(q) # x => Carries(Tail(q), x)
         /\ \A t : ClosesAfter(q, t) => ClosesAfter(Tail(q), t)
         /\ \A t : ClosesAfter(q, t) /\ Head(q) = <<"open", t>> => Carries(Tail(q), <<"close", t>>)
<1> DEFINE rest == Tail(q)
<1>1. /\ rest \in Seq(S) /\ Len(rest) = Len(q) - 1 /\ Head(q) = q[1] /\ 1 \in DOMAIN q /\ q[1] \in S
      /\ \A i \in 1..Len(rest) : rest[i] = q[i + 1]
  OBVIOUS
<1>2. DOMAIN rest = 1..Len(rest) /\ DOMAIN q = 1..Len(q) /\ Len(q) \in Nat /\ Len(rest) \in Nat
  BY <1>1
<1> HIDE DEF rest
<1>3. \A i \in DOMAIN rest : i + 1 \in DOMAIN q /\ rest[i] = q[i + 1]
  BY <1>1, <1>2
<1>4. \A i \in DOMAIN q : i # 1 => i - 1 \in DOMAIN rest /\ rest[i - 1] = q[i]
  <2> SUFFICES ASSUME NEW i \in DOMAIN q, i # 1 PROVE i - 1 \in DOMAIN rest /\ rest[i - 1] = q[i]
    OBVIOUS
  <2>1. i - 1 \in 1..Len(rest) /\ (i - 1) + 1 = i
    BY <1>1, <1>2
  <2> QED
    BY <1>1, <1>2, <2>1
<1>5. \A x : Carries(rest, x) => Carries(q, x)
  BY <1>3 DEF Carries
<1>6. \A x : Carries(q, x) /\ Head(q) # x => Carries(rest, x)
  BY <1>1, <1>4 DEF Carries
<1>7. \A i, j \in DOMAIN q : i < j => j # 1
  BY <1>2
<1>8. \A t : ClosesAfter(q, t) /\ Head(q) = <<"open", t>> => Carries(rest, <<"close", t>>)
  BY <1>1, <1>4, <1>7 DEF Carries, ClosesAfter
<1>9. \A t : ClosesAfter(q, t) => ClosesAfter(rest, t)
  <2> SUFFICES ASSUME NEW t, ClosesAfter(q, t), NEW i \in DOMAIN rest, rest[i] = <<"open", t>>
               PROVE  \E j \in DOMAIN rest : i < j /\ rest[j] = <<"close", t>>
    BY DEF ClosesAfter
  <2>1. PICK j \in DOMAIN q : i + 1 < j /\ q[j] = <<"close", t>>
    BY <1>3 DEF ClosesAfter
  <2>2. j - 1 \in DOMAIN rest /\ rest[j - 1] = <<"close", t>> /\ i < j - 1
    BY <1>2, <1>3, <1>4, <2>1
  <2> QED
    BY <2>2
<1> QED
  BY <1>1, <1>5, <1>6, <1>8, <1>9 DEF Carries, rest

TermTypes ==
  /\ tabs \in Seq(Nat) /\ tabIds \in 0..MaxTabs
  /\ \A i \in DOMAIN tabs : 1 <= tabs[i] /\ tabs[i] <= tabIds
  /\ \A i, j \in DOMAIN tabs : tabs[i] = tabs[j] => i = j
  /\ toHost \in Seq(ToHostFrames) /\ toView \in Seq(ToViewFrames)
  /\ shells \in [Terms!TabIds -> {"none", "running", "killed"}]
  /\ linked \in {"connecting", "open", "closed"}

(* A tab to come has nothing yet, and none has a shell before the page is connected.           *)
TabsAreFresh ==
  /\ \A t \in Terms!TabIds : t > tabIds =>
       shells[t] = "none" /\ ~Carries(toHost, <<"open", t>>) /\ t \notin opening
  /\ linked = "connecting" => \A t \in Terms!TabIds : Terms!InPane(t) => shells[t] = "none"

(* The shell of a tab that is gone is to be closed, if it is not a stray.                  *)
GoneAreClosed ==
  linked # "closed" =>
    \A t \in Terms!TabIds : ~Terms!InPane(t) /\ t \notin strays =>
      ClosesAfter(toHost, t) /\ (shells[t] = "running" => Carries(toHost, <<"close", t>>))

(* A tab without a shell is to be opened, or to be told of, or has been.                    *)
Awaited(t) == t \in opening \/ (0 \in opening /\ tabs # << >> /\ t = tabs[1])
Heard(t) ==
  t \in listening /\ \/ Carries(toHost, <<"open", t>>) \/ shells[t] # "none"
                     \/ Carries(toView, <<"exited", t>>) \/ Carries(toView, <<"error", t>>)
TabsAreServed ==
  linked # "closed" =>
    \A t \in Terms!TabIds : Terms!InPane(t) => Awaited(t) \/ Heard(t) \/ t \in exited \cup told

TermInv == TermTypes /\ TabsAreFresh /\ GoneAreClosed /\ TabsAreServed

(* What the invariant says is what the terminals promise.                                *)
LEMMA TermInvSound == TermInv => Terms!TerminalsAgree
<1> SUFFICES ASSUME TermInv PROVE Terms!TerminalsAgree
  OBVIOUS
<1>1. \A x : ~Carries(<< >>, x)
  BY DEF Carries
<1>2. Terms!ShellsHaveTabs
  BY <1>1 DEF TermInv, GoneAreClosed, Terms!ShellsHaveTabs, Terms!AtRest
<1>3. Terms!TabsAreTruthful
  BY <1>1 DEF TermInv, TabsAreServed, Awaited, Heard, Terms!TabsAreTruthful, Terms!AtRest
<1> QED
  BY <1>2, <1>3 DEF Terms!TerminalsAgree

LEMMA TermInvInit == Terms!TermInit => TermInv
<1> SUFFICES ASSUME Terms!TermInit PROVE TermInv
  OBVIOUS
<1>1. /\ tabs = << >> /\ toHost = << >> /\ toView = << >> /\ opening = {} /\ tabIds = 0
      /\ shells = [t \in Terms!TabIds |-> "none"] /\ linked = "connecting"
  BY DEF Terms!TermInit
<1>2. TermTypes
  BY <1>1, WindowsAssumption DEF TermTypes
<1>3. \A x : ~Carries(<< >>, x)
  BY DEF Carries
<1>4. \A t : ~Terms!InPane(t) /\ ClosesAfter(<< >>, t)
  BY <1>1 DEF Terms!InPane, ClosesAfter
<1> QED
  BY <1>1, <1>2, <1>3, <1>4 DEF TermInv, TabsAreFresh, GoneAreClosed, TabsAreServed

(* A new tab is the last.                                                         *)
LEMMA TabAdded ==
  ASSUME TermTypes, Terms!AddTab
  PROVE  /\ tabs' \in Seq(Nat) /\ tabIds' \in 0..MaxTabs /\ tabIds' = tabIds + 1 /\ tabIds \in Nat
         /\ tabIds + 1 \in Terms!TabIds
         /\ \A i \in DOMAIN tabs' : 1 <= tabs'[i] /\ tabs'[i] <= tabIds'
         /\ \A i, j \in DOMAIN tabs' : tabs'[i] = tabs'[j] => i = j
         /\ \A t : Terms!InPane(t)' <=> Terms!InPane(t) \/ t = tabIds + 1
         /\ tabs' # << >> /\ tabs'[1] = IF tabs = << >> THEN tabIds + 1 ELSE tabs[1]
<1>1. tabIds < MaxTabs /\ tabIds' = tabIds + 1 /\ tabs' = Append(tabs, tabIds + 1)
  BY DEF Terms!AddTab
<1>2. MaxTabs \in Nat /\ tabIds \in Nat /\ tabs \in Seq(Nat)
  BY WindowsAssumption DEF TermTypes
<1>3. /\ tabs' \in Seq(Nat) /\ Len(tabs') = Len(tabs) + 1 /\ Len(tabs) \in Nat
      /\ \A i \in 1..Len(tabs) : tabs'[i] = tabs[i]
      /\ tabs'[Len(tabs) + 1] = tabIds + 1
  BY <1>1, <1>2
<1>4. DOMAIN tabs' = 1..(Len(tabs) + 1) /\ DOMAIN tabs = 1..Len(tabs) /\ (tabs = << >> <=> Len(tabs) = 0)
  BY <1>2, <1>3
<1>5. \A i \in DOMAIN tabs' : i = Len(tabs) + 1 \/ i \in DOMAIN tabs
  BY <1>3, <1>4
<1>6. \A i \in DOMAIN tabs : 1 <= tabs[i] /\ tabs[i] <= tabIds /\ tabs[i] \in Nat
  BY <1>2 DEF TermTypes
<1>7. \A i \in DOMAIN tabs' : 1 <= tabs'[i] /\ tabs'[i] <= tabIds'
  BY <1>1, <1>2, <1>3, <1>4, <1>5, <1>6
<1>8. \A i, j \in DOMAIN tabs' : tabs'[i] = tabs'[j] => i = j
  <2>1. \A i \in DOMAIN tabs : tabs[i] # tabIds + 1
    BY <1>2, <1>6
  <2> QED
    BY <1>3, <1>4, <1>5, <2>1 DEF TermTypes
<1>9. \A t : Terms!InPane(t)' <=> Terms!InPane(t) \/ t = tabIds + 1
  BY <1>3, <1>4, <1>5 DEF Terms!InPane
<1>10. tabs' # << >> /\ tabs'[1] = IF tabs = << >> THEN tabIds + 1 ELSE tabs[1]
  BY <1>3, <1>4
<1> QED
  BY <1>1, <1>2, <1>3, <1>7, <1>8, <1>9, <1>10 DEF Terms!TabIds

(* A tab is added and asked for.                                                     *)
LEMMA TermAdds ==
  ASSUME TermInv, Terms!AddTab, NEW o, opening' = opening \cup {o},
         o = tabIds + 1 \/ (o = 0 /\ tabs = << >>),
         UNCHANGED <<exited, told, listening, toHost, toView, shells, linked, strays>>
  PROVE  TermInv'
<1>1. TermTypes
  BY DEF TermInv
<1>2. /\ tabs' \in Seq(Nat) /\ tabIds' \in 0..MaxTabs /\ tabIds' = tabIds + 1 /\ tabIds \in Nat
      /\ tabIds + 1 \in Terms!TabIds
      /\ \A i \in DOMAIN tabs' : 1 <= tabs'[i] /\ tabs'[i] <= tabIds'
      /\ \A i, j \in DOMAIN tabs' : tabs'[i] = tabs'[j] => i = j
      /\ \A t : Terms!InPane(t)' <=> Terms!InPane(t) \/ t = tabIds + 1
      /\ tabs' # << >> /\ tabs'[1] = IF tabs = << >> THEN tabIds + 1 ELSE tabs[1]
  BY <1>1, TabAdded
<1>3. TermTypes'
  BY <1>2 DEF TermInv, TermTypes
<1>4. \A t \in Terms!TabIds : t \in Nat /\ t # 0
  BY DEF Terms!TabIds
<1>5. TabsAreFresh'
  <2>1. \A t \in Terms!TabIds : t > tabIds' => t > tabIds /\ t # o
    BY <1>2, <1>4
  <2>2. tabIds + 1 > tabIds
    BY <1>2
  <2> QED
    BY <1>2, <2>1, <2>2 DEF TermInv, TabsAreFresh
<1>6. GoneAreClosed'
  BY <1>2 DEF TermInv, GoneAreClosed
<1>7. TabsAreServed'
  <2>1. \A t : Awaited(t) => Awaited(t)'
    BY <1>2 DEF Awaited
  <2>2. \A t : t = tabIds + 1 => Awaited(t)'
    BY <1>2 DEF Awaited
  <2>3. \A t : Heard(t) => Heard(t)'
    BY DEF Heard
  <2> QED
    BY <1>2, <2>1, <2>2, <2>3 DEF TermInv, TabsAreServed
<1> QED
  BY <1>3, <1>5, <1>6, <1>7 DEF TermInv

LEMMA TermOpens == TermInv /\ (Terms!OpenPane \/ Terms!NewTab) => TermInv'
<1> SUFFICES ASSUME TermInv, Terms!OpenPane \/ Terms!NewTab PROVE TermInv'
  OBVIOUS
<1>1. UNCHANGED <<exited, told, listening, toHost, toView, shells, linked, strays>>
  BY DEF Terms!OpenPane, Terms!NewTab
<1>2. CASE Terms!NewTab
  BY <1>1, <1>2, TermAdds DEF Terms!NewTab
<1>3. CASE Terms!OpenPane /\ tabs = << >>
  BY <1>1, <1>3, TermAdds DEF Terms!OpenPane
<1>4. CASE Terms!OpenPane /\ tabs # << >>
  <2>1. UNCHANGED <<tabs, tabIds>> /\ opening' = opening \cup {0}
    BY <1>4 DEF Terms!OpenPane
  <2>2. \A t \in Terms!TabIds : t # 0
    BY DEF Terms!TabIds
  <2>3. \A t : (Awaited(t) => Awaited(t)') /\ (Heard(t) => Heard(t)') /\ (Terms!InPane(t)' <=> Terms!InPane(t))
    BY <1>1, <2>1 DEF Awaited, Heard, Terms!InPane
  <2>4. TermTypes'
    BY <1>1, <2>1 DEF TermInv, TermTypes
  <2> QED
    BY <1>1, <2>1, <2>2, <2>3, <2>4 DEF TermInv, TabsAreFresh, GoneAreClosed, TabsAreServed
<1> QED
  BY <1>2, <1>3, <1>4

(* What a frame to the host leaves of the invariant, for the tabs that stay as they are.      *)
LEMMA SendsOn ==
  ASSUME TermTypes, NEW more \in Seq(ToHostFrames), Terms!Send(more)
  PROVE  /\ toHost' \in Seq(ToHostFrames)
         /\ \A x : Carries(toHost, x) => Carries(toHost', x)
         /\ \A x : Carries(toHost', x) => Carries(toHost, x) \/ Carries(more, x)
         /\ linked # "closed" =>
              /\ \A x : Carries(more, x) => Carries(toHost', x)
              /\ \A t : ClosesAfter(toHost, t) /\ ~Carries(more, <<"open", t>>) => ClosesAfter(toHost', t)
              /\ \A t : Carries(more, <<"close", t>>) /\ ~Carries(more, <<"open", t>>) => ClosesAfter(toHost', t)
<1>1. toHost' = IF linked = "closed" THEN toHost ELSE toHost \o more
  BY DEF Terms!Send
<1>2. toHost \in Seq(ToHostFrames)
  BY DEF TermTypes
<1> DEFINE all == toHost \o more
<1>3. /\ all \in Seq(ToHostFrames)
      /\ \A x : Carries(all, x) <=> Carries(toHost, x) \/ Carries(more, x)
      /\ \A t : ClosesAfter(toHost, t) /\ ~Carries(more, <<"open", t>>) => ClosesAfter(all, t)
      /\ \A t : Carries(more, <<"close", t>>) /\ ~Carries(more, <<"open", t>>) => ClosesAfter(all, t)
  BY <1>2, QueueLonger
<1> HIDE DEF all
<1>4. toHost' = toHost \/ (toHost' = all /\ linked # "closed")
  BY <1>1 DEF all
<1>5. linked # "closed" => toHost' = all
  BY <1>1 DEF all
<1> QED
  BY <1>2, <1>3, <1>4, <1>5

LEMMA OneFrame ==
  ASSUME NEW x
  PROVE  \A y : Carries(<<x>>, y) <=> x = y
BY DEF Carries

LEMMA FirstTab ==
  ASSUME TermTypes, tabs # << >>
  PROVE  tabs[1] \in Terms!TabIds /\ tabs[1] \in 1..tabIds /\ Terms!InPane(tabs[1])
<1>1. 1 \in DOMAIN tabs /\ tabs[1] \in Nat
  BY DEF TermTypes
<1>2. 1 <= tabs[1] /\ tabs[1] <= tabIds /\ tabIds \in 0..MaxTabs /\ MaxTabs \in Nat
  BY <1>1, WindowsAssumption DEF TermTypes
<1> QED
  BY <1>1, <1>2 DEF Terms!TabIds, Terms!InPane

(* The directory is known: the tab is opened.                                         *)
LEMMA TermCwdResolves ==
  ASSUME TermInv, NEW o \in 0..MaxTabs, Terms!CwdResolves(o)
  PROVE  TermInv'
<1> DEFINE target == Terms!Target(o)
           x == CHOOSE t \in target : TRUE
           more == IF target = {} THEN << >> ELSE <<<<"open", x>>>>
<1>1. /\ o \in opening /\ opening' = opening \ {o} /\ listening' = listening \cup target
      /\ Terms!Send(more) /\ strays' = strays \cup {t \in target : ~Terms!InPane(t)}
      /\ UNCHANGED <<tabs, exited, told, toView, shells, linked, tabIds>>
  BY DEF Terms!CwdResolves
<1>2. TermTypes /\ MaxTabs \in Nat
  BY WindowsAssumption DEF TermInv
<1>3. target = {} \/ \E t \in Terms!TabIds : target = {t} /\ t <= tabIds
  <2>1. CASE o = 0
    BY <1>2, <2>1, FirstTab DEF Terms!Target
  <2>2. CASE o # 0
    <3>1. o \in Terms!TabIds /\ tabIds \in Nat /\ o \in Nat
      BY <1>2, <2>2 DEF Terms!TabIds, TermTypes
    <3>2. o <= tabIds
      <4>1. o > tabIds => o \notin opening
        BY ONLY TermInv, <3>1, Zenon DEF TermInv, TabsAreFresh
      <4> QED
        BY <1>1, <3>1, <4>1
    <3> QED
      BY <2>2, <3>1, <3>2 DEF Terms!Target
  <2> QED
    BY <2>1, <2>2
<1>4. target # {} => x \in Terms!TabIds /\ target = {x} /\ x <= tabIds
  BY <1>3
<1>5. (o = 0 => target = IF tabs = << >> THEN {} ELSE {tabs[1]}) /\ (o # 0 => target = {o})
  BY DEF Terms!Target
<1> HIDE DEF target, x
<1>6. more \in Seq(ToHostFrames)
  BY <1>4 DEF ToHostFrames
<1>7. \A y : Carries(more, y) <=> target # {} /\ y = <<"open", x>>
  BY OneFrame DEF Carries
<1>8. /\ toHost' \in Seq(ToHostFrames)
      /\ \A y : Carries(toHost, y) => Carries(toHost', y)
      /\ \A y : Carries(toHost', y) => Carries(toHost, y) \/ Carries(more, y)
      /\ linked # "closed" =>
           /\ \A y : Carries(more, y) => Carries(toHost', y)
           /\ \A t : ClosesAfter(toHost, t) /\ ~Carries(more, <<"open", t>>) => ClosesAfter(toHost', t)
  BY <1>1, <1>2, <1>6, SendsOn
<1> HIDE DEF more
<1>9. \A t : Terms!InPane(t)' <=> Terms!InPane(t)
  BY <1>1 DEF Terms!InPane
<1>10. TermTypes'
  BY <1>1, <1>8 DEF TermInv, TermTypes
<1>11. TabsAreFresh'
  <2>1. \A t \in Terms!TabIds : t > tabIds => ~Carries(more, <<"open", t>>)
    BY <1>2, <1>4, <1>7 DEF TermTypes, Terms!TabIds
  <2> QED
    BY <1>1, <1>8, <1>9, <2>1 DEF TermInv, TabsAreFresh
<1>12. GoneAreClosed'
  <2>1. \A t : ~Terms!InPane(t) /\ t \notin strays' => t \notin target
    BY <1>1
  <2>2. \A t : t \notin target => ~Carries(more, <<"open", t>>)
    BY <1>4, <1>7
  <2> QED
    BY <1>1, <1>8, <1>9, <2>1, <2>2 DEF TermInv, GoneAreClosed
<1>13. TabsAreServed'
  <2>1. ASSUME linked # "closed", NEW t, t \in target PROVE Heard(t)'
    BY <1>1, <1>4, <1>7, <1>8, <2>1 DEF Heard
  <2>2. \A t : Heard(t) => Heard(t)'
    BY <1>1, <1>8 DEF Heard
  <2>3. \A t \in Terms!TabIds : Awaited(t) => Awaited(t)' \/ t \in target
    BY <1>1, <1>5 DEF Awaited, Terms!TabIds
  <2> QED
    BY <1>1, <1>9, <2>1, <2>2, <2>3 DEF TermInv, TabsAreServed
<1> QED
  BY <1>10, <1>11, <1>12, <1>13 DEF TermInv

(* The steps that send nothing and leave the tabs.                                      *)
LEMMA TermStays ==
  ASSUME TermInv, UNCHANGED <<tabs, listening, toHost, shells, tabIds, strays>>, opening' \subseteq opening,
         linked' \in {linked, "open", "closed"}, linked' = "closed" \/ linked # "closed" \/ linked' = linked,
         toView' \in Seq(ToViewFrames),
         linked' # "closed" => \A t \in Terms!TabIds : Terms!InPane(t) =>
           /\ Awaited(t) => Awaited(t)' \/ t \in exited' \cup told'
           /\ Heard(t) => Heard(t)' \/ t \in exited' \cup told'
           /\ t \in exited \cup told => t \in exited' \cup told'
  PROVE  TermInv'
<1>1. \A t : Terms!InPane(t)' <=> Terms!InPane(t)
  BY DEF Terms!InPane
<1>2. TermTypes'
  BY DEF TermInv, TermTypes
<1>3. linked' = "connecting" => linked = "connecting"
  OBVIOUS
<1>4. linked' # "closed" => linked # "closed"
  OBVIOUS
<1>5. TabsAreFresh'
  BY <1>1, <1>3 DEF TermInv, TabsAreFresh
<1>6. GoneAreClosed'
  BY <1>1, <1>4 DEF TermInv, GoneAreClosed
<1>7. TabsAreServed'
  BY <1>1, <1>4 DEF TermInv, TabsAreServed
<1> QED
  BY <1>2, <1>5, <1>6, <1>7 DEF TermInv

LEMMA TermCwdFails ==
  ASSUME TermInv, NEW o \in 0..MaxTabs, Terms!CwdFails(o)
  PROVE  TermInv'
<1>1. /\ opening' = opening \ {o} /\ told' = told \cup (IF o = 0 THEN Terms!TabIds ELSE {o})
      /\ UNCHANGED <<tabs, exited, listening, toHost, toView, shells, linked, tabIds, strays>>
  BY DEF Terms!CwdFails
<1>2. \A t \in Terms!TabIds : Awaited(t) => Awaited(t)' \/ t \in told'
  BY <1>1 DEF Awaited
<1>3. \A t : Heard(t) => Heard(t)'
  BY <1>1 DEF Heard
<1>4. toView' \in Seq(ToViewFrames) /\ linked \in {"connecting", "open", "closed"}
  BY <1>1 DEF TermInv, TermTypes
<1> QED
  BY <1>1, <1>2, <1>3, <1>4, TermStays

LEMMA TermQuiet == TermInv /\ (Terms!ClosePane \/ Terms!Connects \/ Terms!SocketCloses) => TermInv'
<1> SUFFICES ASSUME TermInv, Terms!ClosePane \/ Terms!Connects \/ Terms!SocketCloses PROVE TermInv'
  OBVIOUS
<1>1. UNCHANGED <<tabs, exited, told, opening, listening, shells, tabIds, strays>>
  BY DEF Terms!ClosePane, Terms!Connects, Terms!SocketCloses
<1>2. CASE Terms!ClosePane \/ Terms!Connects
  <2>1. /\ UNCHANGED <<toHost, toView>>
        /\ linked' = linked \/ (linked = "connecting" /\ linked' = "open")
    BY <1>2 DEF Terms!ClosePane, Terms!Connects
  <2>2. \A t : (Awaited(t) => Awaited(t)') /\ (Heard(t) => Heard(t)')
    BY <1>1, <2>1 DEF Awaited, Heard
  <2>3. toView' \in Seq(ToViewFrames)
    BY <2>1 DEF TermInv, TermTypes
  <2> QED
    BY <1>1, <2>1, <2>2, <2>3, TermStays
<1>3. CASE Terms!SocketCloses
  <2>1. linked' = "closed" /\ toHost' = << >> /\ toView' = << >>
    BY <1>3 DEF Terms!SocketCloses
  <2>2. \A x : ~Carries(toHost', x)
    BY <2>1 DEF Carries
  <2>3. TermTypes'
    BY <1>1, <2>1 DEF TermInv, TermTypes
  <2>4. TabsAreFresh'
    BY <1>1, <2>1, <2>2 DEF TermInv, TabsAreFresh
  <2> QED
    BY <2>1, <2>3, <2>4 DEF TermInv, GoneAreClosed, TabsAreServed
<1> QED
  BY <1>2, <1>3

(* A tab is closed: it leaves the pane, and the others stay in their order.                  *)
LEMMA TabClosed ==
  ASSUME TermTypes, NEW t, Terms!InPane(t), tabs' = Terms!Without(t)
  PROVE  /\ tabs' \in Seq(Nat)
         /\ \A i \in DOMAIN tabs' : 1 <= tabs'[i] /\ tabs'[i] <= tabIds
         /\ \A i, j \in DOMAIN tabs' : tabs'[i] = tabs'[j] => i = j
         /\ \A u : Terms!InPane(u)' <=> Terms!InPane(u) /\ u # t
         /\ tabs # << >> /\ tabs[1] # t => tabs' # << >> /\ tabs'[1] = tabs[1]
<1> DEFINE place == CHOOSE i \in DOMAIN tabs : tabs[i] = t
<1>1. place \in DOMAIN tabs /\ tabs[place] = t
  BY DEF Terms!InPane
<1>2. tabs' = Terms!RemoveAt(tabs, place)
  BY DEF Terms!Without
<1> HIDE DEF place
<1>3. tabs \in Seq(Nat)
  BY DEF TermTypes
<1>4. /\ tabs' \in Seq(Nat) /\ Len(tabs') = Len(tabs) - 1
      /\ \A k \in DOMAIN tabs' : tabs'[k] = IF k < place THEN tabs[k] ELSE tabs[k + 1]
  BY <1>1, <1>2, <1>3, OneRemoved DEF Terms!RemoveAt
<1>5. DOMAIN tabs = 1..Len(tabs) /\ DOMAIN tabs' = 1..(Len(tabs) - 1) /\ Len(tabs) \in Nat
  BY <1>3, <1>4
<1>6. \A i, j \in DOMAIN tabs : tabs[i] = tabs[j] => i = j
  BY DEF TermTypes
<1> DEFINE From(k) == IF k < place THEN k ELSE k + 1
<1>7. \A k \in DOMAIN tabs' : From(k) \in DOMAIN tabs /\ From(k) # place /\ tabs'[k] = tabs[From(k)]
  BY <1>1, <1>4, <1>5
<1>8. \A k, l \in DOMAIN tabs' : From(k) = From(l) => k = l
  BY <1>1, <1>5
<1>9. \A i \in DOMAIN tabs : i # place => \E k \in DOMAIN tabs' : From(k) = i
  <2> SUFFICES ASSUME NEW i \in DOMAIN tabs, i # place PROVE \E k \in DOMAIN tabs' : From(k) = i
    OBVIOUS
  <2>1. CASE i < place
    BY <1>1, <1>5, <2>1
  <2>2. CASE ~(i < place)
    <3>1. i - 1 \in DOMAIN tabs' /\ ~(i - 1 < place) /\ (i - 1) + 1 = i
      BY <1>1, <1>5, <2>2
    <3> QED
      BY <3>1
  <2> QED
    BY <2>1, <2>2
<1>10. tabs # << >> /\ tabs[1] # t => tabs' # << >> /\ tabs'[1] = tabs[1]
  <2> SUFFICES ASSUME tabs # << >>, tabs[1] # t PROVE tabs' # << >> /\ tabs'[1] = tabs[1]
    OBVIOUS
  <2>1. place # 1 /\ place \in 1..Len(tabs)
    BY <1>1, <1>5
  <2>2. 1 \in DOMAIN tabs' /\ 1 < place
    BY <1>5, <2>1
  <2>3. tabs' # << >>
    BY <1>4, <1>5, <2>2
  <2> QED
    BY <1>4, <2>2, <2>3
<1> HIDE DEF From
<1>11. \A i \in DOMAIN tabs' : 1 <= tabs'[i] /\ tabs'[i] <= tabIds
  BY <1>7 DEF TermTypes
<1>12. \A i, j \in DOMAIN tabs' : tabs'[i] = tabs'[j] => i = j
  BY <1>6, <1>7, <1>8
<1>13. \A u : Terms!InPane(u)' <=> Terms!InPane(u) /\ u # t
  BY <1>1, <1>6, <1>7, <1>9 DEF Terms!InPane
<1> QED
  BY <1>4, <1>10, <1>11, <1>12, <1>13

LEMMA TermClosesTab ==
  ASSUME TermInv, NEW t \in Terms!TabIds, Terms!CloseTab(t)
  PROVE  TermInv'
<1> DEFINE more == <<<<"close", t>>>>
<1>1. /\ Terms!InPane(t) /\ Terms!Send(more) /\ listening' = listening \ {t} /\ tabs' = Terms!Without(t)
      /\ UNCHANGED <<exited, told, opening, toView, shells, linked, tabIds, strays>>
  BY DEF Terms!CloseTab
<1>2. TermTypes
  BY DEF TermInv
<1>3. /\ tabs' \in Seq(Nat)
      /\ \A i \in DOMAIN tabs' : 1 <= tabs'[i] /\ tabs'[i] <= tabIds
      /\ \A i, j \in DOMAIN tabs' : tabs'[i] = tabs'[j] => i = j
      /\ \A u : Terms!InPane(u)' <=> Terms!InPane(u) /\ u # t
      /\ tabs # << >> /\ tabs[1] # t => tabs' # << >> /\ tabs'[1] = tabs[1]
  BY <1>1, <1>2, TabClosed
<1>4. more \in Seq(ToHostFrames)
  BY DEF ToHostFrames
<1>5. \A y : Carries(more, y) <=> y = <<"close", t>>
  BY OneFrame
<1> HIDE DEF more
<1>6. /\ toHost' \in Seq(ToHostFrames)
      /\ \A x : Carries(toHost, x) => Carries(toHost', x)
      /\ \A x : Carries(toHost', x) => Carries(toHost, x) \/ Carries(more, x)
      /\ linked # "closed" =>
           /\ \A x : Carries(more, x) => Carries(toHost', x)
           /\ \A u : ClosesAfter(toHost, u) /\ ~Carries(more, <<"open", u>>) => ClosesAfter(toHost', u)
           /\ \A u : Carries(more, <<"close", u>>) /\ ~Carries(more, <<"open", u>>) => ClosesAfter(toHost', u)
  BY <1>1, <1>2, <1>4, SendsOn
<1>7. \A u : ~Carries(more, <<"open", u>>)
  BY <1>5
<1>8. TermTypes'
  BY <1>1, <1>3, <1>6 DEF TermInv, TermTypes
<1>9. TabsAreFresh'
  BY <1>1, <1>3, <1>6, <1>7 DEF TermInv, TabsAreFresh
<1>10. GoneAreClosed'
  <2>1. linked # "closed" => ClosesAfter(toHost', t) /\ Carries(toHost', <<"close", t>>)
    BY <1>5, <1>6, <1>7
  <2> QED
    BY <1>1, <1>3, <1>6, <1>7, <2>1 DEF TermInv, GoneAreClosed
<1>11. TabsAreServed'
  <2>1. \A u : u # t /\ Heard(u) => Heard(u)'
    BY <1>1, <1>6 DEF Heard
  <2>2. \A u : u # t /\ Awaited(u) => Awaited(u)'
    BY <1>1, <1>3 DEF Awaited
  <2> QED
    BY <1>1, <1>3, <2>1, <2>2 DEF TermInv, TabsAreServed
<1> QED
  BY <1>8, <1>9, <1>10, <1>11 DEF TermInv

LEMMA TermDisposes == TermInv /\ Terms!DisposeSession => TermInv'
<1> SUFFICES ASSUME TermInv, Terms!DisposeSession PROVE TermInv'
  OBVIOUS
<1> DEFINE more == [i \in DOMAIN tabs |-> <<"close", tabs[i]>>]
<1>1. /\ Terms!Send(more) /\ tabs' = << >>
      /\ UNCHANGED <<exited, told, opening, toView, shells, linked, tabIds, strays>>
  BY DEF Terms!DisposeSession
<1>2. TermTypes /\ MaxTabs \in Nat
  BY WindowsAssumption DEF TermInv
<1>3. more \in Seq(ToHostFrames)
  <2>1. \A i \in DOMAIN tabs : tabs[i] \in Terms!TabIds
    BY <1>2 DEF TermTypes, Terms!TabIds
  <2>2. \A i \in DOMAIN tabs : more[i] \in ToHostFrames
    BY <2>1 DEF ToHostFrames
  <2>3. DOMAIN tabs = 1..Len(tabs) /\ Len(tabs) \in Nat
    BY <1>2 DEF TermTypes
  <2> QED
    BY <2>2, <2>3
<1>4. \A y : Carries(more, y) <=> \E i \in DOMAIN tabs : y = <<"close", tabs[i]>>
  BY DEF Carries
<1> HIDE DEF more
<1>5. /\ toHost' \in Seq(ToHostFrames)
      /\ \A x : Carries(toHost', x) => Carries(toHost, x) \/ Carries(more, x)
      /\ linked # "closed" =>
           /\ \A x : Carries(toHost, x) \/ Carries(more, x) => Carries(toHost', x)
           /\ \A u : ClosesAfter(toHost, u) /\ ~Carries(more, <<"open", u>>) => ClosesAfter(toHost', u)
           /\ \A u : Carries(more, <<"close", u>>) /\ ~Carries(more, <<"open", u>>) => ClosesAfter(toHost', u)
  BY <1>1, <1>2, <1>3, SendsOn
<1>6. \A u : ~Carries(more, <<"open", u>>)
  BY <1>4
<1>7. \A u : Terms!InPane(u) => Carries(more, <<"close", u>>)
  BY <1>4 DEF Terms!InPane
<1>8. \A u : ~Terms!InPane(u)'
  BY <1>1 DEF Terms!InPane
<1>9. TermTypes'
  BY <1>1, <1>5 DEF TermInv, TermTypes
<1>10. TabsAreFresh'
  BY <1>1, <1>5, <1>6, <1>8 DEF TermInv, TabsAreFresh
<1>11. GoneAreClosed'
  BY <1>1, <1>5, <1>6, <1>7 DEF TermInv, GoneAreClosed
<1>12. TabsAreServed'
  BY <1>8 DEF TabsAreServed
<1> QED
  BY <1>9, <1>10, <1>11, <1>12 DEF TermInv

LEMMA TermTyped ==
  ASSUME TermInv, NEW t \in Terms!TabIds, Terms!Types(t)
  PROVE  TermInv'
<1> DEFINE more == <<<<"input", t>>>>
<1>1. /\ Terms!Send(more)
      /\ UNCHANGED <<tabs, exited, told, opening, listening, toView, shells, linked, tabIds, strays>>
  BY DEF Terms!Types
<1>2. TermTypes
  BY DEF TermInv
<1>3. more \in Seq(ToHostFrames)
  BY DEF ToHostFrames
<1>4. \A y : Carries(more, y) <=> y = <<"input", t>>
  BY OneFrame
<1> HIDE DEF more
<1>5. /\ toHost' \in Seq(ToHostFrames)
      /\ \A x : Carries(toHost, x) => Carries(toHost', x)
      /\ \A x : Carries(toHost', x) => Carries(toHost, x) \/ Carries(more, x)
      /\ linked # "closed" =>
           \A u : ClosesAfter(toHost, u) /\ ~Carries(more, <<"open", u>>) => ClosesAfter(toHost', u)
  BY <1>1, <1>2, <1>3, SendsOn
<1>6. \A u : ~Carries(more, <<"open", u>>)
  BY <1>4
<1>7. \A u : (Terms!InPane(u)' <=> Terms!InPane(u)) /\ (Awaited(u) => Awaited(u)') /\ (Heard(u) => Heard(u)')
  BY <1>1, <1>5 DEF Terms!InPane, Awaited, Heard
<1>8. TermTypes'
  BY <1>1, <1>5 DEF TermInv, TermTypes
<1>9. TabsAreFresh'
  BY <1>1, <1>5, <1>6, <1>7 DEF TermInv, TabsAreFresh
<1>10. GoneAreClosed'
  BY <1>1, <1>5, <1>6, <1>7 DEF TermInv, GoneAreClosed
<1>11. TabsAreServed'
  BY <1>1, <1>7 DEF TermInv, TabsAreServed
<1> QED
  BY <1>8, <1>9, <1>10, <1>11 DEF TermInv

(* The page is loaded again: what the host runs is of tabs that are no more.                 *)
LEMMA TermReloads == TermInv /\ Terms!Reload => TermInv'
<1> SUFFICES ASSUME TermInv, Terms!Reload PROVE TermInv'
  OBVIOUS
<1>1. /\ linked' = "connecting" /\ tabs' = << >> /\ opening' = {} /\ toHost' = << >> /\ toView' = << >>
      /\ strays' = 1..tabIds /\ UNCHANGED <<shells, tabIds>>
  BY DEF Terms!Reload
<1>2. (\A x : ~Carries(toHost', x)) /\ (\A u : ~Terms!InPane(u)') /\ (\A u : ClosesAfter(toHost', u))
  BY <1>1 DEF Carries, ClosesAfter, Terms!InPane
<1>3. TermTypes'
  BY <1>1 DEF TermInv, TermTypes
<1>4. TabsAreFresh'
  BY <1>1, <1>2 DEF TermInv, TabsAreFresh
<1>5. GoneAreClosed'
  <2>1. \A t \in Terms!TabIds : t \notin strays' => t > tabIds
    BY <1>1, WindowsAssumption DEF TermInv, TermTypes, Terms!TabIds
  <2>2. \A t \in Terms!TabIds : t \notin strays' => shells'[t] = "none"
    BY <1>1, <2>1 DEF TermInv, TabsAreFresh
  <2> QED
    BY <1>2, <2>2 DEF GoneAreClosed
<1>6. TabsAreServed'
  BY <1>2 DEF TabsAreServed
<1> QED
  BY <1>3, <1>4, <1>5, <1>6 DEF TermInv

(* What the host answers.                                                          *)
LEMMA Answers ==
  ASSUME TermTypes, NEW t \in Terms!TabIds, NEW kind \in {"error", "exited"}, Terms!Answer(<<kind, t>>)
  PROVE  /\ toView' \in Seq(ToViewFrames)
         /\ \A x : Carries(toView, x) => Carries(toView', x)
         /\ linked = "open" => Carries(toView', <<kind, t>>)
<1>1. toView' = IF linked = "open" THEN Append(toView, <<kind, t>>) ELSE toView
  BY DEF Terms!Answer
<1>2. toView \in Seq(ToViewFrames) /\ <<kind, t>> \in ToViewFrames
  BY DEF TermTypes, ToViewFrames
<1> DEFINE all == Append(toView, <<kind, t>>)
<1>3. /\ all \in Seq(ToViewFrames) /\ \A i \in DOMAIN toView : i \in DOMAIN all /\ all[i] = toView[i]
      /\ Len(toView) + 1 \in DOMAIN all /\ all[Len(toView) + 1] = <<kind, t>>
  <2>1. all \in Seq(ToViewFrames) /\ Len(all) = Len(toView) + 1 /\ Len(toView) \in Nat
    BY <1>2
  <2> QED
    BY <1>2, <2>1
<1> HIDE DEF all
<1>4. (\A x : Carries(toView, x) => Carries(all, x)) /\ Carries(all, <<kind, t>>)
  BY <1>3 DEF Carries
<1> QED
  BY <1>1, <1>2, <1>3, <1>4 DEF all

(* The host takes a frame.                                                         *)
LEMMA TermHostReceives == TermInv /\ Terms!HostReceives => TermInv'
<1> SUFFICES ASSUME TermInv, Terms!HostReceives PROVE TermInv'
  OBVIOUS
<1> DEFINE t == Head(toHost)[2]
           kind == Head(toHost)[1]
<1>1. /\ linked = "open" /\ toHost # << >> /\ toHost' = Tail(toHost)
      /\ \/ kind = "open" /\ Terms!HostOpens(t)
         \/ kind = "close" /\ Terms!HostCloses(t)
         \/ kind = "input" /\ Terms!HostTypes(t)
      /\ UNCHANGED <<tabs, exited, told, opening, listening, linked, tabIds, strays>>
  BY DEF Terms!HostReceives
<1>2. TermTypes /\ toHost \in Seq(ToHostFrames)
  BY DEF TermInv, TermTypes
<1>3. /\ toHost' \in Seq(ToHostFrames) /\ Head(toHost) \in ToHostFrames /\ Carries(toHost, Head(toHost))
      /\ \A x : Carries(toHost', x) => Carries(toHost, x)
      /\ \A x : Carries(toHost, x) /\ Head(toHost) # x => Carries(toHost', x)
      /\ \A u : ClosesAfter(toHost, u) => ClosesAfter(toHost', u)
      /\ \A u : ClosesAfter(toHost, u) /\ Head(toHost) = <<"open", u>> => Carries(toHost', <<"close", u>>)
  BY <1>1, <1>2, QueueShorter
<1>4. t \in Terms!TabIds /\ Head(toHost) = <<kind, t>>
  BY <1>3 DEF ToHostFrames
<1> HIDE DEF t, kind
<1>5. /\ shells \in [Terms!TabIds -> {"none", "running", "killed"}]
      /\ shells' \in [Terms!TabIds -> {"none", "running", "killed"}]
      /\ \A u \in Terms!TabIds : u # t => shells'[u] = shells[u]
      /\ \A u \in Terms!TabIds : shells[u] # "none" => shells'[u] # "none"
      /\ shells'[t] # "none" => shells[t] # "none" \/ kind = "open"
      /\ kind = "close" => shells'[t] # "running"
      /\ shells'[t] = "running" => shells[t] = "running" \/ kind = "open"
  BY <1>1, <1>2, <1>4 DEF TermTypes, Terms!HostOpens, Terms!HostCloses, Terms!HostTypes
<1>6. \/ toView' = toView /\ (kind = "open" => shells'[t] # "none")
      \/ Terms!Answer(<<"error", t>>)
  BY <1>1, <1>2, <1>4 DEF TermTypes, Terms!HostOpens, Terms!HostCloses, Terms!HostTypes
<1>7. /\ toView' \in Seq(ToViewFrames)
      /\ \A x : Carries(toView, x) => Carries(toView', x)
      /\ kind = "open" => shells'[t] # "none" \/ Carries(toView', <<"error", t>>)
  BY <1>1, <1>2, <1>4, <1>6, Answers DEF TermTypes
<1>8. \A u : Terms!InPane(u)' <=> Terms!InPane(u)
  BY <1>1 DEF Terms!InPane
<1>9. TermTypes'
  BY <1>1, <1>3, <1>5, <1>7 DEF TermInv, TermTypes
<1>10. TabsAreFresh'
  <2>1. kind = "open" => ~(t > tabIds)
    BY <1>3, <1>4 DEF TermInv, TabsAreFresh
  <2> QED
    BY <1>1, <1>3, <1>5, <1>8, <2>1 DEF TermInv, TabsAreFresh
<1>11. GoneAreClosed'
  <2> SUFFICES ASSUME NEW u \in Terms!TabIds, ~Terms!InPane(u), u \notin strays
               PROVE  ClosesAfter(toHost', u) /\ (shells'[u] = "running" => Carries(toHost', <<"close", u>>))
    BY <1>1, <1>8 DEF GoneAreClosed
  <2>1. ClosesAfter(toHost, u) /\ (shells[u] = "running" => Carries(toHost, <<"close", u>>))
    BY <1>1 DEF TermInv, GoneAreClosed
  <2>2. ClosesAfter(toHost', u)
    BY <1>3, <2>1
  <2>3. shells'[u] = "running" => Carries(toHost', <<"close", u>>)
    <3>1. CASE u # t
      <4>1. Head(toHost) # <<"close", u>>
        BY <1>4, <3>1
      <4> QED
        BY <1>3, <1>5, <2>1, <3>1, <4>1
    <3>2. CASE u = t
      <4>1. CASE kind = "open"
        BY <1>3, <1>4, <2>1, <3>2, <4>1
      <4>2. CASE kind # "open"
        <5>1. shells'[u] = "running" => shells[u] = "running" /\ kind # "close"
          BY <1>5, <3>2, <4>2
        <5>2. kind # "close" => Head(toHost) # <<"close", u>>
          BY <1>4
        <5> QED
          BY <1>3, <2>1, <5>1, <5>2
      <4> QED
        BY <4>1, <4>2
    <3> QED
      BY <3>1, <3>2
  <2> QED
    BY <2>2, <2>3
<1>12. TabsAreServed'
  <2>1. \A u : Awaited(u) => Awaited(u)'
    BY <1>1 DEF Awaited
  <2>2. ASSUME NEW u \in Terms!TabIds, Heard(u) PROVE Heard(u)'
    <3>1. CASE Carries(toHost, <<"open", u>>)
      <4>1. CASE Head(toHost) = <<"open", u>>
        <5>1. u = t /\ kind = "open"
          BY <1>4, <4>1
        <5> QED
          BY <1>1, <1>7, <2>2, <5>1 DEF Heard
      <4>2. CASE Head(toHost) # <<"open", u>>
        BY <1>1, <1>3, <2>2, <3>1, <4>2 DEF Heard
      <4> QED
        BY <4>1, <4>2
    <3>2. CASE ~Carries(toHost, <<"open", u>>)
      BY <1>1, <1>5, <1>7, <2>2, <3>2 DEF Heard
    <3> QED
      BY <3>1, <3>2
  <2> QED
    BY <1>1, <1>8, <2>1, <2>2 DEF TermInv, TabsAreServed
<1> QED
  BY <1>9, <1>10, <1>11, <1>12 DEF TermInv

LEMMA TermShellExits ==
  ASSUME TermInv, NEW t \in Terms!TabIds, Terms!ShellExits(t)
  PROVE  TermInv'
<1>1. /\ shells[t] # "none" /\ shells' = [shells EXCEPT ![t] = "none"] /\ Terms!Answer(<<"exited", t>>)
      /\ UNCHANGED <<tabs, exited, told, opening, listening, toHost, linked, tabIds, strays>>
  BY DEF Terms!ShellExits
<1>2. TermTypes
  BY DEF TermInv
<1>3. /\ toView' \in Seq(ToViewFrames)
      /\ \A x : Carries(toView, x) => Carries(toView', x)
      /\ linked = "open" => Carries(toView', <<"exited", t>>)
  BY <1>1, <1>2, Answers
<1>4. /\ shells' \in [Terms!TabIds -> {"none", "running", "killed"}] /\ shells'[t] = "none"
      /\ \A u \in Terms!TabIds : u # t => shells'[u] = shells[u]
  BY <1>1, <1>2 DEF TermTypes
<1>5. \A u : (Terms!InPane(u)' <=> Terms!InPane(u)) /\ (Awaited(u) => Awaited(u)')
  BY <1>1 DEF Terms!InPane, Awaited
<1>6. TermTypes'
  BY <1>1, <1>2, <1>3, <1>4 DEF TermTypes
<1>7. TabsAreFresh' /\ GoneAreClosed'
  BY <1>1, <1>4, <1>5 DEF TermInv, TabsAreFresh, GoneAreClosed
<1>8. TabsAreServed'
  <2>1. ASSUME linked # "closed", NEW u \in Terms!TabIds, Terms!InPane(u), Heard(u) PROVE Heard(u)'
    <3>1. CASE u = t
      <4>1. linked = "open"
        BY <1>1, <1>2, <2>1, <3>1 DEF TermInv, TermTypes, TabsAreFresh
      <4> QED
        BY <1>1, <1>3, <2>1, <3>1, <4>1 DEF Heard
    <3>2. CASE u # t
      BY <1>1, <1>3, <1>4, <2>1, <3>2 DEF Heard
    <3> QED
      BY <3>1, <3>2
  <2> QED
    BY <1>1, <1>5, <2>1 DEF TermInv, TabsAreServed
<1> QED
  BY <1>6, <1>7, <1>8 DEF TermInv

LEMMA TermViewReceives == TermInv /\ Terms!ViewReceives => TermInv'
<1> SUFFICES ASSUME TermInv, Terms!ViewReceives PROVE TermInv'
  OBVIOUS
<1> DEFINE t == Head(toView)[2]
           kind == Head(toView)[1]
<1>1. /\ toView # << >> /\ toView' = Tail(toView)
      /\ exited' = (IF kind = "exited" THEN exited \cup {u \in {t} \cap listening : Terms!InPane(u)} ELSE exited)
      /\ told' = (IF kind = "error" THEN told \cup ({t} \cap listening) ELSE told)
      /\ UNCHANGED <<tabs, opening, listening, toHost, shells, linked, tabIds, strays>>
  BY DEF Terms!ViewReceives
<1>2. toView \in Seq(ToViewFrames) /\ linked \in {"connecting", "open", "closed"}
  BY DEF TermInv, TermTypes
<1>3. /\ toView' \in Seq(ToViewFrames) /\ Head(toView) \in ToViewFrames
      /\ \A x : Carries(toView, x) /\ Head(toView) # x => Carries(toView', x)
  BY <1>1, <1>2, QueueShorter
<1>4. \A u : /\ Head(toView) = <<"exited", u>> => kind = "exited" /\ u = t
             /\ Head(toView) = <<"error", u>> => kind = "error" /\ u = t
  OBVIOUS
<1> HIDE DEF t, kind
<1>5. \A u : Awaited(u) => Awaited(u)'
  BY <1>1 DEF Awaited
<1>6. \A u : Terms!InPane(u) /\ Heard(u) => Heard(u)' \/ u \in exited' \cup told'
  <2> SUFFICES ASSUME NEW u, Terms!InPane(u), Heard(u) PROVE Heard(u)' \/ u \in exited' \cup told'
    OBVIOUS
  <2>1. CASE Head(toView) = <<"exited", u>> \/ Head(toView) = <<"error", u>>
    BY <1>1, <1>4, <2>1 DEF Heard
  <2>2. CASE Head(toView) # <<"exited", u>> /\ Head(toView) # <<"error", u>>
    BY <1>1, <1>3, <2>2 DEF Heard
  <2> QED
    BY <2>1, <2>2
<1>7. \A u : u \in exited \cup told => u \in exited' \cup told'
  BY <1>1
<1> QED
  BY <1>1, <1>2, <1>3, <1>5, <1>6, <1>7, TermStays

(* The invariant is kept by every step.                                              *)
LEMMA TermInvInductive == TermInv /\ [Terms!TermNext]_terminalVars => TermInv'
<1> SUFFICES ASSUME TermInv, [Terms!TermNext]_terminalVars PROVE TermInv'
  OBVIOUS
<1>1. CASE UNCHANGED terminalVars
  <2>1. UNCHANGED <<tabs, exited, told, opening, listening, toHost, toView, shells, linked, tabIds, strays>>
    BY <1>1 DEF terminalVars
  <2>2. \A u : (Awaited(u) => Awaited(u)') /\ (Heard(u) => Heard(u)')
    BY <2>1 DEF Awaited, Heard
  <2>3. toView' \in Seq(ToViewFrames) /\ linked' \in {"connecting", "open", "closed"}
    BY <2>1 DEF TermInv, TermTypes
  <2> QED
    BY <2>1, <2>2, <2>3, TermStays
<1>2. CASE Terms!TermNext
  BY <1>2, TermOpens, TermQuiet, TermDisposes, TermReloads, TermCwdResolves, TermCwdFails, TermClosesTab, TermTyped,
     TermShellExits, TermHostReceives, TermViewReceives DEF Terms!TermNext
<1> QED
  BY <1>1, <1>2

-----------------------------------------------------------------------------
(***************************************************************************)
(* The notices: the log, the two taps, the notifications and the toasts.               *)
(***************************************************************************)

Runners == Nat \X {"root", "kid"}
Statuses == {"completed", "errored", "interrupted"}
Events == [type : {"started", "finished"}, runner : Runners, parent : Runners \cup {None},
           status : Statuses \cup {None}]
Notes == [session : Sessions, runner : Runners, status : Statuses \cup {None}, how : {"live", "replay"}]
ToastSet == [tone : {"error", "info"}, message : Nat, of : Sessions \cup {None}]
IsRoot(r) == r \in Runners /\ r[2] = "root"

(* The end of a runner is in the log of a session.                                     *)
RootEnded(lg, s) == \E k \in DOMAIN lg[s] : lg[s][k].type = "finished" /\ lg[s][k].runner[2] = "root"

(* Toasts that are few, different, and true by the log.                                  *)
StackSound(stack, lg) ==
  /\ stack \in Seq(ToastSet) /\ Len(stack) <= MaxToasts
  /\ \A i, j \in DOMAIN stack : i # j => stack[i].tone # stack[j].tone \/ stack[i].message # stack[j].message
  /\ \A i \in DOMAIN stack : stack[i].of # None => RootEnded(lg, stack[i].of)

(* Notifications of the first root of a session alone, once it is over.                     *)
NotesSound(notes, rn) ==
  \A n \in notes : n \in Notes /\ n.runner = Notices!Root(1) /\ n.status # "interrupted"
                   /\ n.runner \notin rn[n.session]

(* What a tap holds, by a log and the runners that go on.                                *)
TapSound(st, lg, rn) ==
  /\ st.process \in {None, Notices!Root(1)}
  /\ st.window # None => IsRoot(st.window)
  /\ NotesSound(st.native, rn) /\ StackSound(st.toasts, lg) /\ st.shoved = FALSE /\ st.retold = FALSE

(* An event of a log.                                                           *)
EventFits(e, s, lg, rn) ==
  /\ e \in Events
  /\ e.type = "started" /\ e.parent = None => IsRoot(e.runner)
  /\ e.type = "finished" => e.runner \notin rn[s] /\ \E k \in DOMAIN lg[s] : lg[s][k] = e

(* A toast joins the stack.                                                        *)
LEMMA ToastShown ==
  ASSUME NEW stack, NEW lg, StackSound(stack, lg), NEW t \in ToastSet, t.of # None => RootEnded(lg, t.of)
  PROVE  StackSound(Notices!Shown(stack, t), lg) /\ ~Notices!Shoves(stack, t)
<1> DEFINE next == Notices!Shown(stack, t)
           longer == Append(stack, t)
<1>1. stack \in Seq(ToastSet) /\ Len(stack) <= MaxToasts /\ Len(stack) \in Nat /\ MaxToasts \in Nat
  BY WindowsAssumption DEF StackSound
<1>2. /\ longer \in Seq(ToastSet) /\ Len(longer) = Len(stack) + 1 /\ longer[Len(stack) + 1] = t
      /\ \A i \in DOMAIN stack : i \in DOMAIN longer /\ longer[i] = stack[i]
      /\ \A i \in DOMAIN longer : i = Len(stack) + 1 \/ i \in DOMAIN stack
      /\ DOMAIN longer = 1..(Len(stack) + 1)
  BY <1>1
<1>3. Notices!Shoves(stack, t) <=>
        /\ \E u \in Notices!ToSet(stack) \ Notices!ToSet(next) : Notices!Sticky(u)
        /\ \E u \in Notices!ToSet(longer) : ~Notices!Sticky(u)
  BY DEF Notices!Shoves
<1>4. CASE \E i \in DOMAIN stack : stack[i].tone = t.tone /\ stack[i].message = t.message
  <2>1. next = stack
    BY <1>4 DEF Notices!Shown
  <2> QED
    BY <1>3, <2>1
<1>5. CASE ~ \E i \in DOMAIN stack : stack[i].tone = t.tone /\ stack[i].message = t.message
  <2>1. next = Notices!Trimmed(longer)
    BY <1>5 DEF Notices!Shown
  <2> HIDE DEF next, longer
  <2>2. \A i, j \in DOMAIN longer : i # j => longer[i].tone # longer[j].tone \/ longer[i].message # longer[j].message
    BY <1>2, <1>5 DEF StackSound
  <2>3. \A i \in DOMAIN longer : longer[i].of # None => RootEnded(lg, longer[i].of)
    BY <1>2 DEF StackSound
  <2>4. CASE Len(longer) <= MaxToasts
    <3>1. next = longer
      BY <2>1, <2>4 DEF Notices!Trimmed
    <3>2. Notices!ToSet(stack) \subseteq Notices!ToSet(next)
      BY <1>2, <3>1 DEF Notices!ToSet
    <3> QED
      BY <1>2, <1>3, <2>2, <2>3, <2>4, <3>1, <3>2 DEF StackSound, next
  <2>5. CASE ~(Len(longer) <= MaxToasts)
    <3> DEFINE passing == {i \in DOMAIN longer : ~Notices!Sticky(longer[i])}
               place == IF passing = {} THEN 1 ELSE CHOOSE i \in passing : \A j \in passing : i <= j
    <3>1. next = Notices!RemoveAt(longer, place)
      BY <2>1, <2>5 DEF Notices!Trimmed
    <3>2. place \in DOMAIN longer /\ (passing # {} => place \in passing)
      <4>1. CASE passing = {}
        BY <1>1, <1>2, <4>1
      <4>2. CASE passing # {}
        <5>1. passing \subseteq Nat
          BY <1>2
        <5>2. \E i \in passing : \A j \in passing : i <= j
          <6> HIDE DEF passing
          <6> QED
            BY <4>2, <5>1, HasLeast
        <5> QED
          BY <4>2, <5>2
      <4> QED
        BY <4>1, <4>2
    <3>3. passing # {} => ~Notices!Sticky(longer[place])
      BY <3>2
    <3>4. passing = {} => \A i \in DOMAIN longer : Notices!Sticky(longer[i])
      OBVIOUS
    <3> HIDE DEF place, passing
    <3>5. /\ next \in Seq(ToastSet) /\ Len(next) = Len(longer) - 1
          /\ \A k \in DOMAIN next : next[k] = IF k < place THEN longer[k] ELSE longer[k + 1]
      BY <1>2, <3>1, <3>2, OneRemoved DEF Notices!RemoveAt
    <3>6. DOMAIN next = 1..Len(stack)
      BY <1>1, <1>2, <3>5
    <3> DEFINE From(k) == IF k < place THEN k ELSE k + 1
    <3>7. \A k \in DOMAIN next : From(k) \in DOMAIN longer /\ next[k] = longer[From(k)]
      BY <1>1, <1>2, <3>2, <3>5, <3>6
    <3>8. \A k, l \in DOMAIN next : From(k) = From(l) => k = l
      BY <1>1, <1>2, <3>2, <3>6
    <3>9. \A i \in DOMAIN longer : i # place => \E k \in DOMAIN next : From(k) = i
      <4> SUFFICES ASSUME NEW i \in DOMAIN longer, i # place PROVE \E k \in DOMAIN next : From(k) = i
        OBVIOUS
      <4>1. CASE i < place
        BY <1>1, <1>2, <3>2, <3>6, <4>1
      <4>2. CASE ~(i < place)
        <5>1. i - 1 \in DOMAIN next /\ ~(i - 1 < place) /\ (i - 1) + 1 = i
          BY <1>1, <1>2, <3>2, <3>6, <4>2
        <5> QED
          BY <5>1
      <4> QED
        BY <4>1, <4>2
    <3> HIDE DEF From
    <3>10. StackSound(next, lg)
      <4>1. Len(next) <= MaxToasts
        BY <1>1, <1>2, <3>5
      <4>2. \A i, j \in DOMAIN next : i # j => next[i].tone # next[j].tone \/ next[i].message # next[j].message
        BY <2>2, <3>7, <3>8
      <4>3. \A i \in DOMAIN next : next[i].of # None => RootEnded(lg, next[i].of)
        BY <2>3, <3>7
      <4> QED
        BY <3>5, <4>1, <4>2, <4>3 DEF StackSound
    <3>11. ~Notices!Shoves(stack, t)
      <4>1. CASE passing = {}
        BY <1>3, <3>4, <4>1 DEF Notices!ToSet
      <4>2. CASE passing # {}
        <5>1. \A i \in DOMAIN stack : Notices!Sticky(stack[i]) => \E k \in DOMAIN next : next[k] = stack[i]
          <6> SUFFICES ASSUME NEW i \in DOMAIN stack, Notices!Sticky(stack[i])
                       PROVE  \E k \in DOMAIN next : next[k] = stack[i]
            OBVIOUS
          <6>1. i \in DOMAIN longer /\ longer[i] = stack[i] /\ i # place
            BY <1>2, <3>3, <4>2
          <6> QED
            BY <3>7, <3>9, <6>1
        <5> QED
          BY <1>3, <5>1 DEF Notices!ToSet
      <4> QED
        BY <4>1, <4>2
    <3> QED
      BY <3>10, <3>11 DEF next
  <2> QED
    BY <2>4, <2>5
<1> QED
  BY <1>4, <1>5

(* A root is not None.                                                            *)
LEMMA RootsAreSome ==
  /\ None \notin Nat \X {"root"} /\ None \notin Nat
  /\ \A n \in Nat : Notices!Root(n) \in Runners /\ IsRoot(Notices!Root(n)) /\ Notices!Root(n) # None
                    /\ Notices!Kid(n) \in Runners
  /\ \A m, n : Notices!Root(m) # Notices!Kid(n) /\ (Notices!Root(m) = Notices!Root(n) => m = n)
               /\ (Notices!Kid(m) = Notices!Kid(n) => m = n)
<1>1. None \notin Nat \X {"root"} /\ None \notin Nat
  BY WindowsAssumption, DesktopAssumption
<1>2. \A n \in Nat : Notices!Root(n) \in Nat \X {"root"}
  BY DEF Notices!Root
<1>3. \A n \in Nat : Notices!Root(n) # None
  BY <1>1, <1>2
<1> QED
  BY <1>1, <1>3 DEF Notices!Root, Notices!Kid, IsRoot, Runners

(* What a frame does to the taps.                                                   *)
LEMMA TapKeeps ==
  ASSUME NEW lg, NEW rn, NEW st, TapSound(st, lg, rn), NEW s \in Sessions, NEW e, EventFits(e, s, lg, rn),
         e.type = "started" /\ e.parent = None /\ st.process = None => e.runner = Notices!Root(1),
         NEW how \in {"live", "replay"},
         how = "live" /\ e.type = "finished" => ~Notices!ToldLive(st.native, s, e)
  PROVE  LET next == Notices!Tap(st, s, e, how) IN
           /\ TapSound(next, lg, rn)
           /\ st.process # None => next.process = st.process
           /\ e.type = "started" /\ e.parent = None => next.process = Notices!Root(1)
           /\ e.type = "started" => next.native = st.native
           /\ st.native \subseteq next.native
           /\ \A n \in next.native : n \in st.native \/ (n = Notices!Note(s, e, how) /\ ~focusedFlag)
           /\ st.process # None /\ e.type = "finished" /\ e.runner = st.process /\ e.status # "interrupted" /\ ~focusedFlag
                => Notices!Note(s, e, how) \in next.native
<1> DEFINE host == Notices!Tracks(st.process, e)
           shownTo == Notices!Tracks(st.window, e)
           toast == connection /\ Notices!IsNews(shownTo, e) /\ viewing # s
           note == Notices!Note(s, e, how)
           card == Notices!RunToast(s, e)
           next == Notices!Tap(st, s, e, how)
<1> SUFFICES /\ TapSound(next, lg, rn)
             /\ st.process # None => next.process = st.process
             /\ e.type = "started" /\ e.parent = None => next.process = Notices!Root(1)
             /\ e.type = "started" => next.native = st.native
             /\ st.native \subseteq next.native
             /\ \A n \in next.native : n \in st.native \/ (n = note /\ ~focusedFlag)
             /\ st.process # None /\ e.type = "finished" /\ e.runner = st.process /\ e.status # "interrupted"
                  /\ ~focusedFlag => note \in next.native
  OBVIOUS
<1>1. /\ next.process = host /\ next.window = (IF connection THEN shownTo ELSE st.window)
      /\ next.native = (IF Notices!IsNews(host, e) /\ ~focusedFlag THEN st.native \cup {note} ELSE st.native)
      /\ next.toasts = (IF toast THEN Notices!Shown(st.toasts, card) ELSE st.toasts)
      /\ next.shoved = (st.shoved \/ (toast /\ Notices!Shoves(st.toasts, card)))
      /\ next.retold = (st.retold \/ (/\ Notices!IsNews(host, e) /\ ~focusedFlag
                                      /\ how = "live" /\ Notices!ToldLive(st.native, s, e)))
  BY DEF Notices!Tap
<1>2. e \in Events /\ (e.type = "finished" => e.runner \notin rn[s])
  BY DEF EventFits
<1>3. host \in {None, Notices!Root(1)} /\ (st.process # None => host = st.process)
      /\ (e.type = "started" /\ e.parent = None => host = Notices!Root(1))
  BY DEF Notices!Tracks, TapSound
<1>4. shownTo # None => IsRoot(shownTo)
  BY DEF Notices!Tracks, TapSound, EventFits
<1>5. \A r : Notices!IsNews(r, e) <=>
        e.type = "finished" /\ r # None /\ e.runner = r /\ e.status # "interrupted"
  BY DEF Notices!IsNews, Notices!EndsSession
<1>6. note = [session |-> s, runner |-> e.runner, status |-> e.status, how |-> how]
  BY DEF Notices!Note
<1>7. card = [tone |-> IF e.status = "errored" THEN "error" ELSE "info", message |-> 0, of |-> s]
  BY DEF Notices!RunToast
<1> HIDE DEF host, shownTo, note, card, next
<1>8. Notices!IsNews(host, e) => note \in Notes /\ note.runner = Notices!Root(1) /\ note.status # "interrupted"
                                 /\ note.runner \notin rn[note.session]
  <2>1. note.session = s /\ note.runner = e.runner /\ note.status = e.status
    BY <1>6
  <2>2. note \in Notes
    BY <1>2, <1>6 DEF Notes, Events
  <2> QED
    BY <1>2, <1>3, <1>5, <2>1, <2>2
<1>9. NotesSound(next.native, rn)
  BY <1>1, <1>8 DEF TapSound, NotesSound
<1>10. toast => card \in ToastSet /\ card.of = s /\ RootEnded(lg, s)
  <2>1. card \in ToastSet /\ card.of = s
    BY <1>7 DEF ToastSet
  <2>2. Notices!IsNews(shownTo, e) => RootEnded(lg, s)
    BY <1>4, <1>5 DEF EventFits, RootEnded, IsRoot
  <2> QED
    BY <2>1, <2>2
<1>11. StackSound(next.toasts, lg) /\ next.shoved = FALSE
  <2>1. CASE toast
    <3>1. StackSound(Notices!Shown(st.toasts, card), lg) /\ ~Notices!Shoves(st.toasts, card)
      BY <1>10, <2>1, ToastShown DEF TapSound
    <3> QED
      BY <1>1, <2>1, <3>1 DEF TapSound
  <2>2. CASE ~toast
    BY <1>1, <2>2 DEF TapSound
  <2> QED
    BY <2>1, <2>2
<1>12. next.retold = FALSE
  BY <1>1, <1>5 DEF TapSound
<1>13. TapSound(next, lg, rn)
  BY <1>1, <1>3, <1>4, <1>9, <1>11, <1>12 DEF TapSound
<1> QED
  BY <1>1, <1>3, <1>5, <1>13

(* The states of the taps over the first n events of a replay.                            *)
IsSeen(f, s, n) ==
  f = [i \in 0..n |-> IF i = 0 THEN Notices!Now(s) ELSE Notices!Tap(f[i - 1], s, log[s][i], "replay")]

LEMMA SeenExtends ==
  ASSUME NEW s, NEW n \in Nat, NEW f, IsSeen(f, s, n)
  PROVE  \E g : IsSeen(g, s, n + 1)
<1> DEFINE g == [i \in 0..(n + 1) |-> IF i = n + 1 THEN Notices!Tap(f[n], s, log[s][n + 1], "replay") ELSE f[i]]
<1>1. ASSUME NEW i \in 0..(n + 1)
      PROVE  g[i] = IF i = 0 THEN Notices!Now(s) ELSE Notices!Tap(g[i - 1], s, log[s][i], "replay")
  <2>1. CASE i = n + 1
    <3>1. i - 1 = n /\ n \in 0..(n + 1) /\ n # n + 1 /\ i # 0
      BY <2>1
    <3>2. g[n] = f[n]
      BY <3>1
    <3>3. g[i] = Notices!Tap(f[n], s, log[s][n + 1], "replay")
      BY <2>1
    <3> HIDE DEF g
    <3> QED
      BY <2>1, <3>1, <3>2, <3>3
  <2>2. CASE i # n + 1
    <3>1. i \in 0..n /\ g[i] = f[i]
      BY <2>2
    <3>2. f[i] = IF i = 0 THEN Notices!Now(s) ELSE Notices!Tap(f[i - 1], s, log[s][i], "replay")
      BY <3>1 DEF IsSeen
    <3>3. i # 0 => i - 1 \in 0..(n + 1) /\ i - 1 # n + 1
      BY <3>1
    <3>4. i # 0 => g[i - 1] = f[i - 1]
      BY <3>3
    <3> HIDE DEF g
    <3> QED
      BY <3>1, <3>2, <3>4
  <2> QED
    BY <2>1, <2>2
<1>2. g = [i \in 0..(n + 1) |-> g[i]]
  OBVIOUS
<1> HIDE DEF g
<1>3. IsSeen(g, s, n + 1)
  BY <1>1, <1>2, Zenon DEF IsSeen
<1> QED
  BY <1>3

LEMMA SeenExists ==
  ASSUME NEW s, NEW n \in Nat
  PROVE  \E f : IsSeen(f, s, n)
<1> DEFINE Lacks == {k \in Nat : ~ \E f : IsSeen(f, s, k)}
<1>1. 0 \notin Lacks
  <2> DEFINE f == [i \in 0..0 |-> Notices!Now(s)]
  <2>1. \A i \in 0..0 : i = 0
    OBVIOUS
  <2>2. f = [i \in 0..0 |-> IF i = 0 THEN Notices!Now(s) ELSE Notices!Tap(f[i - 1], s, log[s][i], "replay")]
    BY <2>1
  <2> HIDE DEF f
  <2> QED
    BY <2>2 DEF IsSeen
<1>2. \A k \in Lacks : \E m \in Lacks : m < k
  <2> SUFFICES ASSUME NEW k \in Lacks PROVE \E m \in Lacks : m < k
    OBVIOUS
  <2>1. k \in Nat /\ k # 0 /\ k - 1 \in Nat /\ (k - 1) + 1 = k
    BY <1>1
  <2>2. ~ \E f : IsSeen(f, s, (k - 1) + 1)
    BY <2>1
  <2>3. ~ \E f : IsSeen(f, s, k - 1)
    BY <2>1, <2>2, SeenExtends
  <2>4. k - 1 \in Lacks
    BY <2>1, <2>3
  <2> QED
    BY <2>1, <2>4
<1>3. Lacks = {}
  <2>1. Lacks \subseteq Nat
    OBVIOUS
  <2> HIDE DEF Lacks
  <2> QED
    BY <1>2, <2>1, NoLeast
<1> QED
  BY <1>3

(* A replay is a run of the taps over the log.                                        *)
LEMMA ReplayedIsSeen ==
  ASSUME NEW s, Len(log[s]) \in Nat
  PROVE  \E f : IsSeen(f, s, Len(log[s])) /\ Notices!Replayed(s) = f[Len(log[s])]
<1> DEFINE f == CHOOSE g : IsSeen(g, s, Len(log[s]))
<1>1. IsSeen(f, s, Len(log[s]))
  BY SeenExists
<1>2. Notices!Replayed(s) = f[Len(log[s])]
  BY Zenon DEF Notices!Replayed, IsSeen
<1> QED
  BY <1>1, <1>2

NoticeTypes ==
  /\ log \in [Sessions -> Seq(Events)] /\ episode \in [Sessions -> Nat] /\ DOMAIN running = Sessions
  /\ \A s \in Sessions : /\ running[s] \subseteq {Notices!Root(episode[s]), Notices!Kid(episode[s])}
                         /\ running[s] # {} => episode[s] # 0
  /\ DOMAIN rootsSeen = Notices!Taps
  /\ DOMAIN rootsSeen["process"] = Sessions /\ DOMAIN rootsSeen["window"] = Sessions
  /\ others \in Nat

(* A log tells of roots and sub-agents of the runs there were, and none that it says is over   *)
(* goes on.                                                                       *)
LogsFit ==
  \A s \in Sessions : \A i \in DOMAIN log[s] :
    /\ EventFits(log[s][i], s, log, running)
    /\ log[s][i].type = "finished" =>
         \E k \in 1..episode[s] : log[s][i].runner \in {Notices!Root(k), Notices!Kid(k)}
    /\ episode[s] # 0

(* The process knows the first root of every session that ran.                               *)
TapsKnow ==
  /\ \A s \in Sessions : rootsSeen["process"][s] = IF episode[s] = 0 THEN None ELSE Notices!Root(1)
  /\ \A s \in Sessions : rootsSeen["window"][s] # None => IsRoot(rootsSeen["window"][s])

NotesFollow ==
  /\ NotesSound(native, running)
  /\ \A n \in native : episode[n.session] # 0
  /\ \A o \in owedNotes : o[2] = Notices!Root(1) =>
       \E n \in native : n.session = o[1] /\ n.runner = o[2] /\ n.how = "live"
  /\ \A n \in native : n.how = "live" => <<n.session, n.runner>> \in owedNotes

NoticeInv ==
  /\ NoticeTypes /\ LogsFit /\ TapsKnow /\ NotesFollow
  /\ StackSound(toasts, log) /\ shoved = FALSE /\ retold = FALSE

LEMMA NoticeInvSound == NoticeInv => Notices!NoticesAreSound
<1> SUFFICES ASSUME NoticeInv PROVE Notices!NoticesAreSound
  OBVIOUS
<1>1. Notices!EndsAreTold
  <2>1. Notices!Root(1)[2] = "root"
    BY DEF Notices!Root
  <2> QED
    BY <2>1 DEF NoticeInv, NotesFollow, NotesSound, Notices!EndsAreTold
<1>2. Notices!ToastsKept
  BY DEF NoticeInv, StackSound, RootEnded, Notices!ToastsKept
<1> QED
  BY <1>1, <1>2 DEF Notices!NoticesAreSound

LEMMA NoticeInvInit == Notices!NoticesInit => NoticeInv
<1> SUFFICES ASSUME Notices!NoticesInit PROVE NoticeInv
  OBVIOUS
<1>1. /\ log = [s \in Sessions |-> << >>] /\ episode = [s \in Sessions |-> 0] /\ running = [s \in Sessions |-> {}]
      /\ rootsSeen = [t \in Notices!Taps |-> [s \in Sessions |-> None]]
      /\ toasts = << >> /\ native = {} /\ retold = FALSE /\ owedNotes = {} /\ shoved = FALSE /\ others = 0
  BY DEF Notices!NoticesInit
<1>2. NoticeTypes /\ TapsKnow
  BY <1>1 DEF NoticeTypes, TapsKnow, Notices!Taps
<1>3. LogsFit
  BY <1>1 DEF LogsFit
<1>4. StackSound(toasts, log)
  BY <1>1, WindowsAssumption DEF StackSound
<1> QED
  BY <1>1, <1>2, <1>3, <1>4 DEF NoticeInv, NotesFollow, NotesSound

(* What the taps hold now.                                                         *)
LEMMA NowIsSound ==
  ASSUME NoticeInv, NEW s \in Sessions, NEW lg, NEW rn, NotesSound(native, rn), StackSound(toasts, lg)
  PROVE  TapSound(Notices!Now(s), lg, rn)
<1> DEFINE st == Notices!Now(s)
<1>1. /\ st.process = rootsSeen["process"][s] /\ st.window = rootsSeen["window"][s] /\ st.native = native
      /\ st.toasts = toasts /\ st.shoved = shoved /\ st.retold = retold
  BY DEF Notices!Now
<1> HIDE DEF st
<1>2. TapSound(st, lg, rn)
  BY <1>1 DEF NoticeInv, TapsKnow, TapSound
<1> QED
  BY <1>2 DEF st

(* Where the taps are left.                                                        *)
LEMMA LeftAt ==
  ASSUME NoticeInv, NEW s \in Sessions, NEW st, Notices!Leaves(s, st)
  PROVE  /\ DOMAIN rootsSeen' = Notices!Taps
         /\ DOMAIN rootsSeen'["process"] = Sessions /\ DOMAIN rootsSeen'["window"] = Sessions
         /\ rootsSeen'["process"][s] = st.process /\ rootsSeen'["window"][s] = st.window
         /\ \A u \in Sessions : u # s => /\ rootsSeen'["process"][u] = rootsSeen["process"][u]
                                         /\ rootsSeen'["window"][u] = rootsSeen["window"][u]
         /\ native' = st.native /\ toasts' = st.toasts /\ shoved' = st.shoved /\ retold' = st.retold
<1> DEFINE p == [rootsSeen["process"] EXCEPT ![s] = st.process]
           w == [rootsSeen["window"] EXCEPT ![s] = st.window]
<1>1. rootsSeen' = [process |-> p, window |-> w] /\ native' = st.native /\ toasts' = st.toasts /\ shoved' = st.shoved
      /\ retold' = st.retold
  BY DEF Notices!Leaves
<1>2. /\ DOMAIN p = Sessions /\ p[s] = st.process /\ \A u \in Sessions : u # s => p[u] = rootsSeen["process"][u]
      /\ DOMAIN w = Sessions /\ w[s] = st.window /\ \A u \in Sessions : u # s => w[u] = rootsSeen["window"][u]
  BY DEF NoticeInv, NoticeTypes
<1> HIDE DEF p, w
<1>3. DOMAIN rootsSeen' = {"process", "window"} /\ rootsSeen'["process"] = p /\ rootsSeen'["window"] = w
  BY <1>1
<1> QED
  BY <1>1, <1>2, <1>3 DEF Notices!Taps

(* A live event: the log is longer, and both taps hear of it.                                *)
LEMMA NoticeEmits ==
  ASSUME NoticeInv, NEW s \in Sessions, NEW e \in Events, Notices!Emits(s, e),
         DOMAIN running' = Sessions, episode' \in [Sessions -> Nat], episode'[s] # 0,
         \A u \in Sessions : u # s => running'[u] = running[u] /\ episode'[u] = episode[u],
         \A u \in Sessions : running'[u] \subseteq {Notices!Root(episode[u]), Notices!Kid(episode[u])}'
                             /\ (running'[u] # {} => episode'[u] # 0),
         episode[s] <= episode'[s],
         NotesSound(native, running'),
         \A i \in DOMAIN log[s] : log[s][i].type = "finished" => log[s][i].runner \notin running'[s],
         e.type = "started" => (e.parent = None => IsRoot(e.runner)),
         e.type = "finished" => e.runner \in running[s],
         e.type = "finished" => e.runner \notin running'[s]
                                /\ \E k \in 1..episode'[s] : e.runner \in {Notices!Root(k), Notices!Kid(k)},
         episode[s] = 0 => e.type = "started" /\ e.parent = None /\ e.runner = Notices!Root(1),
         \A o \in owedNotes' : o \in owedNotes \/ (o = <<s, e.runner>> /\ e.type = "finished" /\ ~focusedFlag
                                                   /\ e.status # "interrupted"),
         owedNotes \subseteq owedNotes',
         e.type = "finished" /\ ~focusedFlag /\ e.status # "interrupted" /\ e.runner = Notices!Root(1)
           => <<s, e.runner>> \in owedNotes'
  PROVE  NoticeInv'
<1> DEFINE st == Notices!Tap(Notices!Now(s), s, e, "live")
<1>1. /\ log' = [log EXCEPT ![s] = Append(@, e)] /\ Notices!Leaves(s, st)
      /\ UNCHANGED <<focusedFlag, viewing, connection, replays, others>>
  BY DEF Notices!Emits
<1>2. log \in [Sessions -> Seq(Events)] /\ episode \in [Sessions -> Nat]
  BY DEF NoticeInv, NoticeTypes
<1>3. /\ log' \in [Sessions -> Seq(Events)] /\ log'[s] = Append(log[s], e)
      /\ \A u \in Sessions : u # s => log'[u] = log[u]
  BY <1>1, <1>2
<1>4. /\ \A i \in DOMAIN log[s] : i \in DOMAIN log'[s] /\ log'[s][i] = log[s][i]
      /\ \A i \in DOMAIN log'[s] : i \in DOMAIN log[s] \/ log'[s][i] = e
      /\ \E i \in DOMAIN log'[s] : log'[s][i] = e
  <2>1. log[s] \in Seq(Events)
    BY <1>2
  <2> DEFINE q == log[s]
             r == Append(q, e)
  <2>2. /\ \A i \in DOMAIN q : i \in DOMAIN r /\ r[i] = q[i]
        /\ \A i \in DOMAIN r : i \in DOMAIN q \/ r[i] = e
        /\ Len(q) + 1 \in DOMAIN r /\ r[Len(q) + 1] = e
    <3> HIDE DEF q
    <3>1. q \in Seq(Events)
      BY <2>1 DEF q
    <3> QED
      BY <3>1
  <2> QED
    BY <1>3, <2>2
<1>5. \A u \in Sessions : RootEnded(log, u) => RootEnded(log', u)
  <2> SUFFICES ASSUME NEW u \in Sessions, RootEnded(log, u) PROVE RootEnded(log', u)
    OBVIOUS
  <2>1. CASE u = s
    <3>1. PICK k \in DOMAIN log[s] : log[s][k].type = "finished" /\ log[s][k].runner[2] = "root"
      BY <2>1 DEF RootEnded
    <3>2. k \in DOMAIN log'[s] /\ log'[s][k] = log[s][k]
      BY <1>4
    <3>3. log'[s][k].type = "finished" /\ log'[s][k].runner[2] = "root"
      BY <3>1, <3>2
    <3> QED
      BY <2>1, <3>2, <3>3 DEF RootEnded
  <2>2. CASE u # s
    BY <1>3, <2>2 DEF RootEnded
  <2> QED
    BY <2>1, <2>2
<1>6. StackSound(toasts, log')
  <2>1. \A i \in DOMAIN toasts : toasts[i].of # None => toasts[i].of \in Sessions
    <3>1. \A i \in DOMAIN toasts : toasts[i] \in ToastSet
      BY DEF NoticeInv, StackSound
    <3> QED
      BY <3>1 DEF ToastSet
  <2> QED
    BY <1>5, <2>1 DEF NoticeInv, StackSound
<1>7. TapSound(Notices!Now(s), log', running')
  BY <1>6, NowIsSound
<1>8. EventFits(e, s, log', running')
  BY <1>4 DEF EventFits
<1>9. Notices!Now(s).process = (IF episode[s] = 0 THEN None ELSE Notices!Root(1)) /\ Notices!Now(s).native = native
  BY DEF NoticeInv, TapsKnow, Notices!Now
<1>10. Notices!Root(1) # None
  BY RootsAreSome
<1>11. /\ TapSound(st, log', running')
       /\ Notices!Now(s).process # None => st.process = Notices!Now(s).process
       /\ e.type = "started" /\ e.parent = None => st.process = Notices!Root(1)
       /\ native \subseteq st.native
       /\ e.type = "started" => st.native = native
       /\ \A n \in st.native : n \in native \/ (n = Notices!Note(s, e, "live") /\ ~focusedFlag)
       /\ Notices!Now(s).process # None /\ e.type = "finished" /\ e.runner = Notices!Now(s).process
            /\ e.status # "interrupted" /\ ~focusedFlag => Notices!Note(s, e, "live") \in st.native
  <2>1. e.type = "started" /\ e.parent = None /\ Notices!Now(s).process = None => e.runner = Notices!Root(1)
    BY <1>9, <1>10
  <2>2. e.type = "finished" => ~Notices!ToldLive(Notices!Now(s).native, s, e)
    BY <1>9 DEF NoticeInv, NotesFollow, NotesSound, Notices!ToldLive
  <2> QED
    BY <1>7, <1>8, <1>9, <2>1, <2>2, TapKeeps
<1>12. st.process = Notices!Root(1)
  BY <1>9, <1>10, <1>11
<1> HIDE DEF st
<1>13. /\ DOMAIN rootsSeen' = Notices!Taps
       /\ DOMAIN rootsSeen'["process"] = Sessions /\ DOMAIN rootsSeen'["window"] = Sessions
       /\ rootsSeen'["process"][s] = st.process /\ rootsSeen'["window"][s] = st.window
       /\ \A u \in Sessions : u # s => /\ rootsSeen'["process"][u] = rootsSeen["process"][u]
                                       /\ rootsSeen'["window"][u] = rootsSeen["window"][u]
       /\ native' = st.native /\ toasts' = st.toasts /\ shoved' = st.shoved /\ retold' = st.retold
  BY <1>1, LeftAt
<1>14. NoticeTypes'
  BY <1>1, <1>3, <1>13 DEF NoticeInv, NoticeTypes
<1>15. TapsKnow'
  BY <1>11, <1>12, <1>13 DEF NoticeInv, TapsKnow, TapSound
<1>16. StackSound(toasts', log') /\ shoved' = FALSE /\ retold' = FALSE
  BY <1>11, <1>13 DEF TapSound
<1>17. LogsFit'
  <2> SUFFICES ASSUME NEW u \in Sessions, NEW i \in DOMAIN log'[u]
               PROVE  /\ EventFits(log'[u][i], u, log', running')
                      /\ log'[u][i].type = "finished" =>
                           \E k \in 1..episode'[u] : log'[u][i].runner \in {Notices!Root(k), Notices!Kid(k)}
                      /\ episode'[u] # 0
    BY DEF LogsFit, Notices!Root, Notices!Kid
  <2>1. CASE u # s
    <3>1. log'[u] = log[u] /\ running'[u] = running[u] /\ episode'[u] = episode[u] /\ i \in DOMAIN log[u]
      BY <1>3, <2>1
    <3>2. /\ EventFits(log[u][i], u, log, running) /\ episode[u] # 0
          /\ log[u][i].type = "finished" =>
               \E k \in 1..episode[u] : log[u][i].runner \in {Notices!Root(k), Notices!Kid(k)}
      BY <3>1 DEF NoticeInv, LogsFit
    <3>3. EventFits(log[u][i], u, log', running')
      BY <3>1, <3>2 DEF EventFits
    <3> QED
      BY <3>1, <3>2, <3>3
  <2>2. CASE u = s /\ log'[u][i] = e
    BY <1>8, <2>2
  <2>3. CASE u = s /\ i \in DOMAIN log[s]
    <3>1. /\ EventFits(log[s][i], s, log, running)
          /\ log[s][i].type = "finished" =>
               \E k \in 1..episode[s] : log[s][i].runner \in {Notices!Root(k), Notices!Kid(k)}
      BY <2>3 DEF NoticeInv, LogsFit
    <3>2. log'[u][i] = log[s][i]
      BY <1>4, <2>3
    <3>3. EventFits(log[s][i], s, log', running')
      BY <1>4, <2>3, <3>1, <3>2 DEF EventFits
    <3>4. 1..episode[s] \subseteq 1..episode'[s]
      BY <1>2
    <3> QED
      BY <2>3, <3>1, <3>2, <3>3, <3>4
  <2> QED
    BY <1>4, <2>1, <2>2, <2>3
<1>18. NotesFollow'
  <2>1. NotesSound(native', running')
    BY <1>11, <1>13 DEF TapSound
  <2> DEFINE note == Notices!Note(s, e, "live")
  <2>2. note.session = s /\ note.runner = e.runner /\ note.how = "live" /\ note.status = e.status
    BY DEF Notices!Note
  <2> HIDE DEF note
  <2>3. \A n \in native' : n \in native \/ (n = note /\ ~focusedFlag /\ e.type = "finished")
    BY <1>11, <1>13 DEF note, Events
  <2>4. \A n \in native' : episode'[n.session] # 0
    <3>1. \A n \in native : n.session \in Sessions /\ episode[n.session] # 0
      BY DEF NoticeInv, NotesFollow, NotesSound, Notes
    <3> QED
      BY <2>2, <2>3, <3>1
  <2>5. \A n \in native' : n.how = "live" => <<n.session, n.runner>> \in owedNotes'
    <3> SUFFICES ASSUME NEW n \in native', n.how = "live" PROVE <<n.session, n.runner>> \in owedNotes'
      OBVIOUS
    <3>1. CASE n \in native
      BY <3>1 DEF NoticeInv, NotesFollow
    <3>2. CASE n = note /\ ~focusedFlag /\ e.type = "finished"
      <4>1. n.runner = Notices!Root(1) /\ n.status # "interrupted"
        BY <2>1 DEF NotesSound
      <4> QED
        BY <2>2, <3>2, <4>1
    <3> QED
      BY <2>3, <3>1, <3>2
  <2>6. \A o \in owedNotes' : o[2] = Notices!Root(1) =>
          \E n \in native' : n.session = o[1] /\ n.runner = o[2] /\ n.how = "live"
    <3> SUFFICES ASSUME NEW o \in owedNotes', o[2] = Notices!Root(1)
                 PROVE  \E n \in native' : n.session = o[1] /\ n.runner = o[2] /\ n.how = "live"
      OBVIOUS
    <3>1. CASE o \in owedNotes
      BY <1>11, <1>13, <3>1 DEF NoticeInv, NotesFollow
    <3>2. CASE o = <<s, e.runner>> /\ e.type = "finished" /\ ~focusedFlag /\ e.status # "interrupted"
      <4>1. o[1] = s /\ o[2] = e.runner
        BY <3>2
      <4>2. note \in native'
        BY <1>9, <1>10, <1>11, <1>13, <3>2, <4>1 DEF note
      <4> QED
        BY <2>2, <4>1, <4>2
    <3> QED
      BY <3>1, <3>2
  <2> QED
    BY <2>1, <2>4, <2>5, <2>6 DEF NotesFollow, Notices!Root
<1> QED
  BY <1>14, <1>15, <1>16, <1>17, <1>18 DEF NoticeInv

LEMMA NoticeRunStarts ==
  ASSUME NoticeInv, NEW s \in Sessions, Notices!RunStarts(s)
  PROVE  NoticeInv'
<1> DEFINE n == episode[s] + 1
           e == Notices!Started(Notices!Root(n), None)
<1>1. /\ running[s] = {} /\ episode' = [episode EXCEPT ![s] = n]
      /\ running' = [running EXCEPT ![s] = {Notices!Root(n)}] /\ Notices!Emits(s, e) /\ owedNotes' = owedNotes
  BY DEF Notices!RunStarts
<1>2. episode \in [Sessions -> Nat] /\ DOMAIN running = Sessions
  BY DEF NoticeInv, NoticeTypes
<1>3. n \in Nat /\ n # 0 /\ episode[s] <= n /\ (episode[s] = 0 => n = 1) /\ episode[s] \in Nat
  BY <1>2
<1> HIDE DEF n
<1>4. Notices!Root(n) \in Runners /\ IsRoot(Notices!Root(n))
  BY <1>3, RootsAreSome
<1>5. e \in Events /\ e.type = "started" /\ e.runner = Notices!Root(n)
  BY <1>4 DEF Events, Notices!Started
<1>6. /\ DOMAIN running' = Sessions /\ episode' \in [Sessions -> Nat] /\ episode'[s] = n
      /\ running'[s] = {Notices!Root(n)}
      /\ \A u \in Sessions : u # s => running'[u] = running[u] /\ episode'[u] = episode[u]
  BY <1>1, <1>2, <1>3
<1> HIDE DEF e
<1>7. \A u \in Sessions : running'[u] \subseteq {Notices!Root(episode[u]), Notices!Kid(episode[u])}'
                          /\ (running'[u] # {} => episode'[u] # 0)
  <2> SUFFICES ASSUME NEW u \in Sessions
               PROVE  running'[u] \subseteq {Notices!Root(episode'[u]), Notices!Kid(episode'[u])}
                      /\ (running'[u] # {} => episode'[u] # 0)
    BY DEF Notices!Root, Notices!Kid
  <2> QED
    BY <1>3, <1>6 DEF NoticeInv, NoticeTypes
<1>8. NotesSound(native, running')
  <2> SUFFICES ASSUME NEW x \in native PROVE x.runner \notin running'[x.session]
    BY DEF NoticeInv, NotesFollow, NotesSound
  <2>1. x.session \in Sessions /\ x.runner = Notices!Root(1) /\ x.runner \notin running[x.session]
        /\ episode[x.session] # 0
    BY DEF NoticeInv, NotesFollow, NotesSound, Notes
  <2>2. x.session = s => n # 1
    BY <2>1, <1>3, <1>2 DEF n
  <2> QED
    BY <1>6, <2>1, <2>2, RootsAreSome
<1>9. \A i \in DOMAIN log[s] : log[s][i].type = "finished" => log[s][i].runner \notin running'[s]
  <2> SUFFICES ASSUME NEW i \in DOMAIN log[s], log[s][i].type = "finished" PROVE log[s][i].runner # Notices!Root(n)
    BY <1>6
  <2>1. PICK k \in 1..episode[s] : log[s][i].runner \in {Notices!Root(k), Notices!Kid(k)}
    BY DEF NoticeInv, LogsFit
  <2>2. k # n
    BY <1>2, <1>3 DEF n
  <2> QED
    BY <2>1, <2>2, RootsAreSome
<1>10. episode[s] = 0 => e.type = "started" /\ e.parent = None /\ e.runner = Notices!Root(1)
  BY <1>3, <1>5 DEF e, Notices!Started
<1>11. /\ e.type = "started" => (e.parent = None => IsRoot(e.runner))
       /\ e.type # "finished" /\ owedNotes' = owedNotes /\ Notices!Emits(s, e) /\ e \in Events
       /\ episode'[s] # 0 /\ episode[s] <= episode'[s] /\ DOMAIN running' = Sessions
       /\ episode' \in [Sessions -> Nat]
       /\ \A u \in Sessions : u # s => running'[u] = running[u] /\ episode'[u] = episode[u]
  BY <1>1, <1>3, <1>4, <1>5, <1>6
<1> QED
  BY ONLY NoticeInv, s \in Sessions, <1>7, <1>8, <1>9, <1>10, <1>11, NoticeEmits

LEMMA NoticeKidStarts ==
  ASSUME NoticeInv, NEW s \in Sessions, Notices!KidStarts(s)
  PROVE  NoticeInv'
<1> DEFINE n == episode[s]
           e == Notices!Started(Notices!Kid(n), Notices!Root(n))
<1>1. /\ running[s] = {Notices!Root(n)} /\ \A i \in DOMAIN log[s] : log[s][i].runner # Notices!Kid(n)
      /\ running' = [running EXCEPT ![s] = @ \cup {Notices!Kid(n)}] /\ Notices!Emits(s, e)
      /\ UNCHANGED <<episode, owedNotes>>
  BY DEF Notices!KidStarts
<1>2. episode \in [Sessions -> Nat] /\ DOMAIN running = Sessions /\ n \in Nat /\ n # 0
  BY <1>1 DEF NoticeInv, NoticeTypes
<1> HIDE DEF n
<1>3. Notices!Root(n) \in Runners /\ Notices!Root(n) # None /\ Notices!Kid(n) \in Runners
  BY <1>2, RootsAreSome
<1>4. e \in Events /\ e.type = "started" /\ e.parent # None
  BY <1>3 DEF Events, Notices!Started
<1>5. /\ DOMAIN running' = Sessions /\ running'[s] = {Notices!Root(n), Notices!Kid(n)}
      /\ \A u \in Sessions : u # s => running'[u] = running[u]
  BY <1>1, <1>2
<1> HIDE DEF e
<1>6. \A u \in Sessions : running'[u] \subseteq {Notices!Root(episode[u]), Notices!Kid(episode[u])}'
                          /\ (running'[u] # {} => episode'[u] # 0)
  <2> SUFFICES ASSUME NEW u \in Sessions
               PROVE  running'[u] \subseteq {Notices!Root(episode'[u]), Notices!Kid(episode'[u])}
                      /\ (running'[u] # {} => episode'[u] # 0)
    BY DEF Notices!Root, Notices!Kid
  <2> QED
    BY <1>1, <1>2, <1>5 DEF NoticeInv, NoticeTypes, n
<1>7. NotesSound(native, running')
  <2> SUFFICES ASSUME NEW x \in native PROVE x.runner \notin running'[x.session]
    BY DEF NoticeInv, NotesFollow, NotesSound
  <2>1. x.session \in Sessions /\ x.runner = Notices!Root(1) /\ x.runner \notin running[x.session]
    BY DEF NoticeInv, NotesFollow, NotesSound, Notes
  <2> QED
    BY <1>1, <1>5, <2>1, RootsAreSome
<1>8. \A i \in DOMAIN log[s] : log[s][i].type = "finished" => log[s][i].runner \notin running'[s]
  BY <1>1, <1>5 DEF NoticeInv, LogsFit, EventFits
<1>9. /\ episode' \in [Sessions -> Nat] /\ episode'[s] # 0 /\ episode[s] <= episode'[s] /\ episode[s] # 0
      /\ \A u \in Sessions : u # s => running'[u] = running[u] /\ episode'[u] = episode[u]
  BY <1>1, <1>2, <1>5 DEF n
<1>10. /\ e.type = "started" => (e.parent = None => IsRoot(e.runner))
       /\ e.type # "finished" /\ owedNotes' = owedNotes /\ Notices!Emits(s, e)
  BY <1>1, <1>4
<1> QED
  BY ONLY NoticeInv, s \in Sessions, <1>4, <1>5, <1>6, <1>7, <1>8, <1>9, <1>10, NoticeEmits

LEMMA NoticeFinishes ==
  ASSUME NoticeInv, NEW s \in Sessions, NEW r \in running[s], Notices!RunnerFinishes(s, r)
  PROVE  NoticeInv'
<1>1. PICK status \in Statuses :
        /\ running' = [running EXCEPT ![s] = @ \ {r}]
        /\ Notices!Emits(s, Notices!Finished(r, status))
        /\ owedNotes' = IF r = Notices!Root(episode[s]) /\ status # "interrupted" /\ ~focusedFlag
                          THEN owedNotes \cup {<<s, r>>} ELSE owedNotes
  BY DEF Notices!RunnerFinishes, Statuses
<1> DEFINE e == Notices!Finished(r, status)
<1>2. episode' = episode
  BY DEF Notices!RunnerFinishes
<1>3. /\ episode \in [Sessions -> Nat] /\ DOMAIN running = Sessions /\ episode[s] \in Nat /\ episode[s] # 0
      /\ r \in {Notices!Root(episode[s]), Notices!Kid(episode[s])}
  BY DEF NoticeInv, NoticeTypes
<1>4. r \in Runners
  BY <1>3, RootsAreSome
<1>5. e \in Events /\ e.type = "finished" /\ e.runner = r /\ e.status = status
  BY <1>4 DEF Events, Notices!Finished, Statuses
<1> HIDE DEF e
<1>6. /\ DOMAIN running' = Sessions /\ running'[s] = running[s] \ {r}
      /\ \A u \in Sessions : running'[u] \subseteq running[u] /\ (u # s => running'[u] = running[u])
  BY <1>1, <1>3
<1>7. \A u \in Sessions : running'[u] \subseteq {Notices!Root(episode[u]), Notices!Kid(episode[u])}'
                          /\ (running'[u] # {} => episode'[u] # 0)
  <2> SUFFICES ASSUME NEW u \in Sessions
               PROVE  running'[u] \subseteq {Notices!Root(episode'[u]), Notices!Kid(episode'[u])}
                      /\ (running'[u] # {} => episode'[u] # 0)
    BY DEF Notices!Root, Notices!Kid
  <2> QED
    BY <1>2, <1>6 DEF NoticeInv, NoticeTypes
<1>8. NotesSound(native, running')
  BY <1>6 DEF NoticeInv, NotesFollow, NotesSound, Notes
<1>9. \A i \in DOMAIN log[s] : log[s][i].type = "finished" => log[s][i].runner \notin running'[s]
  BY <1>6 DEF NoticeInv, LogsFit, EventFits
<1>10. r \notin running'[s] /\ \E k \in 1..episode'[s] : r \in {Notices!Root(k), Notices!Kid(k)}
  BY <1>2, <1>3, <1>6
<1>11. r = Notices!Root(1) => r = Notices!Root(episode[s])
  BY <1>3, RootsAreSome
<1>12. /\ \A o \in owedNotes' : o \in owedNotes \/ (o = <<s, r>> /\ ~focusedFlag /\ status # "interrupted")
       /\ owedNotes \subseteq owedNotes'
       /\ ~focusedFlag /\ status # "interrupted" /\ r = Notices!Root(1) => <<s, r>> \in owedNotes'
  BY <1>1, <1>11
<1>13. Notices!Emits(s, e)
  BY <1>1 DEF e
<1>14. episode[s] <= episode'[s] /\ episode' \in [Sessions -> Nat] /\ episode'[s] # 0
       /\ \A u \in Sessions : u # s => running'[u] = running[u] /\ episode'[u] = episode[u]
  BY <1>2, <1>3, <1>6
<1>15. /\ e.type = "started" => (e.parent = None => IsRoot(e.runner))
       /\ episode[s] # 0 /\ DOMAIN running' = Sessions
       /\ \A o \in owedNotes' : o \in owedNotes \/ (o = <<s, e.runner>> /\ e.type = "finished" /\ ~focusedFlag
                                                   /\ e.status # "interrupted")
       /\ owedNotes \subseteq owedNotes'
       /\ e.type = "finished" /\ ~focusedFlag /\ e.status # "interrupted" /\ e.runner = Notices!Root(1)
            => <<s, e.runner>> \in owedNotes'
       /\ e.type = "finished" => e.runner \notin running'[s]
                                /\ \E k \in 1..episode'[s] : e.runner \in {Notices!Root(k), Notices!Kid(k)}
       /\ e.runner \in running[s]
  BY <1>3, <1>5, <1>6, <1>10, <1>12
<1>16. e \in Events
  BY <1>5
<1> QED
  BY ONLY NoticeInv, s \in Sessions, <1>7, <1>8, <1>9, <1>13, <1>14, <1>15, <1>16, NoticeEmits

(* What is stored is sent once more.                                                  *)
LEMMA ReplayKeeps ==
  ASSUME NoticeInv, NEW s \in Sessions
  PROVE  LET st == Notices!Replayed(s) IN
           /\ TapSound(st, log, running) /\ st.process = rootsSeen["process"][s]
           /\ native \subseteq st.native
           /\ \A n \in st.native : n \in native \/ (n.how = "replay" /\ n.session = s /\ episode[s] # 0)
<1> DEFINE Good(st) == /\ TapSound(st, log, running) /\ st.process = rootsSeen["process"][s]
                       /\ native \subseteq st.native
                       /\ \A n \in st.native : n \in native \/ (n.how = "replay" /\ n.session = s /\ episode[s] # 0)
           len == Len(log[s])
<1>1. log[s] \in Seq(Events)
  BY DEF NoticeInv, NoticeTypes
<1>2. len \in Nat /\ DOMAIN log[s] = 1..len
  BY <1>1
<1>3. PICK f : IsSeen(f, s, len) /\ Notices!Replayed(s) = f[len]
  BY <1>2, ReplayedIsSeen
<1>4. Good(Notices!Now(s))
  <2>1. TapSound(Notices!Now(s), log, running)
    BY NowIsSound DEF NoticeInv, NotesFollow
  <2>2. Notices!Now(s).process = rootsSeen["process"][s] /\ Notices!Now(s).native = native
    BY DEF Notices!Now
  <2> QED
    BY <2>1, <2>2
<1>5. ASSUME NEW i \in DOMAIN log[s], NEW st, Good(st)
      PROVE  Good(Notices!Tap(st, s, log[s][i], "replay"))
  <2> DEFINE e == log[s][i]
             next == Notices!Tap(st, s, e, "replay")
  <2>1. EventFits(e, s, log, running) /\ episode[s] # 0
    BY DEF NoticeInv, LogsFit
  <2>2. st.process = Notices!Root(1) /\ st.process # None
    BY <1>5, <2>1, RootsAreSome DEF NoticeInv, TapsKnow
  <2>3. /\ TapSound(next, log, running) /\ next.process = st.process /\ st.native \subseteq next.native
        /\ \A n \in next.native : n \in st.native \/ n = Notices!Note(s, e, "replay")
    <3> HIDE DEF e
    <3> QED
      BY <1>5, <2>1, <2>2, TapKeeps
  <2>4. Notices!Note(s, e, "replay").how = "replay" /\ Notices!Note(s, e, "replay").session = s
    BY DEF Notices!Note
  <2> HIDE DEF next, e
  <2>5. Good(next)
    BY <1>5, <2>1, <2>3, <2>4
  <2> QED
    BY <2>5 DEF next, e
<1> DEFINE Bad == {i \in 0..len : ~Good(f[i])}
<1> HIDE DEF Good
<1>6. \A i \in Bad : \E m \in Bad : m < i
  <2> SUFFICES ASSUME NEW i \in Bad PROVE \E m \in Bad : m < i
    OBVIOUS
  <2>1. i \in 0..len /\ ~Good(f[i])
    OBVIOUS
  <2>2. f[i] = IF i = 0 THEN Notices!Now(s) ELSE Notices!Tap(f[i - 1], s, log[s][i], "replay")
    <3>1. \A j \in 0..len : f[j] = IF j = 0 THEN Notices!Now(s) ELSE Notices!Tap(f[j - 1], s, log[s][j], "replay")
      BY <1>3 DEF IsSeen
    <3> QED
      BY <2>1, <3>1
  <2>3. i # 0
    BY <1>4, <2>1, <2>2
  <2>4. i - 1 \in 0..len /\ i \in DOMAIN log[s] /\ i - 1 < i
    BY <1>2, <2>1, <2>3
  <2>5. ~Good(f[i - 1])
    BY <1>5, <2>1, <2>2, <2>3, <2>4
  <2> QED
    BY <2>4, <2>5
<1>7. Bad = {}
  <2>1. Bad \subseteq Nat
    BY <1>2
  <2> HIDE DEF Bad
  <2> QED
    BY <1>6, <2>1, NoLeast
<1>8. Good(f[len])
  BY <1>2, <1>7
<1> QED
  BY <1>3, <1>8 DEF Good

LEMMA NoticeAttaches ==
  ASSUME NoticeInv, NEW s \in Sessions, Notices!Attaches(s)
  PROVE  NoticeInv'
<1> DEFINE st == Notices!Replayed(s)
<1>1. Notices!Leaves(s, st) /\ UNCHANGED <<log, episode, running, owedNotes, others>>
  BY DEF Notices!Attaches
<1>2. /\ TapSound(st, log, running) /\ st.process = rootsSeen["process"][s] /\ native \subseteq st.native
      /\ \A n \in st.native : n \in native \/ (n.how = "replay" /\ n.session = s /\ episode[s] # 0)
  BY ReplayKeeps
<1> HIDE DEF st
<1>3. /\ DOMAIN rootsSeen' = Notices!Taps
      /\ DOMAIN rootsSeen'["process"] = Sessions /\ DOMAIN rootsSeen'["window"] = Sessions
      /\ rootsSeen'["process"][s] = st.process /\ rootsSeen'["window"][s] = st.window
      /\ \A u \in Sessions : u # s => /\ rootsSeen'["process"][u] = rootsSeen["process"][u]
                                      /\ rootsSeen'["window"][u] = rootsSeen["window"][u]
      /\ native' = st.native /\ toasts' = st.toasts /\ shoved' = st.shoved /\ retold' = st.retold
  BY <1>1, LeftAt
<1>4. NoticeTypes'
  BY <1>1, <1>3 DEF NoticeInv, NoticeTypes, Notices!Root, Notices!Kid
<1>5. LogsFit'
  BY <1>1 DEF NoticeInv, LogsFit, EventFits, Notices!Root, Notices!Kid
<1>6. TapsKnow'
  BY <1>1, <1>2, <1>3 DEF NoticeInv, TapsKnow, TapSound
<1>7. NotesFollow'
  <2>1. NotesSound(native', running')
    BY <1>1, <1>2, <1>3 DEF TapSound
  <2>2. \A n \in native' : episode'[n.session] # 0
    BY <1>1, <1>2, <1>3 DEF NoticeInv, NotesFollow
  <2>3. \A n \in native' : n.how = "live" => n \in native
    BY <1>2, <1>3
  <2> QED
    BY <1>1, <1>2, <1>3, <2>1, <2>2, <2>3 DEF NoticeInv, NotesFollow, Notices!Root
<1>8. StackSound(toasts', log') /\ shoved' = FALSE /\ retold' = FALSE
  BY <1>1, <1>2, <1>3 DEF TapSound
<1> QED
  BY <1>4, <1>5, <1>6, <1>7, <1>8 DEF NoticeInv

(* The steps that leave the log, the notifications and what the process knows.               *)
LEMMA NoticeStays ==
  ASSUME NoticeInv, UNCHANGED <<log, episode, running, native, retold, owedNotes>>, others' \in Nat,
         DOMAIN rootsSeen' = Notices!Taps, DOMAIN rootsSeen'["window"] = Sessions,
         rootsSeen'["process"] = rootsSeen["process"],
         \A s \in Sessions : rootsSeen'["window"][s] \in {None, rootsSeen["window"][s]},
         StackSound(toasts', log), shoved' = FALSE
  PROVE  NoticeInv'
<1>1. NoticeTypes'
  BY DEF NoticeInv, NoticeTypes, Notices!Root, Notices!Kid
<1>2. LogsFit'
  BY DEF NoticeInv, LogsFit, EventFits, Notices!Root, Notices!Kid
<1>3. TapsKnow'
  BY DEF NoticeInv, TapsKnow
<1>4. NotesFollow'
  BY DEF NoticeInv, NotesFollow, NotesSound, Notices!Root
<1>5. StackSound(toasts', log')
  BY DEF StackSound
<1> QED
  BY <1>1, <1>2, <1>3, <1>4, <1>5 DEF NoticeInv

LEMMA NoticeConnects == NoticeInv /\ Notices!Connects => NoticeInv'
<1> SUFFICES ASSUME NoticeInv, Notices!Connects PROVE NoticeInv'
  OBVIOUS
<1>1. UNCHANGED <<log, episode, running, native, retold, owedNotes, shoved, others>>
  BY DEF Notices!Connects
<1>2. \/ UNCHANGED <<rootsSeen, toasts>>
      \/ /\ rootsSeen' = [rootsSeen EXCEPT !["window"] = [s \in Sessions |-> None]]
         /\ toasts' = << >>
  BY DEF Notices!Connects
<1>3. DOMAIN rootsSeen = {"process", "window"} /\ DOMAIN rootsSeen["window"] = Sessions
      /\ others \in Nat /\ StackSound(toasts, log) /\ shoved = FALSE
  BY DEF NoticeInv, NoticeTypes, Notices!Taps
<1>4. StackSound(<< >>, log)
  BY WindowsAssumption DEF StackSound
<1>5. /\ DOMAIN rootsSeen' = Notices!Taps /\ DOMAIN rootsSeen'["window"] = Sessions
      /\ rootsSeen'["process"] = rootsSeen["process"]
      /\ \A s \in Sessions : rootsSeen'["window"][s] \in {None, rootsSeen["window"][s]}
  BY <1>2, <1>3 DEF Notices!Taps
<1>6. StackSound(toasts', log)
  BY <1>2, <1>3, <1>4
<1> QED
  BY <1>1, <1>3, <1>5, <1>6, NoticeStays

LEMMA NoticeToasts == NoticeInv /\ Notices!Toasts => NoticeInv'
<1> SUFFICES ASSUME NoticeInv, Notices!Toasts PROVE NoticeInv'
  OBVIOUS
<1>1. UNCHANGED <<log, episode, running, native, retold, owedNotes, rootsSeen>> /\ others' = others + 1
  BY DEF Notices!Toasts
<1>2. PICK tone \in {"error", "info"} :
        LET t == [tone |-> tone, message |-> others + 1, of |-> None] IN
          /\ toasts' = Notices!Shown(toasts, t)
          /\ shoved' = (shoved \/ Notices!Shoves(toasts, t))
  BY DEF Notices!Toasts
<1> DEFINE t == [tone |-> tone, message |-> others + 1, of |-> None]
<1>3. others \in Nat /\ others' \in Nat
  BY <1>1 DEF NoticeInv, NoticeTypes
<1>4. t \in ToastSet /\ t.of = None
  BY <1>3 DEF ToastSet
<1>5. toasts' = Notices!Shown(toasts, t) /\ shoved' = (shoved \/ Notices!Shoves(toasts, t))
  BY <1>2
<1> HIDE DEF t
<1>6. StackSound(toasts', log) /\ shoved' = FALSE
  <2>1. StackSound(Notices!Shown(toasts, t), log) /\ ~Notices!Shoves(toasts, t)
    BY <1>4, ToastShown DEF NoticeInv
  <2> QED
    BY <1>5, <2>1 DEF NoticeInv
<1>7. /\ DOMAIN rootsSeen' = Notices!Taps /\ DOMAIN rootsSeen'["window"] = Sessions
      /\ \A s \in Sessions : rootsSeen'["window"][s] \in {None, rootsSeen["window"][s]}
  BY <1>1 DEF NoticeInv, NoticeTypes
<1> QED
  BY <1>1, <1>3, <1>6, <1>7, NoticeStays

LEMMA NoticeDismisses == NoticeInv /\ Notices!Dismisses => NoticeInv'
<1> SUFFICES ASSUME NoticeInv, Notices!Dismisses PROVE NoticeInv'
  OBVIOUS
<1>1. UNCHANGED <<log, episode, running, native, retold, owedNotes, rootsSeen, shoved, others>>
  BY DEF Notices!Dismisses
<1>2. PICK i \in DOMAIN toasts : toasts' = Notices!RemoveAt(toasts, i)
  BY DEF Notices!Dismisses
<1>3. toasts \in Seq(ToastSet) /\ Len(toasts) <= MaxToasts /\ MaxToasts \in Nat
  BY WindowsAssumption DEF NoticeInv, StackSound
<1>4. /\ toasts' \in Seq(ToastSet) /\ Len(toasts') = Len(toasts) - 1
      /\ \A k \in DOMAIN toasts' : toasts'[k] = IF k < i THEN toasts[k] ELSE toasts[k + 1]
  BY <1>2, <1>3, OneRemoved DEF Notices!RemoveAt
<1>5. DOMAIN toasts = 1..Len(toasts) /\ DOMAIN toasts' = 1..(Len(toasts) - 1) /\ Len(toasts) \in Nat
  BY <1>3, <1>4
<1> DEFINE From(k) == IF k < i THEN k ELSE k + 1
<1>6. \A k \in DOMAIN toasts' : From(k) \in DOMAIN toasts /\ toasts'[k] = toasts[From(k)]
  BY <1>2, <1>4, <1>5
<1>7. \A k, l \in DOMAIN toasts' : From(k) = From(l) => k = l
  BY <1>2, <1>5
<1> HIDE DEF From
<1>8. StackSound(toasts', log)
  <2>1. Len(toasts') <= MaxToasts
    BY <1>3, <1>4, <1>5
  <2>2. \A k, l \in DOMAIN toasts' : k # l => toasts'[k].tone # toasts'[l].tone \/ toasts'[k].message # toasts'[l].message
    BY <1>6, <1>7 DEF NoticeInv, StackSound
  <2>3. \A k \in DOMAIN toasts' : toasts'[k].of # None => RootEnded(log, toasts'[k].of)
    BY <1>6 DEF NoticeInv, StackSound
  <2> QED
    BY <1>4, <2>1, <2>2, <2>3 DEF StackSound
<1>9. /\ DOMAIN rootsSeen' = Notices!Taps /\ DOMAIN rootsSeen'["window"] = Sessions /\ others' \in Nat /\ shoved' = FALSE
      /\ \A s \in Sessions : rootsSeen'["window"][s] \in {None, rootsSeen["window"][s]}
  BY <1>1 DEF NoticeInv, NoticeTypes
<1> QED
  BY <1>1, <1>8, <1>9, NoticeStays

LEMMA NoticeQuiet ==
  ASSUME NoticeInv, UNCHANGED <<log, episode, running, rootsSeen, toasts, native, retold, owedNotes, shoved, others>>
  PROVE  NoticeInv'
<1>1. /\ DOMAIN rootsSeen' = Notices!Taps /\ DOMAIN rootsSeen'["window"] = Sessions /\ others' \in Nat /\ shoved' = FALSE
      /\ \A s \in Sessions : rootsSeen'["window"][s] \in {None, rootsSeen["window"][s]}
      /\ StackSound(toasts', log)
  BY DEF NoticeInv, NoticeTypes
<1> QED
  BY <1>1, NoticeStays

(* The invariant is kept by every step.                                              *)
LEMMA NoticeInvInductive == NoticeInv /\ [Notices!NoticesNext]_noticeVars => NoticeInv'
<1> SUFFICES ASSUME NoticeInv, [Notices!NoticesNext]_noticeVars PROVE NoticeInv'
  OBVIOUS
<1>1. CASE UNCHANGED noticeVars
  BY <1>1, NoticeQuiet DEF noticeVars
<1>2. CASE Notices!Disconnects \/ Notices!FocusChanges \/ \E s \in Sessions : Notices!Views(s)
  BY <1>2, NoticeQuiet DEF Notices!Disconnects, Notices!FocusChanges, Notices!Views
<1>3. CASE Notices!NoticesNext /\ ~(Notices!Disconnects \/ Notices!FocusChanges \/ \E s \in Sessions : Notices!Views(s))
  BY <1>3, NoticeRunStarts, NoticeKidStarts, NoticeAttaches, NoticeFinishes, NoticeConnects, NoticeToasts,
     NoticeDismisses DEF Notices!NoticesNext
<1> QED
  BY <1>1, <1>2, <1>3

-----------------------------------------------------------------------------
(***************************************************************************)
(* Launches: the PATH, and what is found on it.                                     *)
(***************************************************************************)

(* What is first stays, entry by entry: f[n] is what is kept of the first n entries of q.        *)
IsMerged(f, q, n) ==
  f = [i \in 0..n |-> IF i = 0 THEN <<>>
                      ELSE IF Starting!Contains(f[i - 1], q[i]) THEN f[i - 1]
                      ELSE Append(f[i - 1], q[i])]

(* One entry more.                                                          *)
Merges(kept, x) == IF Starting!Contains(kept, x) THEN kept ELSE Append(kept, x)

LEMMA MergedExtends ==
  ASSUME NEW q, NEW n \in Nat, NEW f, IsMerged(f, q, n)
  PROVE  \E g : IsMerged(g, q, n + 1)
<1> DEFINE g == [i \in 0..(n + 1) |-> IF i = n + 1 THEN Merges(f[n], q[n + 1]) ELSE f[i]]
<1>1. ASSUME NEW i \in 0..(n + 1)
      PROVE  g[i] = IF i = 0 THEN <<>> ELSE Merges(g[i - 1], q[i])
  <2>1. CASE i = n + 1
    <3>1. i - 1 = n /\ n \in 0..(n + 1) /\ n # n + 1 /\ i # 0
      BY <2>1
    <3>2. g[n] = f[n]
      BY <3>1
    <3>3. g[i] = Merges(f[n], q[n + 1])
      BY <2>1
    <3> HIDE DEF g
    <3> QED
      BY <2>1, <3>1, <3>2, <3>3
  <2>2. CASE i # n + 1
    <3>1. i \in 0..n /\ g[i] = f[i]
      BY <2>2
    <3>2. f[i] = IF i = 0 THEN <<>> ELSE Merges(f[i - 1], q[i])
      BY <3>1 DEF IsMerged, Merges
    <3>3. i # 0 => i - 1 \in 0..(n + 1) /\ i - 1 # n + 1
      BY <3>1
    <3>4. i # 0 => g[i - 1] = f[i - 1]
      BY <3>3
    <3> HIDE DEF g
    <3> QED
      BY <3>1, <3>2, <3>4
  <2> QED
    BY <2>1, <2>2
<1>2. g = [i \in 0..(n + 1) |-> g[i]]
  OBVIOUS
<1> HIDE DEF g
<1>3. g = [i \in 0..(n + 1) |-> IF i = 0 THEN <<>> ELSE Merges(g[i - 1], q[i])]
  BY <1>1, <1>2, Zenon
<1>4. IsMerged(g, q, n + 1)
  BY <1>3, Zenon DEF IsMerged, Merges
<1> QED
  BY <1>4

LEMMA MergedExists ==
  ASSUME NEW q, NEW n \in Nat
  PROVE  \E f : IsMerged(f, q, n)
<1> DEFINE Lacks == {k \in Nat : ~ \E f : IsMerged(f, q, k)}
<1>1. 0 \notin Lacks
  <2> DEFINE f == [i \in 0..0 |-> <<>>]
  <2>1. \A i \in 0..0 : i = 0
    OBVIOUS
  <2>2. f = [i \in 0..0 |-> IF i = 0 THEN <<>> ELSE Merges(f[i - 1], q[i])]
    BY <2>1
  <2> HIDE DEF f
  <2> QED
    BY <2>2 DEF IsMerged, Merges
<1>2. \A k \in Lacks : \E m \in Lacks : m < k
  <2> SUFFICES ASSUME NEW k \in Lacks PROVE \E m \in Lacks : m < k
    OBVIOUS
  <2>1. k \in Nat /\ k # 0 /\ k - 1 \in Nat /\ (k - 1) + 1 = k
    BY <1>1
  <2>2. ~ \E f : IsMerged(f, q, (k - 1) + 1)
    BY <2>1
  <2>3. ~ \E f : IsMerged(f, q, k - 1)
    BY <2>1, <2>2, MergedExtends
  <2>4. k - 1 \in Lacks
    BY <2>1, <2>3
  <2> QED
    BY <2>1, <2>4
<1>3. Lacks = {}
  <2>1. Lacks \subseteq Nat
    OBVIOUS
  <2> HIDE DEF Lacks
  <2> QED
    BY <1>2, <2>1, NoLeast
<1> QED
  BY <1>3

LEMMA KeepFirstIsMerged ==
  ASSUME NEW q, Len(q) \in Nat
  PROVE  \E f : IsMerged(f, q, Len(q)) /\ Starting!KeepFirst(q) = f[Len(q)]
<1> DEFINE f == CHOOSE g : IsMerged(g, q, Len(q))
<1>1. IsMerged(f, q, Len(q))
  BY MergedExists
<1>2. Starting!KeepFirst(q) = f[Len(q)]
  BY Zenon DEF Starting!KeepFirst, IsMerged
<1> QED
  BY <1>1, <1>2

(* What is kept of the first n entries of q: each once, none of its own, and for a set of       *)
(* directories to look in, the first of them.                                          *)
KeptOf(kept, q, n, sought) ==
  /\ kept \in Seq(Starting!Dirs)
  /\ \A i, j \in DOMAIN kept : kept[i] = kept[j] => i = j
  /\ \A i \in DOMAIN kept : \E c \in 1..n : kept[i] = q[c]
  /\ \A c \in 1..n : q[c] \in sought /\ (\A b \in 1..(c - 1) : q[b] \notin sought) =>
       \E i \in DOMAIN kept : kept[i] = q[c] /\ \A j \in 1..(i - 1) : kept[j] \notin sought

LEMMA KeptGrows ==
  ASSUME NEW q \in Seq(Starting!Dirs), NEW sought, NEW n \in Nat, n + 1 \in DOMAIN q,
         NEW kept, KeptOf(kept, q, n, sought)
  PROVE  KeptOf(Merges(kept, q[n + 1]), q, n + 1, sought)
<1> DEFINE x == q[n + 1]
           new == Merges(kept, x)
<1>1. x \in Starting!Dirs /\ kept \in Seq(Starting!Dirs)
  BY DEF KeptOf
<1>2. CASE Starting!Contains(kept, x)
  <2>1. new = kept
    BY <1>2 DEF Merges
  <2>2. \E i \in DOMAIN kept : kept[i] = x
    BY <1>1, <1>2 DEF Starting!Contains
  <2>3. \A i \in DOMAIN kept : \E c \in 1..(n + 1) : kept[i] = q[c]
    BY DEF KeptOf
  <2>4. ASSUME NEW c \in 1..(n + 1), q[c] \in sought, \A b \in 1..(c - 1) : q[b] \notin sought
        PROVE  \E i \in DOMAIN kept : kept[i] = q[c] /\ \A j \in 1..(i - 1) : kept[j] \notin sought
    <3>1. CASE c = n + 1
      <4>1. PICK i \in DOMAIN kept : kept[i] = q[c]
        BY <2>2, <3>1
      <4>2. PICK d \in 1..n : kept[i] = q[d]
        BY <4>1 DEF KeptOf
      <4>3. d \in 1..(c - 1)
        BY <3>1, <4>2
      <4> QED
        BY <2>4, <4>1, <4>2, <4>3
    <3>2. CASE c # n + 1
      <4>1. c \in 1..n
        BY <3>2
      <4> QED
        BY <2>4, <4>1 DEF KeptOf
    <3> QED
      BY <3>1, <3>2
  <2>5. \A i, j \in DOMAIN kept : kept[i] = kept[j] => i = j
    BY DEF KeptOf
  <2> HIDE DEF x
  <2> QED
    BY <1>1, <2>1, <2>3, <2>4, <2>5 DEF KeptOf, new, x
<1>3. CASE ~Starting!Contains(kept, x)
  <2>1. new = Append(kept, x)
    BY <1>3 DEF Merges
  <2>2. \A i \in DOMAIN kept : kept[i] # x
    BY <1>1, <1>3 DEF Starting!Contains
  <2> DEFINE len == Len(kept)
  <2> HIDE DEF x, new
  <2>3. /\ len \in Nat /\ DOMAIN kept = 1..len /\ DOMAIN new = 1..(len + 1) /\ new \in Seq(Starting!Dirs)
        /\ new[len + 1] = x /\ \A i \in 1..len : new[i] = kept[i]
    BY <1>1, <2>1
  <2> HIDE DEF len
  <2>4. \A i, j \in DOMAIN new : new[i] = new[j] => i = j
    <3>1. \A i, j \in DOMAIN kept : kept[i] = kept[j] => i = j
      BY DEF KeptOf
    <3>2. \A i \in DOMAIN new : i \in DOMAIN kept \/ i = len + 1
      BY <2>3
    <3> QED
      BY <2>2, <2>3, <3>1, <3>2
  <2>5. \A i \in DOMAIN new : \E c \in 1..(n + 1) : new[i] = q[c]
    <3> SUFFICES ASSUME NEW i \in DOMAIN new PROVE \E c \in 1..(n + 1) : new[i] = q[c]
      OBVIOUS
    <3>1. CASE i = len + 1
      BY <2>3, <3>1 DEF x
    <3>2. CASE i # len + 1
      <4>1. i \in DOMAIN kept /\ new[i] = kept[i]
        BY <2>3, <3>2
      <4>2. PICK c \in 1..n : kept[i] = q[c]
        BY <4>1 DEF KeptOf
      <4>3. c \in 1..(n + 1)
        BY <4>2
      <4> QED
        BY <4>1, <4>2, <4>3
    <3> QED
      BY <3>1, <3>2
  <2>6. ASSUME NEW c \in 1..(n + 1), q[c] \in sought, \A b \in 1..(c - 1) : q[b] \notin sought
        PROVE  \E i \in DOMAIN new : new[i] = q[c] /\ \A j \in 1..(i - 1) : new[j] \notin sought
    <3>1. CASE c = n + 1
      <4>1. \A j \in 1..len : new[j] \notin sought
        <5> SUFFICES ASSUME NEW j \in 1..len PROVE new[j] \notin sought
          OBVIOUS
        <5>1. PICK d \in 1..n : kept[j] = q[d]
          BY <2>3 DEF KeptOf
        <5>2. d \in 1..(c - 1)
          BY <3>1, <5>1
        <5> QED
          BY <2>3, <2>6, <5>1, <5>2
      <4>2. len + 1 \in DOMAIN new /\ new[len + 1] = q[c] /\ 1..((len + 1) - 1) = 1..len
        BY <2>3, <3>1 DEF x
      <4> QED
        BY <4>1, <4>2
    <3>2. CASE c # n + 1
      <4>1. c \in 1..n
        BY <3>2
      <4>2. PICK i \in DOMAIN kept : kept[i] = q[c] /\ \A j \in 1..(i - 1) : kept[j] \notin sought
        BY <2>6, <4>1 DEF KeptOf
      <4>3. i \in DOMAIN new /\ new[i] = kept[i] /\ \A j \in 1..(i - 1) : new[j] = kept[j]
        BY <2>3, <4>2
      <4> QED
        BY <4>2, <4>3
    <3> QED
      BY <3>1, <3>2
  <2> QED
    BY <2>3, <2>4, <2>5, <2>6 DEF KeptOf, new, x
<1> QED
  BY <1>2, <1>3

LEMMA KeepFirstKeeps ==
  ASSUME NEW q \in Seq(Starting!Dirs), NEW sought
  PROVE  KeptOf(Starting!KeepFirst(q), q, Len(q), sought)
<1> DEFINE len == Len(q)
<1>1. len \in Nat /\ DOMAIN q = 1..len
  OBVIOUS
<1>2. PICK f : IsMerged(f, q, len) /\ Starting!KeepFirst(q) = f[len]
  BY <1>1, KeepFirstIsMerged
<1> DEFINE Bad == {i \in 0..len : ~KeptOf(f[i], q, i, sought)}
<1>3. \A j \in 0..len : f[j] = IF j = 0 THEN <<>> ELSE Merges(f[j - 1], q[j])
  BY <1>2 DEF IsMerged, Merges
<1>4. KeptOf(<<>>, q, 0, sought)
  BY DEF KeptOf
<1>5. \A i \in Bad : \E m \in Bad : m < i
  <2> SUFFICES ASSUME NEW i \in Bad PROVE \E m \in Bad : m < i
    OBVIOUS
  <2>1. i \in 0..len /\ ~KeptOf(f[i], q, i, sought)
    OBVIOUS
  <2>2. i # 0
    <3>1. i = 0 => f[i] = <<>>
      BY <1>3, <2>1
    <3> QED
      BY <1>4, <2>1, <3>1
  <2>3. i - 1 \in Nat /\ i - 1 \in 0..len /\ (i - 1) + 1 = i /\ i \in DOMAIN q /\ i - 1 < i
    BY <1>1, <2>1, <2>2
  <2>4. f[i] = Merges(f[i - 1], q[i])
    BY <1>3, <2>1, <2>2
  <2>5. ~KeptOf(f[i - 1], q, i - 1, sought)
    <3> DEFINE n == i - 1
               before == f[n]
    <3>1. n \in Nat /\ n + 1 \in DOMAIN q /\ n + 1 = i
      BY <2>3
    <3> HIDE DEF n, before
    <3>2. ~KeptOf(Merges(before, q[n + 1]), q, n + 1, sought)
      BY <2>1, <2>4, <3>1 DEF before, n
    <3>3. ~KeptOf(before, q, n, sought)
      BY <3>1, <3>2, KeptGrows
    <3> QED
      BY <3>3 DEF before, n
  <2> QED
    BY <2>3, <2>5
<1>6. Bad = {}
  <2>1. Bad \subseteq Nat
    BY <1>1
  <2> HIDE DEF Bad
  <2> QED
    BY <1>5, <2>1, NoLeast
<1>7. KeptOf(f[len], q, len, sought)
  BY <1>1, <1>6
<1> QED
  BY <1>2, <1>7

(* The first place of a set of numbers is its least.                                     *)
LEMMA LeastChosen ==
  ASSUME NEW S, S \subseteq Nat, NEW m \in S, \A k \in S : m <= k
  PROVE  (CHOOSE i \in S : \A j \in S : i <= j) = m
<1> DEFINE least == CHOOSE i \in S : \A j \in S : i <= j
<1>1. least \in S /\ \A j \in S : least <= j
  OBVIOUS
<1> HIDE DEF least
<1>2. least = m
  BY <1>1
<1> QED
  BY <1>2 DEF least

(* A sequence and one more.                                                        *)
LEMMA JoinTwo ==
  ASSUME NEW S, NEW x \in Seq(S), NEW y \in Seq(S)
  PROVE  /\ x \o y \in Seq(S) /\ DOMAIN (x \o y) = 1..(Len(x) + Len(y)) /\ Len(x \o y) = Len(x) + Len(y)
         /\ \A i \in 1..(Len(x) + Len(y)) : (x \o y)[i] = IF i <= Len(x) THEN x[i] ELSE y[i - Len(x)]
OBVIOUS

LEMMA JoinOne ==
  ASSUME NEW S, NEW x \in Seq(S), NEW e \in S
  PROVE  LET z == x \o <<e>> IN
           /\ z \in Seq(S) /\ Len(z) = Len(x) + 1 /\ DOMAIN z = 1..(Len(x) + 1) /\ z[Len(x) + 1] = e
           /\ \A i \in 1..Len(x) : z[i] = x[i]
<1> DEFINE y == <<e>>
           z == x \o y
           n == Len(x)
<1>1. y \in Seq(S) /\ Len(y) = 1 /\ y[1] = e
  OBVIOUS
<1>2. n \in Nat
  OBVIOUS
<1> HIDE DEF y
<1>3. /\ z \in Seq(S) /\ Len(z) = n + 1 /\ DOMAIN z = 1..(n + 1)
      /\ \A i \in 1..(n + 1) : z[i] = IF i <= n THEN x[i] ELSE y[i - n]
  <2>1. /\ z \in Seq(S) /\ DOMAIN z = 1..(n + Len(y)) /\ Len(z) = n + Len(y)
        /\ \A i \in 1..(n + Len(y)) : z[i] = IF i <= n THEN x[i] ELSE y[i - n]
    BY <1>1, JoinTwo
  <2> HIDE DEF z, n
  <2> QED
    BY <1>1, <2>1
<1> HIDE DEF z, n
<1>4. z[n + 1] = e /\ \A i \in 1..n : z[i] = x[i]
  <2>1. n + 1 \in 1..(n + 1) /\ (n + 1) - n = 1 /\ ~(n + 1 <= n)
    BY <1>2
  <2>2. \A i \in 1..n : i \in 1..(n + 1) /\ i <= n
    BY <1>2
  <2> QED
    BY <1>1, <1>3, <2>1, <2>2
<1> QED
  BY <1>3, <1>4 DEF z, y, n

(* The search path once the shell has answered.                                        *)
Answered == (launchAnswer \o Starting!Common) \o <<"baseDir">>

(* A program is found in the first entry of the shell's answer that has it, whatever else is      *)
(* on the path.                                                               *)
LEMMA FoundIsFirst ==
  ASSUME NEW q \in Seq(Starting!Dirs), searchPath = Starting!KeepFirst(q), NEW program
  PROVE  /\ \A c \in DOMAIN q : q[c] \in installed[program] /\ (\A b \in 1..(c - 1) : q[b] \notin installed[program])
              => Starting!Find(program) = q[c]
         /\ (\A c \in DOMAIN q : q[c] \notin installed[program]) => Starting!Find(program) = None
<1> DEFINE sought == installed[program]
           kept == searchPath
           found == {i \in DOMAIN kept : kept[i] \in sought}
<1>1. KeptOf(kept, q, Len(q), sought)
  BY KeepFirstKeeps
<1>2. DOMAIN q = 1..Len(q) /\ DOMAIN kept \subseteq Nat
  BY <1>1 DEF KeptOf
<1>3. Starting!Find(program) =
        IF found = {} THEN None ELSE kept[CHOOSE i \in found : \A j \in found : i <= j]
  BY DEF Starting!Find
<1>4. ASSUME NEW c \in DOMAIN q, q[c] \in sought, \A b \in 1..(c - 1) : q[b] \notin sought
      PROVE  Starting!Find(program) = q[c]
  <2>1. PICK i \in DOMAIN kept : kept[i] = q[c] /\ \A j \in 1..(i - 1) : kept[j] \notin sought
    BY <1>1, <1>2, <1>4 DEF KeptOf
  <2>2. i \in found /\ found \subseteq Nat
    BY <1>2, <1>4, <2>1
  <2>3. \A k \in found : i <= k
    <3> SUFFICES ASSUME NEW k \in found, ~(i <= k) PROVE FALSE
      OBVIOUS
    <3>1. k \in DOMAIN kept /\ i \in DOMAIN kept /\ DOMAIN kept = 1..Len(kept)
      BY <1>1, <2>1 DEF KeptOf
    <3>2. k \in 1..(i - 1)
      BY <3>1
    <3> QED
      BY <2>1, <3>2
  <2> HIDE DEF found
  <2>4. (CHOOSE j \in found : \A k \in found : j <= k) = i
    BY <2>2, <2>3, LeastChosen
  <2> QED
    BY <1>3, <2>1, <2>2, <2>4
<1>5. ASSUME \A c \in DOMAIN q : q[c] \notin sought
      PROVE  Starting!Find(program) = None
  <2>1. found = {}
    BY <1>1, <1>2, <1>5 DEF KeptOf
  <2> HIDE DEF found
  <2> QED
    BY <1>3, <2>1
<1> QED
  BY <1>4, <1>5

(* What is on the path, place by place.                                             *)
LEMMA AnsweredAt ==
  ASSUME launchAnswer \in Seq(Starting!Dirs)
  PROVE  /\ Answered \in Seq(Starting!Dirs)
         /\ LET n == Len(launchAnswer) IN
              /\ n \in Nat /\ DOMAIN launchAnswer = 1..n
              /\ \A i \in 1..n : Answered[i] = launchAnswer[i]
              /\ posix => DOMAIN Answered = 1..(n + 2) /\ Answered[n + 1] = "commonDir" /\ Answered[n + 2] = "baseDir"
              /\ ~posix => DOMAIN Answered = 1..(n + 1) /\ Answered[n + 1] = "baseDir"
<1> DEFINE a == launchAnswer
           n == Len(a)
<1>1. a \in Seq(Starting!Dirs) /\ n \in Nat /\ DOMAIN a = 1..n
  OBVIOUS
<1>2. "commonDir" \in Starting!Dirs /\ "baseDir" \in Starting!Dirs
  BY DEF Starting!Dirs
<1>3. CASE posix
  <2> DEFINE d == a \o <<"commonDir">>
             r == d \o <<"baseDir">>
  <2>1. d \in Seq(Starting!Dirs) /\ Len(d) = n + 1 /\ d[n + 1] = "commonDir" /\ \A i \in 1..n : d[i] = a[i]
    <3> HIDE DEF a
    <3> QED
      BY <1>1, <1>2, JoinOne
  <2>2. /\ r \in Seq(Starting!Dirs) /\ DOMAIN r = 1..(Len(d) + 1) /\ r[Len(d) + 1] = "baseDir"
        /\ \A i \in 1..Len(d) : r[i] = d[i]
    <3> HIDE DEF d
    <3> QED
      BY <1>2, <2>1, JoinOne
  <2>3. Answered = r
    BY <1>3 DEF Answered, Starting!Common
  <2> HIDE DEF a, n, d, r
  <2>4. /\ r \in Seq(Starting!Dirs) /\ DOMAIN r = 1..(n + 2) /\ r[n + 2] = "baseDir" /\ r[n + 1] = "commonDir"
        /\ \A i \in 1..n : r[i] = a[i]
    BY <1>1, <2>1, <2>2
  <2> QED
    BY <1>1, <1>3, <2>3, <2>4 DEF a, n
<1>4. CASE ~posix
  <2> DEFINE d == a \o <<>>
             r == a \o <<"baseDir">>
  <2>1. d = a
    OBVIOUS
  <2>2. /\ r \in Seq(Starting!Dirs) /\ DOMAIN r = 1..(n + 1) /\ r[n + 1] = "baseDir"
        /\ \A i \in 1..n : r[i] = a[i]
    <3> HIDE DEF a
    <3> QED
      BY <1>1, <1>2, JoinOne
  <2>3. Answered = d \o <<"baseDir">>
    BY <1>4 DEF Answered, Starting!Common
  <2> HIDE DEF d
  <2>4. Answered = r
    BY <2>1, <2>3
  <2> HIDE DEF r, n, a
  <2> QED
    BY <1>1, <1>4, <2>2, <2>4 DEF a, n
<1> QED
  BY <1>3, <1>4

(* What is found once the shell has answered is what the user's terminal finds.                *)
LEMMA FoundAsInTerminal ==
  ASSUME launchAnswer \in Seq(Starting!Dirs), searchPath = Starting!KeepFirst(Answered), NEW program
  PROVE  Starting!Find(program) = Starting!AsInTerminal(program)
<1> DEFINE n == Len(launchAnswer)
           q == Answered
           sought == installed[program]
           places == {i \in DOMAIN launchAnswer : launchAnswer[i] \in sought}
<1>1. /\ q \in Seq(Starting!Dirs) /\ n \in Nat /\ DOMAIN launchAnswer = 1..n
      /\ \A i \in 1..n : q[i] = launchAnswer[i]
      /\ posix => DOMAIN q = 1..(n + 2) /\ q[n + 1] = "commonDir" /\ q[n + 2] = "baseDir"
      /\ ~posix => DOMAIN q = 1..(n + 1) /\ q[n + 1] = "baseDir"
  BY AnsweredAt
<1>2. /\ \A c \in DOMAIN q : q[c] \in sought /\ (\A b \in 1..(c - 1) : q[b] \notin sought)
           => Starting!Find(program) = q[c]
      /\ (\A c \in DOMAIN q : q[c] \notin sought) => Starting!Find(program) = None
  BY <1>1, FoundIsFirst
<1> DEFINE inCommon == posix /\ "commonDir" \in sought
           inBase == "baseDir" \in sought
<1>3. Starting!AsInTerminal(program) =
        CASE places # {} -> launchAnswer[CHOOSE i \in places : \A j \in places : i <= j]
          [] places = {} /\ inCommon -> "commonDir"
          [] places = {} /\ inBase /\ ~inCommon -> "baseDir"
          [] OTHER -> None
  BY Zenon DEF Starting!AsInTerminal
<1>4. places \subseteq Nat /\ \A i \in 1..n : i \in places <=> q[i] \in sought
  BY <1>1
<1>5. CASE places # {}
  <2> HIDE DEF places
  <2>1. PICK m \in places : \A k \in places : m <= k
    BY <1>4, <1>5, HasLeast
  <2>2. (CHOOSE i \in places : \A j \in places : i <= j) = m
    BY <1>4, <2>1, LeastChosen
  <2>3. Starting!AsInTerminal(program) = launchAnswer[m]
    BY <1>3, <1>5, <2>2
  <2>4. m \in 1..n /\ m \in DOMAIN q
    BY <1>1, <2>1 DEF places
  <2>5. q[m] \in sought /\ \A b \in 1..(m - 1) : q[b] \notin sought
    BY <1>1, <1>4, <2>1, <2>4
  <2> HIDE DEF q, sought
  <2> QED
    BY <1>1, <1>2, <2>3, <2>4, <2>5
<1>6. CASE places = {}
  <2>1. \A i \in 1..n : q[i] \notin sought
    BY <1>4, <1>6
  <2> HIDE DEF places
  <2>2. CASE inCommon
    <3>1. Starting!AsInTerminal(program) = "commonDir"
      BY <1>3, <1>6, <2>2
    <3>2. n + 1 \in DOMAIN q /\ q[n + 1] = "commonDir" /\ 1..((n + 1) - 1) = 1..n
      BY <1>1, <2>2
    <3> HIDE DEF q
    <3> QED
      BY <1>2, <2>1, <2>2, <3>1, <3>2
  <2>3. CASE ~inCommon /\ inBase
    <3>1. Starting!AsInTerminal(program) = "baseDir"
      BY <1>3, <1>6, <2>3
    <3> DEFINE c == IF posix THEN n + 2 ELSE n + 1
    <3>2. c \in DOMAIN q /\ q[c] = "baseDir"
      BY <1>1
    <3>3. \A b \in 1..(c - 1) : b \in 1..n \/ (posix /\ b = n + 1)
      BY <1>1
    <3>4. \A b \in 1..(c - 1) : q[b] \notin sought
      BY <1>1, <2>1, <2>3, <3>3
    <3> HIDE DEF q, c
    <3> QED
      BY <1>2, <2>3, <3>1, <3>2, <3>4
  <2>4. CASE ~inCommon /\ ~inBase
    <3>1. Starting!AsInTerminal(program) = None
      BY <1>3, <1>6, <2>4
    <3>2. \A c \in DOMAIN q : c \in 1..n \/ (posix /\ c = n + 1) \/ q[c] = "baseDir"
      BY <1>1
    <3>3. \A c \in DOMAIN q : q[c] \notin sought
      BY <1>1, <2>1, <2>4, <3>2
    <3> HIDE DEF q
    <3> QED
      BY <1>2, <3>1, <3>3
  <2> QED
    BY <2>2, <2>3, <2>4
<1> QED
  BY <1>5, <1>6

-----------------------------------------------------------------------------
(* The launches, and what each came to.                                             *)

Orders ==
  [id : Nat, by : {"tray", "window", "resume", "model"}, harness : DOMAIN Starting!Harness,
   route : {"direct", "proxied"}, cwd : {"", "folder"}, at : {"path", "list"}]

\* The shell is asked once; the path is what was inherited until it answers, and a launch from
\* the tray or the window has waited for that.
LaunchInv ==
  /\ probe \in {"none", "running", "done"} /\ pathProbes = (IF probe = "none" THEN 0 ELSE 1)
  /\ probe # "done" => searchPath = <<"baseDir">>
  /\ probe = "done" => launchAnswer \in Seq(Starting!Dirs) /\ searchPath = Starting!KeepFirst(Answered)
  /\ launching \subseteq Orders /\ started \in Nat
  /\ \A l \in launching : l.at = "list" /\ l.by \in {"tray", "window"} => probe = "done"
  /\ \A r \in results : r.probe = "done" => probe = "done"
  /\ Starting!LaunchesAsInTerminal /\ Starting!RoutedAsAsked

LEMMA LaunchInvSound == LaunchInv => Starting!LaunchesAreSound
<1> SUFFICES ASSUME LaunchInv PROVE Starting!LaunchesAreSound
  OBVIOUS
<1>1. pathProbes <= 1
  BY DEF LaunchInv
<1>2. \A a, b \in DOMAIN searchPath : searchPath[a] = searchPath[b] => a = b
  <2>1. CASE probe = "done"
    <3>1. Answered \in Seq(Starting!Dirs)
      BY <2>1, AnsweredAt DEF LaunchInv
    <3>2. KeptOf(Starting!KeepFirst(Answered), Answered, Len(Answered), {})
      BY <3>1, KeepFirstKeeps
    <3> QED
      BY <2>1, <3>2 DEF LaunchInv, KeptOf
  <2>2. CASE probe # "done"
    <3> DEFINE p == <<"baseDir">>
    <3>1. DOMAIN p = {1}
      OBVIOUS
    <3>2. searchPath = p
      BY <2>2 DEF LaunchInv
    <3> HIDE DEF p
    <3> QED
      BY <3>1, <3>2
  <2> QED
    BY <2>1, <2>2
<1>3. Starting!OneProbe
  BY <1>1, <1>2 DEF Starting!OneProbe, Starting!IsInjective
<1> QED
  BY <1>3 DEF LaunchInv, Starting!LaunchesAreSound

LEMMA LaunchInvInit == Starting!LaunchesInit => LaunchInv
BY DEF Starting!LaunchesInit, LaunchInv, Starting!LaunchesAsInTerminal, Starting!RoutedAsAsked

(* What the user's terminal runs depends on the shell's answer and on what is installed.         *)
LEMMA TerminalStays ==
  ASSUME UNCHANGED <<posix, installed, launchAnswer>>, NEW program
  PROVE  Starting!AsInTerminal(program)' = Starting!AsInTerminal(program)
BY DEF Starting!AsInTerminal

(* The steps after which the answer and the path are what they were.                         *)
LEMMA LaunchStays ==
  ASSUME LaunchInv, UNCHANGED <<posix, installed, launchAnswer, searchPath, results>>,
         probe' \in {"none", "running", "done"}, pathProbes' = (IF probe' = "none" THEN 0 ELSE 1),
         probe' = "done" <=> probe = "done",
         launching' \subseteq Orders, started' \in Nat,
         \A l \in launching' : l.at = "list" /\ l.by \in {"tray", "window"} => probe = "done"
  PROVE  LaunchInv'
<1>1. Answered' = Answered
  BY DEF Answered, Starting!Common
<1>2. probe' # "done" => searchPath' = <<"baseDir">>
  BY DEF LaunchInv
<1>3. probe' = "done" => launchAnswer' \in Seq(Starting!Dirs) /\ searchPath' = Starting!KeepFirst(Answered')
  BY <1>1 DEF LaunchInv
<1>4. Starting!LaunchesAsInTerminal'
  <2> SUFFICES ASSUME NEW r \in results, r.by \in {"tray", "window"}
               PROVE  /\ r.probe = "done"
                      /\ r.dir = Starting!AsInTerminal(IF Starting!Harness[r.harness].acp = "shim" THEN "claude-agent-acp"
                                                     ELSE Starting!Harness[r.harness].command)'
    BY DEF Starting!LaunchesAsInTerminal, Starting!Harness
  <2> DEFINE program == IF Starting!Harness[r.harness].acp = "shim" THEN "claude-agent-acp"
                                                     ELSE Starting!Harness[r.harness].command
  <2>1. r.probe = "done" /\ r.dir = Starting!AsInTerminal(program)
    BY DEF LaunchInv, Starting!LaunchesAsInTerminal
  <2>2. Starting!AsInTerminal(program)' = Starting!AsInTerminal(program)
    BY TerminalStays
  <2> QED
    BY <2>1, <2>2
<1>5. Starting!RoutedAsAsked'
  <2>1. Starting!AsInTerminal("claude-agent-acp")' = Starting!AsInTerminal("claude-agent-acp")
    BY TerminalStays
  <2> QED
    BY <2>1 DEF LaunchInv, Starting!RoutedAsAsked, Starting!Harness
<1>6. \A r \in results' : r.probe = "done" => probe' = "done"
  BY DEF LaunchInv
<1> QED
  BY <1>2, <1>3, <1>4, <1>5, <1>6 DEF LaunchInv

LEMMA LaunchShellAnswers == LaunchInv /\ Starting!ShellAnswers => LaunchInv'
<1> SUFFICES ASSUME LaunchInv, Starting!ShellAnswers PROVE LaunchInv'
  OBVIOUS
<1>1. /\ probe = "running" /\ probe' = "done"
      /\ UNCHANGED <<posix, installed, demo, pathProbes, menu, mounting, launching, results, started>>
  BY DEF Starting!ShellAnswers, Starting!keepTray
<1>2. PICK printed \in Starting!SeqOf(Starting!Dirs, MaxEntries) :
        launchAnswer' = printed /\ searchPath' = Starting!ResolveGuiPath(printed)
  BY DEF Starting!ShellAnswers
<1>3. printed \in Seq(Starting!Dirs)
  <2>1. PICK m \in 0..MaxEntries : printed \in [1..m -> Starting!Dirs]
    BY DEF Starting!SeqOf
  <2> QED
    BY <2>1
<1>4. searchPath = <<"baseDir">>
  BY <1>1 DEF LaunchInv
<1>5. searchPath' = Starting!KeepFirst((printed \o Starting!Common) \o <<"baseDir">>)
  BY <1>2, <1>4 DEF Starting!ResolveGuiPath, Starting!MergePathEntries
<1>6. Answered' = (printed \o Starting!Common) \o <<"baseDir">>
  BY <1>1, <1>2 DEF Answered, Starting!Common
<1>7. \A r \in results : r.probe # "done"
  BY <1>1 DEF LaunchInv
<1>8. \A r \in results : r.by \notin {"tray", "window"}
  BY <1>7 DEF LaunchInv, Starting!LaunchesAsInTerminal
<1>9. Starting!LaunchesAsInTerminal' /\ Starting!RoutedAsAsked'
  BY <1>1, <1>7, <1>8 DEF LaunchInv, Starting!LaunchesAsInTerminal, Starting!RoutedAsAsked, Starting!Harness
<1> QED
  BY <1>1, <1>2, <1>3, <1>5, <1>6, <1>9 DEF LaunchInv

(* A shell is started for whoever comes first, and for nobody else.                           *)
LEMMA ShellOnce ==
  ASSUME LaunchInv, Starting!EnrichGuiPath
  PROVE  /\ probe' \in {"none", "running", "done"} /\ pathProbes' = (IF probe' = "none" THEN 0 ELSE 1)
         /\ probe' = "done" <=> probe = "done"
BY DEF LaunchInv, Starting!EnrichGuiPath

LEMMA LaunchBegins ==
  ASSUME LaunchInv, NEW l \in Orders, Starting!Begins(l), l.at = "list" => l.by \notin {"tray", "window"}
  PROVE  /\ launching' \subseteq Orders /\ started' \in Nat
         /\ \A k \in launching' : k.at = "list" /\ k.by \in {"tray", "window"} => probe = "done"
<1>1. started' = started + 1 /\ launching' = launching \cup {[l EXCEPT !.id = started + 1]} /\ started \in Nat
  BY DEF LaunchInv, Starting!Begins
<1> DEFINE n == started + 1
           k == [l EXCEPT !.id = n]
<1>2. k \in Orders /\ k.at = l.at /\ k.by = l.by
  <2>1. n \in Nat
    BY <1>1
  <2> HIDE DEF n
  <2> QED
    BY <2>1 DEF Orders
<1> HIDE DEF k
<1>3. launching' = launching \cup {k}
  BY <1>1 DEF k
<1> QED
  BY <1>1, <1>2, <1>3 DEF LaunchInv

(* The launches that are asked for.                                                  *)
LEMMA LaunchOrdered ==
  ASSUME LaunchInv, NEW h \in DOMAIN Starting!Harness, NEW way \in {"direct", "proxied"}, NEW cwd \in {"", "folder"},
         Starting!TrayLaunches(h) \/ Starting!WindowLaunches(h, way, cwd)
           \/ Starting!Resumes(h, way) \/ Starting!ChangesModel(h)
  PROVE  LaunchInv'
<1>1. CASE Starting!TrayLaunches(h)
  <2> DEFINE l == Starting!Order("tray", h, "direct", "", "path")
  <2>1. l \in Orders /\ l.at = "path"
    BY DEF Starting!Order, Orders
  <2>2. Starting!EnrichGuiPath /\ Starting!Begins(l) /\ UNCHANGED <<posix, installed, launchAnswer, searchPath, results>>
    BY <1>1 DEF Starting!TrayLaunches
  <2> HIDE DEF l
  <2> QED
    BY <2>1, <2>2, ShellOnce, LaunchBegins, LaunchStays
<1>2. CASE Starting!WindowLaunches(h, way, cwd)
  <2> DEFINE l == Starting!Order("window", h, way, cwd, "path")
  <2>1. l \in Orders /\ l.at = "path"
    BY DEF Starting!Order, Orders
  <2>2. Starting!EnrichGuiPath /\ Starting!Begins(l) /\ UNCHANGED <<posix, installed, launchAnswer, searchPath, results>>
    BY <1>2 DEF Starting!WindowLaunches
  <2> HIDE DEF l
  <2> QED
    BY <2>1, <2>2, ShellOnce, LaunchBegins, LaunchStays
<1>3. CASE Starting!Resumes(h, way)
  <2> DEFINE l == Starting!Order("resume", h, way, "folder", "list")
  <2>1. l \in Orders /\ l.by = "resume"
    BY DEF Starting!Order, Orders
  <2>2. Starting!Begins(l) /\ UNCHANGED <<posix, installed, launchAnswer, probe, pathProbes, searchPath, results>>
    BY <1>3 DEF Starting!Resumes, Starting!keepPath
  <2>3. probe' \in {"none", "running", "done"} /\ pathProbes' = (IF probe' = "none" THEN 0 ELSE 1)
    BY <2>2 DEF LaunchInv
  <2> HIDE DEF l
  <2> QED
    BY <2>1, <2>2, <2>3, LaunchBegins, LaunchStays
<1>4. CASE Starting!ChangesModel(h)
  <2> DEFINE l == Starting!Order("model", h, "proxied", "folder", "list")
  <2>1. l \in Orders /\ l.by = "model"
    BY DEF Starting!Order, Orders
  <2>2. Starting!Begins(l) /\ UNCHANGED <<posix, installed, launchAnswer, probe, pathProbes, searchPath, results>>
    BY <1>4 DEF Starting!ChangesModel, Starting!keepPath
  <2>3. probe' \in {"none", "running", "done"} /\ pathProbes' = (IF probe' = "none" THEN 0 ELSE 1)
    BY <2>2 DEF LaunchInv
  <2> HIDE DEF l
  <2> QED
    BY <2>1, <2>2, <2>3, LaunchBegins, LaunchStays
<1> QED
  BY <1>1, <1>2, <1>3, <1>4

LEMMA LaunchAwaited ==
  ASSUME LaunchInv, NEW l \in launching, Starting!PathAwaited(l)
  PROVE  LaunchInv'
<1> DEFINE k == [l EXCEPT !.at = "list"]
<1>1. /\ probe = "done" /\ launching' = (launching \ {l}) \cup {k}
      /\ UNCHANGED <<posix, installed, launchAnswer, probe, pathProbes, searchPath, results, started>>
  BY DEF Starting!PathAwaited, Starting!keepPath
<1>2. k \in Orders
  BY DEF LaunchInv, Orders
<1> HIDE DEF k
<1>3. launching' \subseteq Orders /\ started' \in Nat /\ probe' \in {"none", "running", "done"}
      /\ pathProbes' = (IF probe' = "none" THEN 0 ELSE 1)
  BY <1>1, <1>2 DEF LaunchInv
<1> QED
  BY <1>1, <1>3, LaunchStays

(* The result of a launch.                                                     *)
LEMMA LaunchTold ==
  ASSUME LaunchInv, NEW l \in launching, Starting!Launch(l)
  PROVE  LaunchInv'
<1> DEFINE r0 == Starting!Resolved(l)
           dir == Starting!Find(Starting!Command(l))
<1>1. /\ l.at = "list" /\ launching' = launching \ {l}
      /\ UNCHANGED <<posix, installed, launchAnswer, probe, pathProbes, searchPath, started>>
  BY DEF Starting!Launch, Starting!keepPath
<1>2. PICK end : results' = results \cup {[r0 EXCEPT !.end = end]}
  BY DEF Starting!Launch
<1> DEFINE r == [r0 EXCEPT !.end = end]
<1>3. /\ r.by = l.by /\ r.harness = l.harness /\ r.route = l.route /\ r.probe = probe /\ r.dir = dir
      /\ r.env = IF dir = None THEN "none" ELSE Starting!Rendered(l)
  BY DEF Starting!Resolved
<1>4. results' = results \cup {r}
  BY <1>2
<1>5. l \in Orders /\ (l.by \in {"tray", "window"} => probe = "done")
  BY <1>1 DEF LaunchInv
<1> HIDE DEF r, r0
<1>6. \A program : Starting!AsInTerminal(program)' = Starting!AsInTerminal(program)
  BY <1>1, TerminalStays
<1>7. probe = "done" => dir = Starting!AsInTerminal(Starting!Command(l))
  BY FoundAsInTerminal DEF LaunchInv
<1> HIDE DEF dir
<1>8. /\ l.by # "model" => Starting!Command(l) = IF Starting!Harness[l.harness].acp = "shim" THEN "claude-agent-acp"
                                              ELSE Starting!Harness[l.harness].command
  BY DEF Starting!Command
<1>9. Starting!LaunchesAsInTerminal'
  <2> SUFFICES ASSUME NEW x \in results', x.by \in {"tray", "window"}
               PROVE  /\ x.probe = "done"
                      /\ x.dir = Starting!AsInTerminal(IF Starting!Harness[x.harness].acp = "shim" THEN "claude-agent-acp"
                                                     ELSE Starting!Harness[x.harness].command)'
    BY DEF Starting!LaunchesAsInTerminal, Starting!Harness
  <2>1. CASE x \in results
    BY <1>6, <2>1 DEF LaunchInv, Starting!LaunchesAsInTerminal
  <2>2. CASE x = r
    BY <1>3, <1>5, <1>6, <1>7, <1>8, <2>2
  <2> QED
    BY <1>4, <2>1, <2>2
<1>10. Starting!RoutedAsAsked'
  <2>1. \A x \in results' : x.by # "model" /\ x.dir # None =>
          (x.env = "proxyEnv") = (x.route = "proxied" /\ Starting!Harness[x.harness].rendersEnv)
    <3> SUFFICES ASSUME NEW x \in results', x.by # "model" /\ x.dir # None
                 PROVE  (x.env = "proxyEnv") = (x.route = "proxied" /\ Starting!Harness[x.harness].rendersEnv)
      OBVIOUS
    <3>1. CASE x \in results
      BY <3>1 DEF LaunchInv, Starting!RoutedAsAsked
    <3>2. CASE x = r
      BY <1>3, <3>2 DEF Starting!Rendered
    <3> QED
      BY <1>4, <3>1, <3>2
  <2>2. \A x \in results' : x.by # "model" /\ x.probe = "done" /\ Starting!Harness[x.harness].acp = "shim"
          /\ Starting!AsInTerminal("claude-agent-acp") # None => x.dir # None
    <3> SUFFICES ASSUME NEW x \in results', x.by # "model", x.probe = "done",
                        Starting!Harness[x.harness].acp = "shim", Starting!AsInTerminal("claude-agent-acp") # None
                 PROVE  x.dir # None
      OBVIOUS
    <3>1. CASE x \in results
      BY <3>1 DEF LaunchInv, Starting!RoutedAsAsked
    <3>2. CASE x = r
      BY <1>3, <1>7, <1>8, <3>2
    <3> QED
      BY <1>4, <3>1, <3>2
  <2> QED
    BY <1>6, <2>1, <2>2 DEF Starting!RoutedAsAsked, Starting!Harness
<1>11. \A x \in results' : x.probe = "done" => probe = "done"
  BY <1>3, <1>4 DEF LaunchInv
<1>12. Answered' = Answered
  BY <1>1 DEF Answered, Starting!Common
<1>13. /\ probe' \in {"none", "running", "done"} /\ pathProbes' = (IF probe' = "none" THEN 0 ELSE 1)
       /\ probe' # "done" => searchPath' = <<"baseDir">>
       /\ probe' = "done" => launchAnswer' \in Seq(Starting!Dirs) /\ searchPath' = Starting!KeepFirst(Answered')
       /\ launching' \subseteq Orders /\ started' \in Nat
       /\ \A k \in launching' : k.at = "list" /\ k.by \in {"tray", "window"} => probe' = "done"
  BY <1>1, <1>12 DEF LaunchInv
<1> QED
  BY <1>1, <1>9, <1>10, <1>11, <1>13 DEF LaunchInv

(* The invariant is kept by every step.                                              *)
LEMMA LaunchInvInductive == LaunchInv /\ [Starting!LaunchesNext]_launchVars => LaunchInv'
<1> SUFFICES ASSUME LaunchInv, [Starting!LaunchesNext]_launchVars PROVE LaunchInv'
  OBVIOUS
<1> DEFINE Path == <<posix, installed, launchAnswer, searchPath, results, launching, started>>
<1>1. ASSUME UNCHANGED Path, probe' \in {"none", "running", "done"}, pathProbes' = (IF probe' = "none" THEN 0 ELSE 1),
             probe' = "done" <=> probe = "done"
      PROVE  LaunchInv'
  <2>1. launching' \subseteq Orders /\ started' \in Nat
        /\ \A l \in launching' : l.at = "list" /\ l.by \in {"tray", "window"} => probe = "done"
    BY <1>1 DEF LaunchInv
  <2> QED
    BY <1>1, <2>1, LaunchStays
<1>2. CASE UNCHANGED launchVars
  <2>1. UNCHANGED <<Path, probe, pathProbes>>
    BY <1>2 DEF launchVars
  <2>2. probe' \in {"none", "running", "done"} /\ pathProbes' = (IF probe' = "none" THEN 0 ELSE 1)
    BY <2>1 DEF LaunchInv
  <2> QED
    BY <1>1, <2>1, <2>2
<1>3. CASE Starting!StartProxy
  <2>1. UNCHANGED Path /\ Starting!EnrichGuiPath
    BY <1>3 DEF Starting!StartProxy
  <2> QED
    BY <1>1, <2>1, ShellOnce
<1>4. CASE Starting!MountTray \/ Starting!TrayShown
  <2>1. UNCHANGED <<Path, probe, pathProbes>>
    BY <1>4 DEF Starting!MountTray, Starting!TrayShown, Starting!keepPath
  <2>2. probe' \in {"none", "running", "done"} /\ pathProbes' = (IF probe' = "none" THEN 0 ELSE 1)
    BY <2>1 DEF LaunchInv
  <2> QED
    BY <1>1, <2>1, <2>2
<1>5. CASE Starting!ShellAnswers
  BY <1>5, LaunchShellAnswers
<1>6. CASE \E h \in DOMAIN Starting!Harness : \/ Starting!TrayLaunches(h) \/ Starting!ChangesModel(h)
                               \/ \E r \in {"direct", "proxied"} :
                                    Starting!Resumes(h, r) \/ \E c \in {"", "folder"} : Starting!WindowLaunches(h, r, c)
  BY <1>6, LaunchOrdered
<1>7. CASE \E l \in launching : Starting!PathAwaited(l) \/ Starting!Launch(l)
  BY <1>7, LaunchAwaited, LaunchTold
<1> QED
  BY <1>2, <1>3, <1>4, <1>5, <1>6, <1>7 DEF Starting!LaunchesNext

-----------------------------------------------------------------------------
(***************************************************************************)
(* What the settings pages ask of providers.                                   *)
(***************************************************************************)

Tests == [n : Nat, of : Nat, step : {"discover", "test"}, overtaken : BOOLEAN]
Verdicts == [of : Nat, ok : BOOLEAN, overtaken : BOOLEAN]
Lists == [of : Sources \cup {None}, loading : BOOLEAN, error : BOOLEAN]
Fetching == [by : Probing!Subscribers, n : Nat, of : Sources]
Forms == [of : Sources, picked : BOOLEAN, takes : SUBSET {"image", "pdf"},
          early : BOOLEAN, auto : BOOLEAN]

(* A test is of the draft there is, or knows that it was overtaken.                 *)
DraftTyped ==
  /\ draft \in Nat /\ probes \subseteq Tests
  /\ discovering \in BOOLEAN /\ testing \in BOOLEAN
  /\ verdict \in Verdicts \cup {None} /\ attempted \in Nat
TestsKnowTheDraft == \A p \in probes : p.of = draft \/ p.overtaken
DraftInv == DraftTyped /\ TestsKnowTheDraft /\ Probing!VerdictIsOfDraft

(* The latest fetch of each list is of the provider in the form, and no other counts;     *)
(* what the form says the model receives is what will be saved.                      *)
FormTyped ==
  /\ form \in Forms \cup {None} /\ saved \subseteq Forms
  /\ asks \subseteq Fetching /\ fetched \in [Probing!Subscribers -> Nat]
  /\ lists \in [Probing!Subscribers -> Lists]
FetchesAreOfTheForm ==
  \A a \in asks :
    /\ a.n <= fetched[a.by]
    /\ form # None /\ a.n = fetched[a.by] => a.of = form.of
FormIsTheModels ==
  form # None /\ form.picked /\ form.auto /\ ~form.early
    => form.takes = Probing!Receives(form.of)
SavedArePicked == \A r \in saved : r.picked
FormInv ==
  /\ FormTyped
  /\ FetchesAreOfTheForm
  /\ FormIsTheModels
  /\ SavedArePicked
  /\ Probing!ListIsOfSource
  /\ Probing!CapabilitiesAreTheModels

ProbesInv == DraftInv /\ FormInv /\ descriptor \in Probing!Descriptors

(* The invariant holds at the start.                                          *)
LEMMA ProbesInvInit == Probing!ProbesInit => ProbesInv
<1> SUFFICES ASSUME Probing!ProbesInit PROVE ProbesInv
  OBVIOUS
<1> USE DEF Probing!ProbesInit
<1>1. Probing!NoList \in Lists
  BY DEF Probing!NoList, Lists
<1>2. FormTyped
  BY <1>1 DEF FormTyped
<1>3. DraftInv
  BY DEF DraftInv, DraftTyped, TestsKnowTheDraft, Probing!VerdictIsOfDraft
<1>4. FormInv
  BY <1>2 DEF FormInv, FetchesAreOfTheForm, FormIsTheModels, SavedArePicked,
     Probing!ListIsOfSource, Probing!CapabilitiesAreTheModels
<1> QED
  BY <1>3, <1>4 DEF ProbesInv

(* What the pages promise follows.                                             *)
LEMMA ProbesInvSound == ProbesInv => Probing!ProbesAreSound
<1>1. descriptor \in Probing!Descriptors => Probing!ExtensionsAskedLocally
  BY DEF Probing!ExtensionsAskedLocally, Probing!Reached, Probing!Base
<1> QED
  BY <1>1 DEF ProbesInv, DraftInv, FormInv, Probing!ProbesAreSound

(* Both lists are asked for of the provider the form now has.                        *)
LEMMA FetchesKeep ==
  ASSUME FormInv, NEW f \in Forms, form' = f,
         Probing!Fetches(Probing!Subscribers, f.of)
  PROVE  /\ asks' \subseteq Fetching /\ fetched' \in [Probing!Subscribers -> Nat]
         /\ lists' \in [Probing!Subscribers -> Lists]
         /\ FetchesAreOfTheForm' /\ Probing!ListIsOfSource'
<1> DEFINE ask(s) == [by |-> s, n |-> fetched[s] + 1, of |-> f.of]
<1>1. f # None /\ f.of \in Sources
  BY DesktopAssumption DEF Forms
<1>2. /\ fetched' = [s \in Probing!Subscribers |-> fetched[s] + 1]
      /\ lists' = [s \in Probing!Subscribers |-> [lists[s] EXCEPT !.loading = TRUE]]
      /\ asks' = asks \cup {ask(s) : s \in Probing!Subscribers}
  BY DEF Probing!Fetches
<1>3. \A s \in Probing!Subscribers : fetched[s] \in Nat /\ lists[s] \in Lists
  BY DEF FormInv, FormTyped
<1>4. /\ fetched' \in [Probing!Subscribers -> Nat]
      /\ \A s \in Probing!Subscribers : fetched'[s] = fetched[s] + 1
  BY <1>2, <1>3
<1>5. \A s \in Probing!Subscribers : lists'[s] \in Lists /\ lists'[s].loading
  BY <1>2, <1>3 DEF Lists
<1>6. lists' \in [Probing!Subscribers -> Lists]
  BY <1>2, <1>5
<1>7. \A s \in Probing!Subscribers :
        ask(s) \in Fetching /\ ask(s).n = fetched'[ask(s).by] /\ ask(s).of = f.of
  BY <1>1, <1>3, <1>4 DEF Fetching
<1> HIDE DEF ask
<1>8. \A a \in asks' : a \in asks \/ \E s \in Probing!Subscribers : a = ask(s)
  BY <1>2
<1>9. \A a \in asks : /\ a \in Fetching /\ a.by \in Probing!Subscribers /\ a.n \in Nat
                      /\ a.n < fetched'[a.by]
  BY <1>3, <1>4 DEF FormInv, FormTyped, Fetching, FetchesAreOfTheForm
<1>10. asks' \subseteq Fetching
  BY <1>7, <1>8, <1>9
<1>11. FetchesAreOfTheForm'
  <2> SUFFICES ASSUME NEW a \in asks'
               PROVE  /\ a.n <= fetched'[a.by]
                      /\ form' # None /\ a.n = fetched'[a.by] => a.of = form'.of
    BY DEF FetchesAreOfTheForm
  <2>1. CASE a \in asks
    BY <1>4, <1>9, <2>1
  <2>2. ASSUME NEW s \in Probing!Subscribers, a = ask(s)
        PROVE  a.n = fetched'[a.by] /\ a.of = form'.of /\ a.n \in Nat
    BY <1>7, <2>2 DEF Fetching
  <2> QED
    BY <1>8, <2>1, <2>2
<1>12. Probing!ListIsOfSource'
  BY <1>5 DEF Probing!ListIsOfSource, Probing!Settled
<1> QED
  BY <1>4, <1>6, <1>10, <1>11, <1>12

(* When the form goes, what was asked for no longer counts.                          *)
LEMMA ForgettingKeeps ==
  ASSUME FormInv, form' = None,
         fetched' = [s \in Probing!Subscribers |-> fetched[s] + 1],
         lists' = [s \in Probing!Subscribers |-> Probing!NoList], UNCHANGED asks
  PROVE  /\ asks' \subseteq Fetching /\ fetched' \in [Probing!Subscribers -> Nat]
         /\ lists' \in [Probing!Subscribers -> Lists]
         /\ FetchesAreOfTheForm' /\ Probing!ListIsOfSource' /\ FormIsTheModels'
<1>1. /\ fetched' \in [Probing!Subscribers -> Nat]
      /\ \A s \in Probing!Subscribers : fetched[s] \in Nat /\ fetched'[s] = fetched[s] + 1
  BY DEF FormInv, FormTyped
<1>2. lists' \in [Probing!Subscribers -> Lists]
  BY DEF Probing!NoList, Lists
<1>3. \A a \in asks : a.by \in Probing!Subscribers /\ a.n \in Nat
  BY DEF FormInv, FormTyped, Fetching
<1>4. FetchesAreOfTheForm'
  BY <1>1, <1>3 DEF FormInv, FetchesAreOfTheForm
<1>5. asks' \subseteq Fetching
  BY DEF FormInv, FormTyped
<1> QED
  BY <1>1, <1>2, <1>4, <1>5 DEF Probing!ListIsOfSource, FormIsTheModels

(* A form on a provider without a model.                                         *)
LEMMA BlankIsForm ==
  ASSUME NEW s \in Sources
  PROVE  /\ Probing!Blank(s) \in Forms /\ Probing!Blank(s).of = s
         /\ ~Probing!Blank(s).picked
BY DEF Probing!Blank, Forms

(* What a model receives depends on how its provider is reached alone.                  *)
LEMMA ReceivesStays ==
  ASSUME UNCHANGED descriptor
  PROVE  \A s : Probing!Receives(s)' = Probing!Receives(s)
BY DEF Probing!Receives, Probing!Said, Probing!Guessed

(* The steps of the providers page.                                             *)
LEMMA DraftKeeps ==
  ASSUME DraftInv,
         \/ Probing!EditsDraft \/ Probing!TestsConnection
         \/ \E p \in probes : Probing!Discovers(p) \/ Probing!Pings(p)
  PROVE  DraftInv'
<1> USE DEF DraftInv, DraftTyped, TestsKnowTheDraft, Probing!VerdictIsOfDraft
<1>1. CASE Probing!EditsDraft
  <2> DEFINE older(p) == [p EXCEPT !.overtaken = TRUE]
  <2>1. \A p \in probes : older(p) \in Tests /\ older(p).overtaken
    BY DEF Tests
  <2>2. probes' = {older(p) : p \in probes}
    BY <1>1 DEF Probing!EditsDraft
  <2>3. /\ draft' = draft + 1 /\ verdict' = None /\ discovering' = FALSE
        /\ testing' = FALSE /\ UNCHANGED attempted
    BY <1>1 DEF Probing!EditsDraft, Probing!Forgets
  <2> HIDE DEF older
  <2>4. \A p \in probes' : p \in Tests /\ p.overtaken
    BY <2>1, <2>2
  <2>5. DraftTyped'
    <3>1. draft' \in Nat /\ probes' \subseteq Tests /\ attempted' \in Nat
      BY <2>3, <2>4
    <3>2. verdict' \in Verdicts \cup {None}
      BY <2>3
    <3>3. discovering' \in BOOLEAN /\ testing' \in BOOLEAN
      BY <2>3
    <3> QED
      BY <3>1, <3>2, <3>3
  <2>6. TestsKnowTheDraft' /\ Probing!VerdictIsOfDraft'
    BY <2>3, <2>4
  <2> QED
    BY <2>5, <2>6
<1>2. CASE Probing!TestsConnection
  <2> DEFINE new == [n |-> attempted + 1, of |-> draft, step |-> "discover",
                     overtaken |-> FALSE]
  <2>1. new \in Tests /\ new.of = draft /\ new.step = "discover"
    BY DEF Tests
  <2>2. probes' = probes \cup {new}
    BY <1>2 DEF Probing!TestsConnection
  <2> HIDE DEF new
  <2> QED
    BY <1>2, <2>1, <2>2 DEF Probing!TestsConnection
<1>3. ASSUME NEW p \in probes, Probing!Discovers(p)
      PROVE  DraftInv'
  <2> DEFINE next == [p EXCEPT !.step = "test"]
  <2>1. /\ next \in Tests /\ next.of = p.of /\ next.overtaken = p.overtaken
        /\ next.step = "test"
    BY DEF Tests
  <2>2. probes' = (probes \ {p}) \cup {next}
    BY <1>3 DEF Probing!Discovers
  <2> HIDE DEF next
  <2> QED
    BY <1>3, <2>1, <2>2 DEF Probing!Discovers
<1>4. ASSUME NEW p \in probes, Probing!Pings(p)
      PROVE  DraftInv'
  <2>1. PICK ok \in BOOLEAN : verdict' = [of |-> p.of, ok |-> ok, overtaken |-> p.overtaken]
    BY <1>4 DEF Probing!Pings
  <2>2. /\ verdict' \in Verdicts /\ verdict'.of = p.of /\ verdict'.overtaken = p.overtaken
    BY <2>1 DEF Verdicts, Tests
  <2> QED
    BY <1>4, <2>2 DEF Probing!Pings
<1> QED
  BY <1>1, <1>2, <1>3, <1>4

(* A form that is opened, or whose provider is changed, is blank.                        *)
LEMMA BlanksKeep ==
  ASSUME FormInv, NEW s \in Sources, form' = Probing!Blank(s),
         Probing!Fetches(Probing!Subscribers, s), UNCHANGED <<saved, descriptor>>
  PROVE  FormInv'
<1>1. /\ asks' \subseteq Fetching /\ fetched' \in [Probing!Subscribers -> Nat]
      /\ lists' \in [Probing!Subscribers -> Lists]
      /\ FetchesAreOfTheForm' /\ Probing!ListIsOfSource'
  BY BlankIsForm, FetchesKeep
<1>2. FormTyped' /\ FormIsTheModels' /\ SavedArePicked'
  BY <1>1, BlankIsForm DEF FormInv, FormTyped, FormIsTheModels, SavedArePicked
<1>3. Probing!CapabilitiesAreTheModels'
  BY ReceivesStays DEF FormInv, Probing!CapabilitiesAreTheModels
<1> QED
  BY <1>1, <1>2, <1>3 DEF FormInv

(* A model is picked: what it receives is what the settled list of its provider says.       *)
LEMMA PicksRouteKeeps ==
  ASSUME FormInv, Probing!PicksRoute
  PROVE  FormInv'
<1>1. /\ form \in Forms /\ form # None
      /\ UNCHANGED <<asks, fetched, lists, saved, descriptor>>
  BY DEF Probing!PicksRoute, FormInv, FormTyped
<1>2. Probing!Receives(lists["page"].of) \subseteq {"image", "pdf"}
  BY DEF Probing!Receives, Probing!Said, Probing!Guessed
<1>3. "page" \in Probing!Subscribers
  BY DEF Probing!Subscribers
<1>4. /\ form' \in Forms /\ form'.of = form.of /\ form'.auto = form.auto
      /\ form'.auto => /\ form'.takes = Probing!Receives(lists["page"].of)
                       /\ form'.early = ~Probing!Settled("page")
  <2> DEFINE auto == [form EXCEPT !.picked = TRUE, !.takes = Probing!Receives(lists["page"].of),
                                  !.early = ~Probing!Settled("page")]
             own == [form EXCEPT !.picked = TRUE]
  <2>1. /\ auto \in Forms /\ auto.of = form.of /\ auto.auto = form.auto
        /\ auto.takes = Probing!Receives(lists["page"].of)
        /\ auto.early = ~Probing!Settled("page")
    <3>1. Probing!Settled("page") \in BOOLEAN
      BY DEF Probing!Settled
    <3> QED
      BY <1>1, <1>2, <3>1 DEF Forms
  <2>2. own \in Forms /\ own.of = form.of /\ own.auto = form.auto
    BY <1>1 DEF Forms
  <2>3. form' = IF form.auto THEN auto ELSE own
    BY DEF Probing!PicksRoute
  <2> HIDE DEF auto, own
  <2> QED
    BY <2>1, <2>2, <2>3
<1>5. form' # None
  BY <1>4, DesktopAssumption DEF Forms
<1>6. Probing!Settled("page") => lists["page"].of = form.of
  BY <1>1, <1>3 DEF FormInv, Probing!ListIsOfSource
<1>7. FormIsTheModels'
  BY <1>1, <1>4, <1>6, ReceivesStays DEF FormIsTheModels
<1>8. FormTyped' /\ FetchesAreOfTheForm' /\ SavedArePicked'
  BY <1>1, <1>4 DEF FormInv, FormTyped, FetchesAreOfTheForm, SavedArePicked
<1>9. Probing!ListIsOfSource'
  BY <1>1, <1>4 DEF FormInv, Probing!ListIsOfSource, Probing!Settled
<1>10. Probing!CapabilitiesAreTheModels'
  BY <1>1, ReceivesStays DEF FormInv, Probing!CapabilitiesAreTheModels
<1> QED
  BY <1>7, <1>8, <1>9, <1>10 DEF FormInv

(* An answer that counts is of the provider in the form.                              *)
LEMMA ListsKeeps ==
  ASSUME FormInv, NEW a \in asks, Probing!Lists(a)
  PROVE  FormInv'
<1>1. /\ asks' = asks \ {a} /\ UNCHANGED <<form, fetched, saved, descriptor>>
      /\ a \in Fetching /\ a.by \in Probing!Subscribers /\ a.of \in Sources
  BY DEF Probing!Lists, FormInv, FormTyped, Fetching
<1>2. /\ lists' \in [Probing!Subscribers -> Lists]
      /\ \A s \in Probing!Subscribers :
           \/ lists'[s] = lists[s]
           \/ /\ s = a.by /\ a.n = fetched[s]
              /\ lists'[s].error \/ lists'[s].of = a.of
  <2>1. CASE UNCHANGED lists
    BY <2>1 DEF FormInv, FormTyped
  <2>2. ASSUME Probing!Current(a), NEW b \in Probing!Bodies,
               lists' = [lists EXCEPT ![a.by] =
                           [of |-> IF Probing!Listed(b) THEN a.of ELSE @.of, loading |-> FALSE,
                            error |-> ~Probing!Listed(b)]]
        PROVE  /\ lists' \in [Probing!Subscribers -> Lists]
               /\ \A s \in Probing!Subscribers :
                    \/ lists'[s] = lists[s]
                    \/ /\ s = a.by /\ a.n = fetched[s]
                       /\ lists'[s].error \/ lists'[s].of = a.of
    <3> DEFINE new == [of |-> IF Probing!Listed(b) THEN a.of ELSE lists[a.by].of,
                       loading |-> FALSE, error |-> ~Probing!Listed(b)]
    <3>1. lists \in [Probing!Subscribers -> Lists] /\ lists[a.by].of \in Sources \cup {None}
      BY <1>1 DEF FormInv, FormTyped, Lists
    <3>2. new \in Lists /\ (new.error \/ new.of = a.of)
      <4>1. Probing!Listed(b) \in BOOLEAN
        BY DEF Probing!Listed
      <4> QED
        BY <1>1, <3>1, <4>1 DEF Lists
    <3>3. lists' = [lists EXCEPT ![a.by] = new]
      BY <2>2, <3>1
    <3> HIDE DEF new
    <3> QED
      BY <1>1, <2>2, <3>1, <3>2, <3>3 DEF Probing!Current
  <2> QED
    BY <2>1, <2>2 DEF Probing!Lists
<1>3. FormTyped' /\ FetchesAreOfTheForm' /\ SavedArePicked'
  BY <1>1, <1>2 DEF FormInv, FormTyped, FetchesAreOfTheForm, SavedArePicked
<1>4. FormIsTheModels' /\ Probing!CapabilitiesAreTheModels'
  BY <1>1, ReceivesStays DEF FormInv, FormIsTheModels, Probing!CapabilitiesAreTheModels
<1>5. form # None /\ a.n = fetched[a.by] => a.of = form.of
  BY DEF FormInv, FetchesAreOfTheForm
<1>6. Probing!ListIsOfSource'
  BY <1>1, <1>2, <1>5 DEF FormInv, Probing!ListIsOfSource, Probing!Settled
<1> QED
  BY <1>3, <1>4, <1>6 DEF FormInv

(* The steps of the models page.                                                *)
LEMMA FormKeeps ==
  ASSUME FormInv,
         \/ Probing!OpensForm \/ Probing!ClosesForm \/ Probing!PicksSource
         \/ Probing!PicksRoute \/ Probing!SetsCapabilities \/ Probing!SavesModel
         \/ Probing!EditsModel \/ \E a \in asks : Probing!Lists(a)
  PROVE  FormInv'
<1>1. CASE Probing!OpensForm
  BY <1>1, BlanksKeep DEF Probing!OpensForm
<1>2. CASE Probing!ClosesForm
  <2>1. /\ asks' \subseteq Fetching /\ fetched' \in [Probing!Subscribers -> Nat]
        /\ lists' \in [Probing!Subscribers -> Lists]
        /\ FetchesAreOfTheForm' /\ Probing!ListIsOfSource' /\ FormIsTheModels'
    BY <1>2, ForgettingKeeps DEF Probing!ClosesForm
  <2>2. form' = None /\ UNCHANGED <<saved, descriptor>>
    BY <1>2 DEF Probing!ClosesForm
  <2>3. FormTyped' /\ SavedArePicked'
    BY <2>1, <2>2 DEF FormInv, FormTyped, SavedArePicked
  <2>4. Probing!CapabilitiesAreTheModels'
    BY <2>2, ReceivesStays DEF FormInv, Probing!CapabilitiesAreTheModels
  <2> QED
    BY <2>1, <2>3, <2>4 DEF FormInv
<1>3. CASE Probing!PicksSource
  BY <1>3, BlanksKeep DEF Probing!PicksSource
<1>4. CASE Probing!PicksRoute
  BY <1>4, PicksRouteKeeps
<1>5. CASE Probing!SetsCapabilities
  <2>1. /\ form \in Forms /\ form' = [form EXCEPT !.auto = FALSE]
        /\ UNCHANGED <<asks, fetched, lists, saved, descriptor>>
    BY <1>5 DEF Probing!SetsCapabilities, FormInv, FormTyped
  <2>2. form' \in Forms /\ form'.of = form.of /\ ~form'.auto /\ form # None
    BY <2>1, DesktopAssumption DEF Forms
  <2>3. FormTyped' /\ FetchesAreOfTheForm' /\ SavedArePicked' /\ FormIsTheModels'
    BY <2>1, <2>2 DEF FormInv, FormTyped, FetchesAreOfTheForm, SavedArePicked, FormIsTheModels
  <2>4. Probing!ListIsOfSource'
    BY <2>1, <2>2 DEF FormInv, Probing!ListIsOfSource, Probing!Settled
  <2>5. Probing!CapabilitiesAreTheModels'
    BY <2>1, ReceivesStays DEF FormInv, Probing!CapabilitiesAreTheModels
  <2> QED
    BY <2>3, <2>4, <2>5 DEF FormInv
<1>6. CASE Probing!SavesModel
  <2>1. /\ asks' \subseteq Fetching /\ fetched' \in [Probing!Subscribers -> Nat]
        /\ lists' \in [Probing!Subscribers -> Lists]
        /\ FetchesAreOfTheForm' /\ Probing!ListIsOfSource' /\ FormIsTheModels'
    BY <1>6, ForgettingKeeps DEF Probing!SavesModel
  <2>2. /\ form # None /\ form.picked /\ saved' = {form} /\ form' = None
        /\ UNCHANGED descriptor
    BY <1>6 DEF Probing!SavesModel
  <2>3. FormTyped' /\ SavedArePicked'
    BY <2>1, <2>2 DEF FormInv, FormTyped, SavedArePicked
  <2>4. Probing!CapabilitiesAreTheModels'
    BY <2>2, ReceivesStays DEF FormInv, FormIsTheModels, Probing!CapabilitiesAreTheModels
  <2> QED
    BY <2>1, <2>3, <2>4 DEF FormInv
<1>7. CASE Probing!EditsModel
  <2>1. PICK r \in saved : form' = r /\ Probing!Fetches(Probing!Subscribers, r.of)
    BY <1>7 DEF Probing!EditsModel
  <2>2. /\ r \in Forms /\ saved' = {} /\ UNCHANGED descriptor
    BY <1>7 DEF Probing!EditsModel, FormInv, FormTyped
  <2>3. /\ asks' \subseteq Fetching /\ fetched' \in [Probing!Subscribers -> Nat]
        /\ lists' \in [Probing!Subscribers -> Lists]
        /\ FetchesAreOfTheForm' /\ Probing!ListIsOfSource'
    BY <2>1, <2>2, FetchesKeep
  <2>4. FormTyped' /\ SavedArePicked' /\ Probing!CapabilitiesAreTheModels'
    BY <2>1, <2>2, <2>3 DEF FormTyped, SavedArePicked, Probing!CapabilitiesAreTheModels
  <2>5. FormIsTheModels'
    BY <2>1, <2>2, ReceivesStays DEF FormInv, FormIsTheModels, Probing!CapabilitiesAreTheModels
  <2> QED
    BY <2>3, <2>4, <2>5 DEF FormInv
<1>8. CASE \E a \in asks : Probing!Lists(a)
  BY <1>8, ListsKeeps
<1> QED
  BY <1>1, <1>2, <1>3, <1>4, <1>5, <1>6, <1>7, <1>8

(* Every step of the pages keeps the invariant.                                  *)
LEMMA ProbesInvInductive == ProbesInv /\ [Probing!ProbesNext]_probeVars => ProbesInv'
<1> SUFFICES ASSUME ProbesInv, [Probing!ProbesNext]_probeVars
             PROVE  ProbesInv'
  OBVIOUS
<1>1. UNCHANGED descriptor
  BY DEF probeVars, Probing!ProbesNext, Probing!EditsDraft, Probing!TestsConnection,
     Probing!Discovers, Probing!Pings, Probing!OpensForm, Probing!ClosesForm,
     Probing!PicksSource, Probing!PicksRoute, Probing!SetsCapabilities,
     Probing!SavesModel, Probing!EditsModel, Probing!Lists
<1>2. UNCHANGED <<draft, probes, discovering, testing, verdict, attempted>> => DraftInv'
  BY DEF ProbesInv, DraftInv, DraftTyped, TestsKnowTheDraft, Probing!VerdictIsOfDraft
<1>3. UNCHANGED <<form, asks, fetched, lists, saved>> => FormInv'
  BY <1>1, ReceivesStays DEF ProbesInv, FormInv, FormTyped, FetchesAreOfTheForm,
     FormIsTheModels, SavedArePicked, Probing!ListIsOfSource, Probing!Settled,
     Probing!CapabilitiesAreTheModels
<1>4. CASE \/ Probing!EditsDraft \/ Probing!TestsConnection
           \/ \E p \in probes : Probing!Discovers(p) \/ Probing!Pings(p)
  <2>1. UNCHANGED <<form, asks, fetched, lists, saved>>
    BY <1>4 DEF Probing!EditsDraft, Probing!TestsConnection, Probing!Discovers, Probing!Pings
  <2> QED
    BY <1>1, <1>3, <1>4, <2>1, DraftKeeps DEF ProbesInv
<1>5. CASE \/ Probing!OpensForm \/ Probing!ClosesForm \/ Probing!PicksSource
           \/ Probing!PicksRoute \/ Probing!SetsCapabilities \/ Probing!SavesModel
           \/ Probing!EditsModel \/ \E a \in asks : Probing!Lists(a)
  <2>1. UNCHANGED <<draft, probes, discovering, testing, verdict, attempted>>
    BY <1>5 DEF Probing!OpensForm, Probing!ClosesForm, Probing!PicksSource,
       Probing!PicksRoute, Probing!SetsCapabilities, Probing!SavesModel,
       Probing!EditsModel, Probing!Lists
  <2> QED
    BY <1>1, <1>2, <1>5, <2>1, FormKeeps DEF ProbesInv
<1>6. CASE UNCHANGED probeVars
  BY <1>1, <1>2, <1>3, <1>6 DEF probeVars, ProbesInv
<1> QED
  BY <1>4, <1>5, <1>6 DEF Probing!ProbesNext

-----------------------------------------------------------------------------
(***************************************************************************)
(* The components side by side.                                              *)
(***************************************************************************)

desktop == <<focus, applicationVars, proxyVars, recordVars, viewVars>>

(* What is in focus stays so.                                                   *)
LEMMA FocusStays == [MCNext]_desktop => focus' = focus
BY Zenon DEF MCNext, desktop

(* Each component, in its turn, moves as its model says, and the others rest.           *)
LEMMA ProbesMove ==
  [MCNext]_desktop /\ focus = "probes" => [Probing!ProbesNext]_probeVars
BY Zenon DEF MCNext, desktop, viewVars

LEMMA TerminalsMove ==
  [MCNext]_desktop /\ focus = "terminals" => [Terms!TermNext]_terminalVars
BY Zenon DEF MCNext, desktop, applicationVars

LEMMA UploadsMove ==
  [MCNext]_desktop /\ focus = "uploads" => [Attachments!UploadsNext]_uploadVars
BY Zenon DEF MCNext, desktop, viewVars

LEMMA NoticesMove ==
  [MCNext]_desktop /\ focus = "notices" => [Notices!NoticesNext]_noticeVars
BY Zenon DEF MCNext, desktop, viewVars

LEMMA WindowsMove ==
  [MCNext]_desktop /\ focus = "windows" => [Shown!WindowsNext]_windowVars
BY Zenon DEF MCNext, desktop, viewVars

LEMMA LaunchesMove ==
  [MCNext]_desktop /\ focus = "launches" => [Starting!LaunchesNext]_launchVars
BY Zenon DEF MCNext, desktop, viewVars

(* The window shows what is so, and what it sends arrives, for any numbers of tabs, windows,     *)
(* files, sessions, launches and edits: shells have tabs and a tab tells the truth about its     *)
(* shell (pty/src/manager.ts, terminalStore.ts), the composer's tray and a message hold the      *)
(* files the user gave (useUploads.ts, ingest-uploads.ts), the settings pages show what is of    *)
(* the provider in their form (ProvidersPage.tsx, useAsyncResource.ts), the end of a run is told *)
(* once (composition.ts, notifications-model.ts), a window keeps its bounds and the focus what   *)
(* is so (window.ts, window-bounds-io.ts), and a launch runs what the user's terminal would      *)
(* (resolve-path.ts, launch.ts, tray.ts).                                              *)
THEOREM WindowsAgree == MCSpec => []WindowAgrees
<1> DEFINE Inv == /\ focus = "terminals" => TermInv
                  /\ focus = "uploads" => UploadInv
                  /\ focus = "probes" => ProbesInv
                  /\ focus = "notices" => NoticeInv
                  /\ focus = "windows" => WindowInv
                  /\ focus = "launches" => LaunchInv
<1>1. MCInit => Inv
  BY TermInvInit, UploadInvInit, ProbesInvInit, NoticeInvInit, WindowInvInit, LaunchInvInit DEF MCInit
<1>2. Inv /\ [MCNext]_desktop => Inv'
  <2> SUFFICES ASSUME Inv, [MCNext]_desktop PROVE Inv'
    OBVIOUS
  <2>1. focus' = focus
    BY FocusStays
  <2>2. focus = "terminals" => TermInv'
    BY TerminalsMove, TermInvInductive
  <2>3. focus = "uploads" => UploadInv'
    BY UploadsMove, UploadInvInductive
  <2>4. focus = "probes" => ProbesInv'
    BY ProbesMove, ProbesInvInductive
  <2>5. focus = "notices" => NoticeInv'
    BY NoticesMove, NoticeInvInductive
  <2>6. focus = "windows" => WindowInv'
    BY WindowsMove, WindowInvInductive
  <2>7. focus = "launches" => LaunchInv'
    BY LaunchesMove, LaunchInvInductive
  <2> QED
    BY <2>1, <2>2, <2>3, <2>4, <2>5, <2>6, <2>7
<1>3. Inv => WindowAgrees
  BY TermInvSound, UploadInvSound, ProbesInvSound, NoticeInvSound, WindowInvSound, LaunchInvSound DEF WindowAgrees
<1> QED
  BY <1>1, <1>2, <1>3, PTL DEF MCSpec, desktop
==============================================================================

---------------------------- MODULE DesktopProofs ----------------------------
(***************************************************************************)
(* Proofs about the components that surround the conversation, as MCDesktop puts  *)
(* them side by side, for any bounds: each has an inductive invariant of its own,  *)
(* and the last section puts them together.                                    *)
(***************************************************************************)
EXTENDS MCDesktop, TLAPS

-----------------------------------------------------------------------------
(***************************************************************************)
(* The extensions, from the disk to their children.                           *)
(***************************************************************************)

ExtTyped ==
  /\ Extensions!ExtTypeOK
  /\ asked \in Nat /\ done \in Nat
  /\ op \in Operations \cup {None}
  /\ op # None /\ op.pc = "saving" => op.next \in Extensions!Configs
  /\ op # None /\ op.pc = "refreshing" => op.next \in Nat
  /\ edit \in Edits \cup {None}
  /\ request \in Requests \cup {None}
  /\ refreshing \in Extensions!Configs \cup {None}

OpAt(kind, pcs) == op # None /\ op.kind = kind /\ op.pc \in pcs
Installing(i) == OpAt("install", {"fetching", "validating", "saving"}) /\ op.id = i
Removing(i) == OpAt("remove", {"recording", "saving"}) /\ op.id = i
OpIsSaving == op # None /\ op.pc = "saving"
EditIsSaving == edit # None /\ edit.pc = "saving"

(* What an operation is at says what the configuration and the disk know of its      *)
(* extension, and what it is about to write.                                   *)
OpFits ==
  /\ OpAt("install", {"validating"}) => files[op.id] # "none"
  /\ OpAt("remove", {"recording", "saving"}) /\ op.id \notin Linked => files[op.id] = "none"
  /\ ~overlapped =>
       /\ \A i \in Ids : Installing(i) => i \notin cache.plugins
       /\ OpAt("install", {"saving"}) => files[op.id] # "none"
       /\ OpAt("remove", {"listing", "deleting", "recording", "saving"})
            => op.id \in cache.plugins
       /\ OpAt("update", {"fetching"}) => op.id \in cache.plugins
       /\ OpIsSaving =>
            /\ ~EditIsSaving
            /\ op.next.plugins = CASE op.kind = "install" -> cache.plugins \cup {op.id}
                                   [] op.kind = "remove" -> cache.plugins \ {op.id}
                                   [] OTHER -> cache.plugins

(* The other writer changes no extension, and writes what it read.                  *)
EditFits ==
  /\ edit # None => /\ edit.next.plugins = edit.base.plugins
                    /\ edit.next.enabled = edit.base.enabled
  /\ ~overlapped /\ EditIsSaving => edit.base = cache

(* The directories and the records agree, but for the extension of the operation and    *)
(* what an install left behind.                                                *)
FilesAgree ==
  ~overlapped => \A i \in Ids :
    /\ files[i] # "none" => i \in cache.plugins \/ i \in leftBehind \/ Installing(i)
    /\ i \in cache.plugins => files[i] # "none" \/ i \in dangling \/ Removing(i)
BadIsBroken ==
  \A i \in Ids : files[i] = "bad" =>
    i \in broken \/ i \in leftBehind \/ (OpAt("install", {"validating"}) /\ op.id = i)

(* An operation waits for the refresh it asked for, so that the last one sees what it   *)
(* wrote; the first refresh alone may be late.                                  *)
RefreshesAgree ==
  /\ refreshing # None => done < asked
  /\ IF op # None /\ op.pc = "refreshing" THEN op.next = asked
     ELSE done = asked \/ (asked = 1 /\ done = 0)
  /\ ~overlapped /\ refreshing # None /\ done + 1 = asked
       => refreshing.enabled = cache.enabled

(* Once the refreshes are done, the live view and the children are of what is enabled. *)
ChildrenAgree ==
  /\ done = 0 => children = {} /\ enabledCell = {}
  /\ ~overlapped /\ broken = {} /\ leftBehind = {} /\ done = asked
       => children \subseteq cache.enabled /\ enabledCell \subseteq cache.enabled

ExtInv ==
  /\ ExtTyped
  /\ OpFits
  /\ EditFits
  /\ FilesAgree
  /\ BadIsBroken
  /\ RefreshesAgree
  /\ ChildrenAgree

(* Who is writing.                                                            *)
LEMMA WritingNone == Extensions!Writing = {} <=> ~OpIsSaving /\ ~EditIsSaving
BY DEF Extensions!Writing, OpIsSaving, EditIsSaving

(* An operation that goes on is of the same kind and extension.                      *)
Later(o, pc, next) == [o EXCEPT !.pc = pc, !.next = next]
LEMMA OpGoesOn ==
  ASSUME NEW o \in Operations, NEW pc \in Steps, NEW next \in Nexts
  PROVE  /\ Later(o, pc, next) \in Operations /\ Later(o, pc, next) # None
         /\ Later(o, pc, next).kind = o.kind /\ Later(o, pc, next).id = o.id
         /\ Later(o, pc, next).pc = pc /\ Later(o, pc, next).next = next
<1>1. /\ Later(o, pc, next) \in Operations
      /\ Later(o, pc, next).kind = o.kind /\ Later(o, pc, next).id = o.id
      /\ Later(o, pc, next).pc = pc /\ Later(o, pc, next).next = next
  BY DEF Operations, Later
<1> QED
  BY <1>1, DesktopAssumption

(* The invariant holds at the start.                                          *)
LEMMA ExtInvInit == Extensions!ExtInit => ExtInv
<1> SUFFICES ASSUME Extensions!ExtInit
             PROVE ExtInv
  OBVIOUS
<1> USE DEF Extensions!ExtInit
<1>1. ExtTyped
  <2>1. Extensions!Empty \in Extensions!Configs
    BY DEF Extensions!Empty, Extensions!Configs
  <2>2. asked \in Nat /\ done \in Nat /\ done <= asked
    OBVIOUS
  <2>3. files \in [Ids -> {"none", "good", "bad"}]
    OBVIOUS
  <2> QED
    BY <2>1, <2>2, <2>3 DEF ExtTyped, Extensions!ExtTypeOK
<1>2. OpFits /\ EditFits /\ FilesAgree /\ BadIsBroken
  BY DEF OpFits, EditFits, FilesAgree, BadIsBroken, OpAt, Installing, OpIsSaving,
         EditIsSaving, Extensions!Empty
<1>3. RefreshesAgree /\ ChildrenAgree
  BY DEF RefreshesAgree, ChildrenAgree
<1> QED
  BY <1>1, <1>2, <1>3 DEF ExtInv

(* Every step keeps the invariant.                                             *)
LEMMA ExtInvInductive == ExtInv /\ [Extensions!ExtNext]_extensionVars => ExtInv'
<1> SUFFICES ASSUME ExtInv, [Extensions!ExtNext]_extensionVars
             PROVE ExtInv'
  OBVIOUS
<1> USE DesktopAssumption, WritingNone DEF Extensions!cells, Extensions!refreshes,
            Extensions!counts, Extensions!history, ExtInv
<1> USE DEF ExtTyped, Extensions!ExtTypeOK, Operations, Steps, Nexts, Edits,
            Requests, Extensions!Configs, OpFits, EditFits, OpAt, Installing,
            Removing, OpIsSaving, EditIsSaving, FilesAgree, BadIsBroken,
            RefreshesAgree, ChildrenAgree
<1>1. ASSUME NEW i \in Ids, Extensions!RemoveStarts(i)
      PROVE ExtInv'
  BY <1>1 DEF Extensions!RemoveStarts, Extensions!Starts
<1>2. ASSUME NEW i \in Ids, Extensions!EditLoads(i)
      PROVE ExtInv'
  BY <1>2 DEF Extensions!EditLoads
<1>3. ASSUME NEW i \in Ids, Extensions!UserBreaks(i)
      PROVE ExtInv'
  BY <1>3 DEF Extensions!UserBreaks
<1>4. ASSUME NEW i \in Ids, Extensions!Requests(i)
      PROVE ExtInv'
  BY <1>4 DEF Extensions!Requests
<1>5. ASSUME NEW i \in Ids, NEW enabled \in BOOLEAN, Extensions!SetsEnabled(i, enabled)
      PROVE ExtInv'
  BY <1>5 DEF Extensions!SetsEnabled, Extensions!Starts, Extensions!BeginsFrom
<1>6. ASSUME NEW valid \in BOOLEAN, Extensions!InstallFetches(valid)
      PROVE ExtInv'
  BY <1>6 DEF Extensions!InstallFetches, Extensions!At, Extensions!Goes
<1>7. ASSUME NEW cleaned \in BOOLEAN, Extensions!InstallFails(cleaned)
      PROVE ExtInv'
  BY <1>7 DEF Extensions!InstallFails, Extensions!At
<1>8. ASSUME Extensions!UpdateFails
      PROVE ExtInv'
  BY <1>8 DEF Extensions!UpdateFails, Extensions!At
<1>9. ASSUME Extensions!RemoveChecks
      PROVE ExtInv'
  BY <1>9 DEF Extensions!RemoveChecks, Extensions!At, Extensions!Goes,
         Extensions!Listed
<1>10. ASSUME Extensions!RemoveDeletes
      PROVE ExtInv'
  BY <1>10 DEF Extensions!RemoveDeletes, Extensions!At, Extensions!Goes
<1>11. ASSUME Extensions!RemoveFails
      PROVE ExtInv'
  BY <1>11 DEF Extensions!RemoveFails, Extensions!At
<1>12. ASSUME NEW cleaned \in BOOLEAN, Extensions!OpFails(cleaned)
      PROVE ExtInv'
  BY <1>12 DEF Extensions!OpFails, Extensions!RollsBack, Extensions!WriteFails
<1>13. ASSUME Extensions!OpEnds
      PROVE ExtInv'
  BY <1>13 DEF Extensions!OpEnds
<1>14. ASSUME NEW through \in BOOLEAN, Extensions!EditEnds(through)
      PROVE ExtInv'
  BY <1>14 DEF Extensions!EditEnds, Extensions!Written, Extensions!WriteFails,
         Extensions!Retain
<1>15. ASSUME Extensions!RefreshStarts
      PROVE ExtInv'
  BY <1>15 DEF Extensions!RefreshStarts
<1>16. ASSUME Extensions!RequestResolves
      PROVE ExtInv'
  BY <1>16 DEF Extensions!RequestResolves
<1>17. CASE UNCHANGED extensionVars
  BY <1>17 DEF extensionVars
<1> HIDE DEF ExtTyped, Extensions!ExtTypeOK, Operations, Steps, Nexts, Edits,
             Requests, Extensions!Configs, OpFits, EditFits, OpAt, Installing,
             Removing, OpIsSaving, EditIsSaving, FilesAgree, BadIsBroken,
             RefreshesAgree, ChildrenAgree
<1>18. ASSUME NEW i \in Ids, Extensions!InstallStarts(i)
      PROVE ExtInv'
  <2>1. ExtTyped'
    <3>1. op' \in Operations /\ op'.pc = "fetching"
      BY <1>18 DEF Operations, Steps, Nexts, Extensions!InstallStarts, Extensions!Starts
    <3> QED
      BY <1>18, <3>1 DEF ExtTyped, Extensions!ExtTypeOK, Extensions!InstallStarts
  <2>2. OpFits'
    BY <1>18 DEF OpFits, EditFits, OpAt, Installing, Removing, OpIsSaving,
           EditIsSaving, ExtTyped, Extensions!ExtTypeOK, Operations, Steps, Nexts,
           Edits, Requests, Extensions!Configs, Extensions!InstallStarts,
           Extensions!Starts
  <2>3. EditFits'
    BY <1>18 DEF EditFits, OpFits, OpAt, Installing, Removing, OpIsSaving,
           EditIsSaving, ExtTyped, Extensions!ExtTypeOK, Operations, Steps, Nexts,
           Edits, Requests, Extensions!Configs, Extensions!InstallStarts,
           Extensions!Starts
  <2>4. FilesAgree'
    BY <1>18 DEF FilesAgree, OpFits, EditFits, OpAt, Installing, Removing,
           OpIsSaving, EditIsSaving, ExtTyped, Extensions!ExtTypeOK, Operations,
           Steps, Nexts, Edits, Requests, Extensions!Configs,
           Extensions!InstallStarts, Extensions!Starts
  <2>5. BadIsBroken'
    BY <1>18 DEF BadIsBroken, OpAt, Installing, Removing, OpIsSaving, EditIsSaving,
           ExtTyped, Extensions!ExtTypeOK, Operations, Steps, Nexts, Edits,
           Requests, Extensions!Configs, Extensions!InstallStarts, Extensions!Starts
  <2>6. RefreshesAgree'
    BY <1>18 DEF RefreshesAgree, EditFits, OpFits, OpAt, Installing, Removing,
           OpIsSaving, EditIsSaving, ExtTyped, Extensions!ExtTypeOK, Operations,
           Steps, Nexts, Edits, Requests, Extensions!Configs,
           Extensions!InstallStarts, Extensions!Starts
  <2>7. ChildrenAgree'
    BY <1>18 DEF ChildrenAgree, RefreshesAgree, BadIsBroken, EditFits, OpFits, OpAt,
           Installing, Removing, OpIsSaving, EditIsSaving, ExtTyped,
           Extensions!ExtTypeOK, Operations, Steps, Nexts, Edits, Requests,
           Extensions!Configs, Extensions!InstallStarts, Extensions!Starts
  <2> QED
    BY <2>1, <2>2, <2>3, <2>4, <2>5, <2>6, <2>7
<1>19. ASSUME NEW i \in Ids, Extensions!Updates(i)
      PROVE ExtInv'
  <2>1. ExtTyped'
    <3>1. op' \in Operations /\ op'.pc = "fetching"
      BY <1>19 DEF Operations, Steps, Nexts, Extensions!Updates, Extensions!Starts
    <3> QED
      BY <1>19, <3>1 DEF ExtTyped, Extensions!ExtTypeOK, Extensions!Updates
  <2>2. OpFits'
    BY <1>19 DEF OpFits, EditFits, OpAt, Installing, Removing, OpIsSaving,
           EditIsSaving, ExtTyped, Extensions!ExtTypeOK, Operations, Steps, Nexts,
           Edits, Requests, Extensions!Configs, Extensions!Updates,
           Extensions!Starts
  <2>3. EditFits'
    BY <1>19 DEF EditFits, OpFits, OpAt, Installing, Removing, OpIsSaving,
           EditIsSaving, ExtTyped, Extensions!ExtTypeOK, Operations, Steps, Nexts,
           Edits, Requests, Extensions!Configs, Extensions!Updates,
           Extensions!Starts
  <2>4. FilesAgree'
    BY <1>19 DEF FilesAgree, OpFits, EditFits, OpAt, Installing, Removing,
           OpIsSaving, EditIsSaving, ExtTyped, Extensions!ExtTypeOK, Operations,
           Steps, Nexts, Edits, Requests, Extensions!Configs, Extensions!Updates,
           Extensions!Starts
  <2>5. BadIsBroken'
    BY <1>19 DEF BadIsBroken, OpAt, Installing, Removing, OpIsSaving, EditIsSaving,
           ExtTyped, Extensions!ExtTypeOK, Operations, Steps, Nexts, Edits,
           Requests, Extensions!Configs, Extensions!Updates, Extensions!Starts
  <2>6. RefreshesAgree'
    BY <1>19 DEF RefreshesAgree, EditFits, OpFits, OpAt, Installing, Removing,
           OpIsSaving, EditIsSaving, ExtTyped, Extensions!ExtTypeOK, Operations,
           Steps, Nexts, Edits, Requests, Extensions!Configs, Extensions!Updates,
           Extensions!Starts
  <2>7. ChildrenAgree'
    BY <1>19 DEF ChildrenAgree, RefreshesAgree, BadIsBroken, EditFits, OpFits, OpAt,
           Installing, Removing, OpIsSaving, EditIsSaving, ExtTyped,
           Extensions!ExtTypeOK, Operations, Steps, Nexts, Edits, Requests,
           Extensions!Configs, Extensions!Updates, Extensions!Starts
  <2> QED
    BY <2>1, <2>2, <2>3, <2>4, <2>5, <2>6, <2>7
<1>20. ASSUME NEW i \in Ids, Extensions!EditDeletes(i)
      PROVE ExtInv'
  <2>1. ExtTyped'
    BY <1>20 DEF ExtTyped, Extensions!ExtTypeOK, Operations, Steps, Nexts, Edits,
           Requests, Extensions!Configs, Extensions!EditDeletes,
           Extensions!BeginsFrom
  <2>2. OpFits'
    BY <1>20 DEF OpFits, EditFits, OpAt, Installing, Removing, OpIsSaving,
           EditIsSaving, ExtTyped, Extensions!ExtTypeOK, Operations, Steps, Nexts,
           Edits, Requests, Extensions!Configs, Extensions!EditDeletes,
           Extensions!BeginsFrom
  <2>3. EditFits'
    BY <1>20 DEF EditFits, OpFits, OpAt, Installing, Removing, OpIsSaving,
           EditIsSaving, ExtTyped, Extensions!ExtTypeOK, Operations, Steps, Nexts,
           Edits, Requests, Extensions!Configs, Extensions!EditDeletes,
           Extensions!BeginsFrom
  <2>4. FilesAgree'
    BY <1>20 DEF FilesAgree, OpFits, EditFits, OpAt, Installing, Removing,
           OpIsSaving, EditIsSaving, ExtTyped, Extensions!ExtTypeOK, Operations,
           Steps, Nexts, Edits, Requests, Extensions!Configs,
           Extensions!EditDeletes, Extensions!BeginsFrom
  <2>5. BadIsBroken'
    BY <1>20 DEF BadIsBroken, OpAt, Installing, Removing, OpIsSaving, EditIsSaving,
           ExtTyped, Extensions!ExtTypeOK, Operations, Steps, Nexts, Edits,
           Requests, Extensions!Configs, Extensions!EditDeletes,
           Extensions!BeginsFrom
  <2>6. RefreshesAgree'
    BY <1>20 DEF RefreshesAgree, EditFits, OpFits, OpAt, Installing, Removing,
           OpIsSaving, EditIsSaving, ExtTyped, Extensions!ExtTypeOK, Operations,
           Steps, Nexts, Edits, Requests, Extensions!Configs,
           Extensions!EditDeletes, Extensions!BeginsFrom
  <2>7. ChildrenAgree'
    BY <1>20 DEF ChildrenAgree, RefreshesAgree, BadIsBroken, EditFits, OpFits, OpAt,
           Installing, Removing, OpIsSaving, EditIsSaving, ExtTyped,
           Extensions!ExtTypeOK, Operations, Steps, Nexts, Edits, Requests,
           Extensions!Configs, Extensions!EditDeletes, Extensions!BeginsFrom
  <2> QED
    BY <2>1, <2>2, <2>3, <2>4, <2>5, <2>6, <2>7
<1>21. ASSUME NEW valid \in BOOLEAN, Extensions!ChecksOut(valid)
      PROVE ExtInv'
  <2>1. ExtTyped'
    <3> DEFINE next == cache
    <3>1. next \in Extensions!Configs
      BY <1>21 DEF ExtTyped, Extensions!ExtTypeOK, Extensions!Configs, Operations,
         Extensions!ChecksOut,
            Extensions!At
    <3>2. \/ op' = None /\ UNCHANGED tmp
          \/ op' = Later(op, "saving", next) /\ tmp' = next
      BY <1>21 DEF Extensions!ChecksOut, Extensions!Saves, Extensions!BeginsFrom, Later
    <3>op. op \in Operations /\ "saving" \in Steps /\ next \in Nexts
      BY <1>21, <3>1 DEF ExtTyped, Steps, Nexts, Extensions!ChecksOut, Extensions!At
    <3> HIDE DEF next
    <3>3. op' = None \/ (op' \in Operations /\ op'.next = next /\ op'.pc = "saving")
      BY <3>op, <3>2, OpGoesOn
    <3>4. files' \in [Ids -> {"none", "good", "bad"}]
      BY <1>21 DEF ExtTyped, Extensions!ExtTypeOK, Operations, Extensions!ChecksOut,
         Extensions!At
    <3> QED
      BY <1>21, <3>1, <3>2, <3>3, <3>4 DEF ExtTyped, Extensions!ExtTypeOK,
         Extensions!ChecksOut
  <2>2. OpFits'
    BY <1>21 DEF OpFits, EditFits, OpAt, Installing, Removing, OpIsSaving,
           EditIsSaving, ExtTyped, Extensions!ExtTypeOK, Operations, Steps, Nexts,
           Edits, Requests, Extensions!Configs, Extensions!ChecksOut, Extensions!At,
           Extensions!Saves, Extensions!BeginsFrom
  <2>3. EditFits'
    BY <1>21 DEF EditFits, OpFits, OpAt, Installing, Removing, OpIsSaving,
           EditIsSaving, ExtTyped, Extensions!ExtTypeOK, Operations, Steps, Nexts,
           Edits, Requests, Extensions!Configs, Extensions!ChecksOut, Extensions!At,
           Extensions!Saves, Extensions!BeginsFrom
  <2>4. FilesAgree'
    BY <1>21 DEF FilesAgree, OpFits, EditFits, OpAt, Installing, Removing,
           OpIsSaving, EditIsSaving, ExtTyped, Extensions!ExtTypeOK, Operations,
           Steps, Nexts, Edits, Requests, Extensions!Configs, Extensions!ChecksOut,
           Extensions!At, Extensions!Saves, Extensions!BeginsFrom
  <2>5. BadIsBroken'
    BY <1>21 DEF BadIsBroken, OpAt, Installing, Removing, OpIsSaving, EditIsSaving,
           ExtTyped, Extensions!ExtTypeOK, Operations, Steps, Nexts, Edits,
           Requests, Extensions!Configs, Extensions!ChecksOut, Extensions!At,
           Extensions!Saves, Extensions!BeginsFrom
  <2>6. RefreshesAgree'
    BY <1>21 DEF RefreshesAgree, EditFits, OpFits, OpAt, Installing, Removing,
           OpIsSaving, EditIsSaving, ExtTyped, Extensions!ExtTypeOK, Operations,
           Steps, Nexts, Edits, Requests, Extensions!Configs, Extensions!ChecksOut,
           Extensions!At, Extensions!Saves, Extensions!BeginsFrom
  <2>7. ChildrenAgree'
    BY <1>21 DEF ChildrenAgree, RefreshesAgree, BadIsBroken, EditFits, OpFits, OpAt,
           Installing, Removing, OpIsSaving, EditIsSaving, ExtTyped,
           Extensions!ExtTypeOK, Operations, Steps, Nexts, Edits, Requests,
           Extensions!Configs, Extensions!ChecksOut, Extensions!At,
           Extensions!Saves, Extensions!BeginsFrom
  <2> QED
    BY <2>1, <2>2, <2>3, <2>4, <2>5, <2>6, <2>7
<1>22. ASSUME Extensions!InstallRecords
      PROVE ExtInv'
  <2>1. ExtTyped'
    <3> DEFINE next == [cache EXCEPT !.plugins = cache.plugins \cup {op.id}, !.enabled = cache.enabled \cup {op.id}]
    <3>1. next \in Extensions!Configs
      BY <1>22 DEF ExtTyped, Extensions!ExtTypeOK, Extensions!Configs, Operations,
         Extensions!InstallRecords,
            Extensions!At
    <3>2. \/ op' = None /\ UNCHANGED tmp
          \/ op' = Later(op, "saving", next) /\ tmp' = next
      BY <1>22 DEF Extensions!InstallRecords, Extensions!Saves, Extensions!BeginsFrom,
         Later
    <3>op. op \in Operations /\ "saving" \in Steps /\ next \in Nexts
      BY <1>22, <3>1 DEF ExtTyped, Steps, Nexts, Extensions!InstallRecords,
         Extensions!At
    <3> HIDE DEF next
    <3>3. op' = None \/ (op' \in Operations /\ op'.next = next /\ op'.pc = "saving")
      BY <3>op, <3>2, OpGoesOn
    <3>4. files' \in [Ids -> {"none", "good", "bad"}]
      BY <1>22 DEF ExtTyped, Extensions!ExtTypeOK, Operations,
         Extensions!InstallRecords, Extensions!At
    <3> QED
      BY <1>22, <3>1, <3>2, <3>3, <3>4 DEF ExtTyped, Extensions!ExtTypeOK,
         Extensions!InstallRecords
  <2>2. OpFits'
    BY <1>22 DEF OpFits, EditFits, OpAt, Installing, Removing, OpIsSaving,
           EditIsSaving, ExtTyped, Extensions!ExtTypeOK, Operations, Steps, Nexts,
           Edits, Requests, Extensions!Configs, Extensions!InstallRecords,
           Extensions!At, Extensions!Saves, Extensions!BeginsFrom
  <2>3. EditFits'
    BY <1>22 DEF EditFits, OpFits, OpAt, Installing, Removing, OpIsSaving,
           EditIsSaving, ExtTyped, Extensions!ExtTypeOK, Operations, Steps, Nexts,
           Edits, Requests, Extensions!Configs, Extensions!InstallRecords,
           Extensions!At, Extensions!Saves, Extensions!BeginsFrom
  <2>4. FilesAgree'
    <3> DEFINE next == [cache EXCEPT !.plugins = cache.plugins \cup {op.id}, !.enabled = cache.enabled \cup {op.id}]
    <3>0. next \in Extensions!Configs
      BY <1>22 DEF ExtTyped, Extensions!ExtTypeOK, Extensions!Configs, Operations,
         Extensions!InstallRecords,
                Extensions!At
    <3>1. next \in Extensions!Configs /\ op' = Later(op, "saving", next)
      BY <1>22, <3>0 DEF Extensions!InstallRecords, Extensions!Saves, Later
    <3> HIDE DEF next
    <3>2. /\ op' # None /\ op'.kind = "install" /\ op'.id = op.id /\ op'.pc = "saving"
          /\ op # None /\ op.kind = "install" /\ op.pc # "saving"
      <4>1. op \in Operations /\ "saving" \in Steps /\ next \in Nexts /\ op # None /\ op.kind = "install" /\ op.pc # "saving"
        BY <1>22, <3>1 DEF ExtTyped, Steps, Nexts, Extensions!InstallRecords,
           Extensions!At
      <4> QED
        BY <3>1, <4>1, OpGoesOn
    <3> QED
      BY <1>22, <3>2 DEF FilesAgree, OpAt, Installing, Removing,
         Extensions!InstallRecords,
                  Extensions!BeginsFrom
  <2>5. BadIsBroken'
    BY <1>22 DEF BadIsBroken, OpAt, Installing, Removing, OpIsSaving, EditIsSaving,
           ExtTyped, Extensions!ExtTypeOK, Operations, Steps, Nexts, Edits,
           Requests, Extensions!Configs, Extensions!InstallRecords, Extensions!At,
           Extensions!Saves, Extensions!BeginsFrom
  <2>6. RefreshesAgree'
    BY <1>22 DEF RefreshesAgree, EditFits, OpFits, OpAt, Installing, Removing,
           OpIsSaving, EditIsSaving, ExtTyped, Extensions!ExtTypeOK, Operations,
           Steps, Nexts, Edits, Requests, Extensions!Configs,
           Extensions!InstallRecords, Extensions!At, Extensions!Saves,
           Extensions!BeginsFrom
  <2>7. ChildrenAgree'
    BY <1>22 DEF ChildrenAgree, RefreshesAgree, BadIsBroken, EditFits, OpFits, OpAt,
           Installing, Removing, OpIsSaving, EditIsSaving, ExtTyped,
           Extensions!ExtTypeOK, Operations, Steps, Nexts, Edits, Requests,
           Extensions!Configs, Extensions!InstallRecords, Extensions!At,
           Extensions!Saves, Extensions!BeginsFrom
  <2> QED
    BY <2>1, <2>2, <2>3, <2>4, <2>5, <2>6, <2>7
<1>23. ASSUME Extensions!RemoveRecords
      PROVE ExtInv'
  <2>1. ExtTyped'
    BY <1>23 DEF ExtTyped, Extensions!ExtTypeOK, Operations, Steps, Nexts, Edits,
           Requests, Extensions!Configs, Extensions!RemoveRecords, Extensions!At,
           Extensions!Saves, Extensions!BeginsFrom
  <2>2. OpFits'
    BY <1>23 DEF OpFits, EditFits, OpAt, Installing, Removing, OpIsSaving,
           EditIsSaving, ExtTyped, Extensions!ExtTypeOK, Operations, Steps, Nexts,
           Edits, Requests, Extensions!Configs, Extensions!RemoveRecords,
           Extensions!At, Extensions!Saves, Extensions!BeginsFrom
  <2>3. EditFits'
    BY <1>23 DEF EditFits, OpFits, OpAt, Installing, Removing, OpIsSaving,
           EditIsSaving, ExtTyped, Extensions!ExtTypeOK, Operations, Steps, Nexts,
           Edits, Requests, Extensions!Configs, Extensions!RemoveRecords,
           Extensions!At, Extensions!Saves, Extensions!BeginsFrom
  <2>4. FilesAgree'
    <3> DEFINE next == [cache EXCEPT !.plugins = cache.plugins \ {op.id}, !.enabled = cache.enabled \ {op.id}]
    <3>0. next \in Extensions!Configs
      BY <1>23 DEF ExtTyped, Extensions!ExtTypeOK, Extensions!Configs, Operations,
         Extensions!RemoveRecords,
                Extensions!At
    <3>1. next \in Extensions!Configs /\ op' = Later(op, "saving", next)
      BY <1>23, <3>0 DEF Extensions!RemoveRecords, Extensions!Saves, Later
    <3> HIDE DEF next
    <3>2. /\ op' # None /\ op'.kind = "remove" /\ op'.id = op.id /\ op'.pc = "saving"
          /\ op # None /\ op.kind = "remove" /\ op.pc # "saving"
      <4>1. op \in Operations /\ "saving" \in Steps /\ next \in Nexts /\ op # None /\ op.kind = "remove" /\ op.pc # "saving"
        BY <1>23, <3>1 DEF ExtTyped, Steps, Nexts, Extensions!RemoveRecords,
           Extensions!At
      <4> QED
        BY <3>1, <4>1, OpGoesOn
    <3> QED
      BY <1>23, <3>2 DEF FilesAgree, OpAt, Installing, Removing,
         Extensions!RemoveRecords,
                  Extensions!BeginsFrom
  <2>5. BadIsBroken'
    BY <1>23 DEF BadIsBroken, OpAt, Installing, Removing, OpIsSaving, EditIsSaving,
           ExtTyped, Extensions!ExtTypeOK, Operations, Steps, Nexts, Edits,
           Requests, Extensions!Configs, Extensions!RemoveRecords, Extensions!At,
           Extensions!Saves, Extensions!BeginsFrom
  <2>6. RefreshesAgree'
    BY <1>23 DEF RefreshesAgree, EditFits, OpFits, OpAt, Installing, Removing,
           OpIsSaving, EditIsSaving, ExtTyped, Extensions!ExtTypeOK, Operations,
           Steps, Nexts, Edits, Requests, Extensions!Configs,
           Extensions!RemoveRecords, Extensions!At, Extensions!Saves,
           Extensions!BeginsFrom
  <2>7. ChildrenAgree'
    BY <1>23 DEF ChildrenAgree, RefreshesAgree, BadIsBroken, EditFits, OpFits, OpAt,
           Installing, Removing, OpIsSaving, EditIsSaving, ExtTyped,
           Extensions!ExtTypeOK, Operations, Steps, Nexts, Edits, Requests,
           Extensions!Configs, Extensions!RemoveRecords, Extensions!At,
           Extensions!Saves, Extensions!BeginsFrom
  <2> QED
    BY <2>1, <2>2, <2>3, <2>4, <2>5, <2>6, <2>7
<1>24. ASSUME Extensions!OpSaved
      PROVE ExtInv'
  <2>1. ExtTyped'
    <3>1. /\ op' \in Operations /\ op' # None /\ op'.kind = op.kind /\ op'.id = op.id
          /\ op'.pc = "refreshing" /\ op'.next = asked + 1
          /\ op \in Operations /\ op # None /\ op.pc = "saving"
      <4>1. /\ op \in Operations /\ op # None /\ op.pc = "saving"
            /\ "refreshing" \in Steps /\ asked + 1 \in Nexts
            /\ op' = Later(op, "refreshing", asked + 1)
        BY <1>24 DEF ExtTyped, Steps, Nexts, Extensions!OpSaved, Later
      <4> QED
        BY <4>1, OpGoesOn
    <3>2. files' \in [Ids -> {"none", "good", "bad"}]
      BY <1>24, <3>1 DEF ExtTyped, Extensions!ExtTypeOK, Extensions!OpSaved,
         Extensions!Unlink
    <3> QED
      BY <1>24, <3>1, <3>2 DEF ExtTyped, Extensions!ExtTypeOK, Extensions!OpSaved,
         Extensions!Written,
                  Extensions!Retain
  <2>2. OpFits'
    BY <1>24 DEF OpFits, EditFits, OpAt, Installing, Removing, OpIsSaving,
           EditIsSaving, ExtTyped, Extensions!ExtTypeOK, Operations, Steps, Nexts,
           Edits, Requests, Extensions!Configs, Extensions!OpSaved,
           Extensions!Written, Extensions!Retain, Extensions!Unlink
  <2>3. EditFits'
    BY <1>24 DEF EditFits, OpFits, OpAt, Installing, Removing, OpIsSaving,
           EditIsSaving, ExtTyped, Extensions!ExtTypeOK, Operations, Steps, Nexts,
           Edits, Requests, Extensions!Configs, Extensions!OpSaved,
           Extensions!Written, Extensions!Retain, Extensions!Unlink
  <2>4. FilesAgree'
    <3>1. /\ op' \in Operations /\ op' # None /\ op'.kind = op.kind /\ op'.id = op.id
          /\ op'.pc = "refreshing" /\ op'.next = asked + 1
          /\ op \in Operations /\ op # None /\ op.pc = "saving"
      <4>1. /\ op \in Operations /\ op # None /\ op.pc = "saving"
            /\ "refreshing" \in Steps /\ asked + 1 \in Nexts
            /\ op' = Later(op, "refreshing", asked + 1)
        BY <1>24 DEF ExtTyped, Steps, Nexts, Extensions!OpSaved, Later
      <4> QED
        BY <4>1, OpGoesOn
    <3>2. op.kind \in {"install", "enable", "update", "remove"} /\ op.id \in Ids
      BY <3>1 DEF Operations
    <3>3. ~overlapped => cache'.plugins =
               CASE op.kind = "install" -> cache.plugins \cup {op.id}
                 [] op.kind = "remove" -> cache.plugins \ {op.id}
                 [] OTHER -> cache.plugins
      BY <1>24, <3>1 DEF OpFits, OpIsSaving, Extensions!OpSaved, Extensions!Written
    <3>4. overlapped' = overlapped /\ dangling' = dangling /\ leftBehind' = leftBehind
      BY <1>24 DEF Extensions!OpSaved, Extensions!history
    <3>5. files \in [Ids -> {"none", "good", "bad"}] /\ \A i \in Ids : ~Installing(i)' /\ ~Removing(i)'
      BY <3>1 DEF ExtTyped, Extensions!ExtTypeOK, Installing, Removing, OpAt
    <3>6. CASE op.kind = "install"
      <4>1. /\ files' = files
            /\ \A i \in Ids : (Installing(i) => i = op.id) /\ ~Removing(i)
            /\ ~overlapped => /\ files[op.id] # "none"
                               /\ cache'.plugins = cache.plugins \cup {op.id}
        BY <1>24, <3>1, <3>2, <3>3, <3>6
        DEF OpFits, OpAt, Installing, Removing, Extensions!OpSaved, Extensions!Unlink
      <4> QED
        BY <3>1, <3>4, <3>5, <4>1 DEF FilesAgree, OpAt, Installing, Removing
    <3>7. CASE op.kind = "remove"
      <4>1. /\ \A i \in Ids : files'[i] = IF i = op.id THEN "none" ELSE files[i]
            /\ \A i \in Ids : ~Installing(i) /\ (Removing(i) => i = op.id)
            /\ ~overlapped => cache'.plugins = cache.plugins \ {op.id}
        <5>1. op.id \notin Linked => files[op.id] = "none"
          BY <3>1, <3>7 DEF OpFits, OpAt
        <5> QED
          BY <1>24, <3>1, <3>2, <3>3, <3>5, <3>7, <5>1
          DEF OpAt, Installing, Removing, Extensions!OpSaved, Extensions!Unlink
      <4> QED
        BY <3>1, <3>4, <3>5, <4>1 DEF FilesAgree, OpAt, Installing, Removing
    <3>8. CASE op.kind \in {"enable", "update"}
      BY <1>24, <3>1, <3>2, <3>3, <3>4, <3>5, <3>8
      DEF FilesAgree, OpFits, OpAt, Installing, Removing, Extensions!OpSaved, Extensions!Unlink
    <3> QED
      BY <3>2, <3>6, <3>7, <3>8
  <2>5. BadIsBroken'
    BY <1>24 DEF BadIsBroken, OpAt, Installing, Removing, OpIsSaving, EditIsSaving,
           ExtTyped, Extensions!ExtTypeOK, Operations, Steps, Nexts, Edits,
           Requests, Extensions!Configs, Extensions!OpSaved, Extensions!Written,
           Extensions!Retain, Extensions!Unlink
  <2>6. RefreshesAgree'
    <3>1. /\ op' \in Operations /\ op' # None /\ op'.kind = op.kind /\ op'.id = op.id
          /\ op'.pc = "refreshing" /\ op'.next = asked + 1
          /\ op \in Operations /\ op # None /\ op.pc = "saving"
      <4>1. /\ op \in Operations /\ op # None /\ op.pc = "saving"
            /\ "refreshing" \in Steps /\ asked + 1 \in Nexts
            /\ op' = Later(op, "refreshing", asked + 1)
        BY <1>24 DEF ExtTyped, Steps, Nexts, Extensions!OpSaved, Later
      <4> QED
        BY <4>1, OpGoesOn
    <3> QED
      BY <1>24, <3>1 DEF ExtTyped, Extensions!ExtTypeOK, RefreshesAgree,
         Extensions!OpSaved
  <2>7. ChildrenAgree'
    BY <1>24 DEF ChildrenAgree, RefreshesAgree, BadIsBroken, EditFits, OpFits, OpAt,
           Installing, Removing, OpIsSaving, EditIsSaving, ExtTyped,
           Extensions!ExtTypeOK, Operations, Steps, Nexts, Edits, Requests,
           Extensions!Configs, Extensions!OpSaved, Extensions!Written,
           Extensions!Retain, Extensions!Unlink
  <2> QED
    BY <2>1, <2>2, <2>3, <2>4, <2>5, <2>6, <2>7
<1>25. ASSUME Extensions!EditSaves
      PROVE ExtInv'
  <2>1. ExtTyped'
    BY <1>25 DEF ExtTyped, Extensions!ExtTypeOK, Operations, Steps, Nexts, Edits,
           Requests, Extensions!Configs, Extensions!EditSaves, Extensions!BeginsFrom
  <2>2. OpFits'
    BY <1>25 DEF OpFits, EditFits, OpAt, Installing, Removing, OpIsSaving,
           EditIsSaving, ExtTyped, Extensions!ExtTypeOK, Operations, Steps, Nexts,
           Edits, Requests, Extensions!Configs, Extensions!EditSaves,
           Extensions!BeginsFrom
  <2>3. EditFits'
    BY <1>25 DEF EditFits, OpFits, OpAt, Installing, Removing, OpIsSaving,
           EditIsSaving, ExtTyped, Extensions!ExtTypeOK, Operations, Steps, Nexts,
           Edits, Requests, Extensions!Configs, Extensions!EditSaves,
           Extensions!BeginsFrom
  <2>4. FilesAgree'
    BY <1>25 DEF FilesAgree, OpFits, EditFits, OpAt, Installing, Removing,
           OpIsSaving, EditIsSaving, ExtTyped, Extensions!ExtTypeOK, Operations,
           Steps, Nexts, Edits, Requests, Extensions!Configs, Extensions!EditSaves,
           Extensions!BeginsFrom
  <2>5. BadIsBroken'
    BY <1>25 DEF BadIsBroken, OpAt, Installing, Removing, OpIsSaving, EditIsSaving,
           ExtTyped, Extensions!ExtTypeOK, Operations, Steps, Nexts, Edits,
           Requests, Extensions!Configs, Extensions!EditSaves, Extensions!BeginsFrom
  <2>6. RefreshesAgree'
    BY <1>25 DEF RefreshesAgree, EditFits, OpFits, OpAt, Installing, Removing,
           OpIsSaving, EditIsSaving, ExtTyped, Extensions!ExtTypeOK, Operations,
           Steps, Nexts, Edits, Requests, Extensions!Configs, Extensions!EditSaves,
           Extensions!BeginsFrom
  <2>7. ChildrenAgree'
    BY <1>25 DEF ChildrenAgree, RefreshesAgree, BadIsBroken, EditFits, OpFits, OpAt,
           Installing, Removing, OpIsSaving, EditIsSaving, ExtTyped,
           Extensions!ExtTypeOK, Operations, Steps, Nexts, Edits, Requests,
           Extensions!Configs, Extensions!EditSaves, Extensions!BeginsFrom
  <2> QED
    BY <2>1, <2>2, <2>3, <2>4, <2>5, <2>6, <2>7
<1>26. ASSUME Extensions!RefreshEnds
      PROVE ExtInv'
  <2>1. ExtTyped'
    <3>1. done' \in Nat /\ done' <= asked'
      BY <1>26 DEF ExtTyped, RefreshesAgree, Extensions!RefreshEnds
    <3>2. /\ good' \in BOOLEAN /\ enabledCell' \subseteq Ids /\ supervisedCell' \subseteq Ids
          /\ owners' \subseteq Ids /\ children' \subseteq Ids
      BY <1>26 DEF ExtTyped, Extensions!ExtTypeOK, Extensions!Configs,
         Extensions!RefreshEnds,
                Extensions!Present, Extensions!Retain
    <3> QED
      BY <1>26, <3>1, <3>2 DEF ExtTyped, Extensions!ExtTypeOK, Extensions!RefreshEnds
  <2>2. OpFits'
    BY <1>26 DEF OpFits, EditFits, OpAt, Installing, Removing, OpIsSaving,
           EditIsSaving, ExtTyped, Extensions!ExtTypeOK, Operations, Steps, Nexts,
           Edits, Requests, Extensions!Configs, Extensions!RefreshEnds,
           Extensions!Present, Extensions!Retain
  <2>3. EditFits'
    BY <1>26 DEF EditFits, OpFits, OpAt, Installing, Removing, OpIsSaving,
           EditIsSaving, ExtTyped, Extensions!ExtTypeOK, Operations, Steps, Nexts,
           Edits, Requests, Extensions!Configs, Extensions!RefreshEnds,
           Extensions!Present, Extensions!Retain
  <2>4. FilesAgree'
    BY <1>26 DEF FilesAgree, OpFits, EditFits, OpAt, Installing, Removing,
           OpIsSaving, EditIsSaving, ExtTyped, Extensions!ExtTypeOK, Operations,
           Steps, Nexts, Edits, Requests, Extensions!Configs,
           Extensions!RefreshEnds, Extensions!Present, Extensions!Retain
  <2>5. BadIsBroken'
    BY <1>26 DEF BadIsBroken, OpAt, Installing, Removing, OpIsSaving, EditIsSaving,
           ExtTyped, Extensions!ExtTypeOK, Operations, Steps, Nexts, Edits,
           Requests, Extensions!Configs, Extensions!RefreshEnds, Extensions!Present,
           Extensions!Retain
  <2>6. RefreshesAgree'
    BY <1>26 DEF RefreshesAgree, EditFits, OpFits, OpAt, Installing, Removing,
           OpIsSaving, EditIsSaving, ExtTyped, Extensions!ExtTypeOK, Operations,
           Steps, Nexts, Edits, Requests, Extensions!Configs,
           Extensions!RefreshEnds, Extensions!Present, Extensions!Retain
  <2>7. ChildrenAgree'
    BY <1>26 DEF ChildrenAgree, RefreshesAgree, BadIsBroken, EditFits, OpFits, OpAt,
           Installing, Removing, OpIsSaving, EditIsSaving, ExtTyped,
           Extensions!ExtTypeOK, Operations, Steps, Nexts, Edits, Requests,
           Extensions!Configs, Extensions!RefreshEnds, Extensions!Present,
           Extensions!Retain
  <2> QED
    BY <2>1, <2>2, <2>3, <2>4, <2>5, <2>6, <2>7
<1> QED
  BY <1>1, <1>2, <1>3, <1>4, <1>5, <1>6, <1>7, <1>8, <1>9, <1>10, <1>11, <1>12,
     <1>13, <1>14, <1>15, <1>16, <1>17, <1>18, <1>19, <1>20, <1>21, <1>22, <1>23,
     <1>24, <1>25, <1>26
  DEF Extensions!ExtNext

(* What the invariant of the extensions was built for.                               *)
LEMMA ExtInvSound ==
  ExtInv => Extensions!InertWhenDisabled /\ Extensions!FilesMatchRecords
<1> SUFFICES ASSUME ExtInv
             PROVE  Extensions!InertWhenDisabled /\ Extensions!FilesMatchRecords
  OBVIOUS
<1>1. Extensions!Settled => op = None /\ done = asked
  BY DEF ExtInv, RefreshesAgree, Extensions!Settled
<1>2. Extensions!InertWhenDisabled
  BY <1>1 DEF ExtInv, ChildrenAgree, Extensions!InertWhenDisabled
<1>3. op = None => \A i \in Ids : ~Installing(i) /\ ~Removing(i)
  BY DEF Installing, Removing, OpAt
<1>4. Extensions!FilesMatchRecords
  BY <1>1, <1>3 DEF ExtInv, FilesAgree, BadIsBroken, OpAt, ExtTyped,
         Extensions!ExtTypeOK, Extensions!Configs, Extensions!FilesMatchRecords,
         Extensions!Present
<1> QED
  BY <1>2, <1>4

-----------------------------------------------------------------------------
(***************************************************************************)
(* The updater.                                                            *)
(***************************************************************************)

(* Downloads begin in turn; the window asks for one snapshot as each begins and   *)
(* for one more in each cycle of its polling.                                 *)
AskedAgree ==
  \E n \in 0..MaxDownloads :
    /\ \A d \in 1..MaxDownloads : downloads[d] # "none" <=> d <= n
    /\ awaited <= reads + n

(* While a download that nothing crossed is under way there is no other, no check   *)
(* of the network and no install, and no other phase is on its way to the window.   *)
UncrossedIsAlone ==
  ~crossed => \A d \in 1..MaxDownloads : Updates!Downloading(d) =>
    /\ coming \subseteq {"downloading"} /\ ~applying
    /\ \A c \in 1..MaxChecks : checks[c] # "asking"
    /\ \A b \in 1..MaxDownloads : Updates!Downloading(b) => b = d

UpdateInv ==
  /\ Updates!UpdateTypeOK
  /\ AskedAgree
  /\ Updates!PhaseHasWork
  /\ Updates!DownloadIsSeen
  /\ UncrossedIsAlone

(* The bounds of the updater are numbers.                                       *)
LEMMA UpdateBounds == MaxChecks \in Nat /\ MaxDownloads \in Nat /\ MaxReads \in Nat
BY DesktopAssumption

(* The invariant holds at the start.                                          *)
LEMMA UpdateInvInit == Updates!UpdateInit => UpdateInv
<1> SUFFICES ASSUME Updates!UpdateInit
             PROVE UpdateInv
  OBVIOUS
<1> USE UpdateBounds DEF Updates!UpdateInit
<1>1. Updates!UpdateTypeOK
  <2>1. 0 \in 0..MaxReads /\ 0 \in 0..(MaxReads + MaxDownloads)
    OBVIOUS
  <2> QED
    BY <2>1 DEF Updates!UpdateTypeOK, Updates!Phases
<1>2. AskedAgree
  <2>1. /\ 0 \in 0..MaxDownloads /\ awaited <= reads + 0
        /\ \A d \in 1..MaxDownloads : downloads[d] # "none" <=> d <= 0
    OBVIOUS
  <2> QED
    BY <2>1 DEF AskedAgree
<1>3. Updates!PhaseHasWork /\ Updates!DownloadIsSeen /\ UncrossedIsAlone
  BY DEF Updates!PhaseHasWork, Updates!DownloadIsSeen, UncrossedIsAlone,
     Updates!Downloading
<1> QED
  BY <1>1, <1>2, <1>3 DEF UpdateInv

(* A check that the user asked for ends: another may begin, none is asking.       *)
LEMMA BuildsKeeps ==
  ASSUME UpdateInv, NEW c \in 1..MaxChecks, Updates!Builds(c)
  PROVE UpdateInv'
<1> USE DEF UpdateInv, AskedAgree, UncrossedIsAlone, Updates!UpdateTypeOK, Updates!Phases
<1> DEFINE again == {b \in 1..MaxChecks : checks[b] = "none" /\
                       \A a \in 1..MaxChecks : a < b => checks[a] # "none"}
           more == IF origin[c] = "user" THEN again ELSE {}
<1>1. /\ checks' = [b \in 1..MaxChecks |->
             IF b = c THEN "done" ELSE IF b \in more THEN "loading" ELSE checks[b]]
      /\ origin' = [b \in 1..MaxChecks |-> IF b \in more THEN "push" ELSE origin[b]]
      /\ ~quitting /\ checks[c] = "building" /\ coming' \in {coming \union {phase}, coming}
      /\ UNCHANGED <<phase, downloads, applying, quitting, seen, awaited, reads, crossed, stayed, missed>>
  BY DEF Updates!Builds
<1>more. \A b \in more : checks[b] = "none"
  OBVIOUS
<1> HIDE DEF more
<1>2. \A b \in 1..MaxChecks : checks'[b] = "asking" <=> checks[b] = "asking"
  BY <1>1, <1>more
<1>3. Updates!UpdateTypeOK'
  BY <1>1
<1>4. Updates!PhaseHasWork'
  BY <1>1, <1>2 DEF Updates!PhaseHasWork, Updates!Downloading
<1>5. Updates!DownloadIsSeen' /\ UncrossedIsAlone'
  BY <1>1, <1>2 DEF Updates!DownloadIsSeen, Updates!Downloading
<1>6. AskedAgree'
  BY <1>1
<1> QED
  BY <1>3, <1>4, <1>5, <1>6

(* A download begins, or a cycle of polling: one more snapshot is asked for.        *)
LEMMA UserDownloadsAsks ==
  ASSUME UpdateInv, NEW d \in 1..MaxDownloads, NEW answered \in BOOLEAN,
         Updates!UserDownloads(d, answered)
  PROVE AskedAgree'
<1> USE UpdateBounds DEF UpdateInv, Updates!UpdateTypeOK
<1>1. PICK n \in 0..MaxDownloads : /\ \A b \in 1..MaxDownloads : downloads[b] # "none" <=> b <= n
                                  /\ awaited <= reads + n
  BY DEF AskedAgree
<1>2. d = n + 1
  BY <1>1, n \in 1..MaxDownloads \/ n = 0, n + 1 \in 1..MaxDownloads \/ n = MaxDownloads
  DEF Updates!UserDownloads
<1>3. /\ n + 1 \in 0..MaxDownloads /\ awaited' <= reads' + (n + 1)
      /\ \A b \in 1..MaxDownloads : downloads'[b] # "none" <=> b <= n + 1
  BY <1>1, <1>2 DEF Updates!UserDownloads
<1> QED
  BY <1>3 DEF AskedAgree

(* A cycle of the polling.                                                    *)
LEMMA RefreshesAsks ==
  ASSUME UpdateInv, Updates!Refreshes
  PROVE AskedAgree'
<1> USE UpdateBounds DEF UpdateInv, Updates!UpdateTypeOK
<1>1. PICK n \in 0..MaxDownloads : /\ \A b \in 1..MaxDownloads : downloads[b] # "none" <=> b <= n
                                  /\ awaited <= reads + n
  BY DEF AskedAgree
<1>2. awaited' <= reads' + n
  BY <1>1 DEF Updates!Refreshes
<1> QED
  BY <1>1, <1>2 DEF AskedAgree, Updates!Refreshes

(* A snapshot is taken: one less is asked for.                                  *)
LEMMA SnapshotAsks ==
  ASSUME UpdateInv, Updates!Snapshot
  PROVE AskedAgree'
<1> USE UpdateBounds DEF UpdateInv, Updates!UpdateTypeOK
<1>1. PICK n \in 0..MaxDownloads : /\ \A b \in 1..MaxDownloads : downloads[b] # "none" <=> b <= n
                                  /\ awaited <= reads + n
  BY DEF AskedAgree
<1>2. awaited' <= reads' + n
  BY <1>1 DEF Updates!Snapshot
<1> QED
  BY <1>1, <1>2 DEF AskedAgree, Updates!Snapshot

(* Every step of the updater keeps the invariant.                                *)
LEMMA UpdateInvInductive == UpdateInv /\ [Updates!UpdateNext]_updaterVars => UpdateInv'
<1> SUFFICES ASSUME UpdateInv, [Updates!UpdateNext]_updaterVars
             PROVE UpdateInv'
  OBVIOUS
<1> USE UpdateBounds DEF AskedAgree, UncrossedIsAlone, Updates!UpdateTypeOK,
            Updates!PhaseHasWork, Updates!DownloadIsSeen, Updates!Phases,
            Updates!Downloading, Updates!Checking, UpdateInv
<1>1. ASSUME NEW c \in 1..MaxChecks, Updates!Polls(c)
      PROVE UpdateInv'
  BY <1>1 DEF Updates!Polls, Updates!Begins
<1>2. ASSUME NEW c \in 1..MaxChecks, Updates!UserChecks(c)
      PROVE UpdateInv'
  BY <1>2 DEF Updates!UserChecks, Updates!Begins
<1>3. ASSUME NEW c \in 1..MaxChecks, Updates!Asks(c)
      PROVE UpdateInv'
  BY <1>3 DEF Updates!Asks
<1>4. ASSUME NEW c \in 1..MaxChecks, Updates!Answers(c)
      PROVE UpdateInv'
  BY <1>4 DEF Updates!Answers
<1>5. ASSUME NEW c \in 1..MaxChecks, Updates!Builds(c)
      PROVE UpdateInv'
  BY <1>5, BuildsKeeps
<1>6. ASSUME NEW d \in 1..MaxDownloads, NEW answered \in BOOLEAN, Updates!UserDownloads(d, answered)
      PROVE UpdateInv'
  <2> HIDE DEF AskedAgree
  <2>1. AskedAgree'
    BY <1>6, UserDownloadsAsks
  <2>2. \E n \in 0..MaxDownloads : awaited' <= reads' + n
    BY <2>1 DEF AskedAgree
  <2>a. awaited' \in 0..(MaxReads + MaxDownloads)
    <3>1. awaited \in Nat /\ reads \in 0..MaxReads /\ reads' = reads /\ awaited' \in {awaited, awaited + 1}
      BY <1>6 DEF Updates!UserDownloads
    <3> QED
      BY <2>2, <3>1
  <2>3. Updates!UpdateTypeOK'
    BY <1>6, <2>a DEF Updates!UserDownloads
  <2>4. Updates!PhaseHasWork' /\ Updates!DownloadIsSeen'
    BY <1>6 DEF Updates!UserDownloads
  <2>5. UncrossedIsAlone'
    BY <1>6 DEF Updates!UserDownloads
  <2> QED
    BY <2>1, <2>3, <2>4, <2>5
<1>7. ASSUME NEW d \in 1..MaxDownloads, Updates!Reports(d)
      PROVE UpdateInv'
  BY <1>7 DEF Updates!Reports
<1>8. ASSUME NEW d \in 1..MaxDownloads, Updates!Completes(d)
      PROVE UpdateInv'
  BY <1>8 DEF Updates!Completes
<1>9. ASSUME NEW d \in 1..MaxDownloads, Updates!Fails(d)
      PROVE UpdateInv'
  BY <1>9 DEF Updates!Fails
<1>10. ASSUME Updates!UserApplies
      PROVE UpdateInv'
  BY <1>10 DEF Updates!UserApplies
<1>11. ASSUME Updates!Applied
      PROVE UpdateInv'
  BY <1>11 DEF Updates!Applied
<1>12. ASSUME Updates!Refreshes
      PROVE UpdateInv'
  <2> HIDE DEF AskedAgree
  <2>1. AskedAgree'
    BY <1>12, RefreshesAsks
  <2>2. \E n \in 0..MaxDownloads : awaited' <= reads' + n
    BY <2>1 DEF AskedAgree
  <2>3. Updates!UpdateTypeOK'
    BY <1>12, <2>2 DEF Updates!Refreshes
  <2> QED
    BY <1>12, <2>1, <2>3 DEF Updates!Refreshes
<1>13. ASSUME Updates!Snapshot
      PROVE UpdateInv'
  <2> HIDE DEF AskedAgree
  <2>1. AskedAgree'
    BY <1>13, SnapshotAsks
  <2>2. awaited' \in 0..(MaxReads + MaxDownloads)
    BY <1>13 DEF Updates!Snapshot
  <2>3. Updates!UpdateTypeOK' /\ Updates!PhaseHasWork' /\ UncrossedIsAlone'
    BY <1>13, <2>2 DEF Updates!Snapshot
  <2>4. Updates!DownloadIsSeen'
    BY <1>13 DEF Updates!Snapshot
  <2> QED
    BY <2>1, <2>3, <2>4
<1>14. ASSUME NEW p \in Updates!Phases, Updates!Adopts(p)
      PROVE UpdateInv'
  <2>1. AskedAgree'
    BY <1>14 DEF Updates!Adopts
  <2> HIDE DEF AskedAgree
  <2>2. Updates!UpdateTypeOK' /\ Updates!PhaseHasWork'
    BY <1>14 DEF Updates!Adopts
  <2>3. Updates!DownloadIsSeen' /\ UncrossedIsAlone'
    BY <1>14 DEF Updates!Adopts
  <2> QED
    BY <2>1, <2>2, <2>3
<1>15. CASE UNCHANGED updaterVars
  <2>1. AskedAgree'
    BY <1>15 DEF updaterVars
  <2> HIDE DEF AskedAgree
  <2>2. Updates!UpdateTypeOK' /\ Updates!PhaseHasWork'
    BY <1>15 DEF updaterVars
  <2>3. Updates!DownloadIsSeen' /\ UncrossedIsAlone'
    BY <1>15 DEF updaterVars
  <2> QED
    BY <2>1, <2>2, <2>3
<1> QED
  BY <1>1, <1>2, <1>3, <1>4, <1>5, <1>6, <1>7, <1>8, <1>9, <1>10, <1>11, <1>12,
     <1>13, <1>14, <1>15
  DEF Updates!UpdateNext

-----------------------------------------------------------------------------
(***************************************************************************)
(* The shell of the application: the quit gate and the watchdog.                *)
(***************************************************************************)

(* The quit is issued again once; a host that thinks a page with an open socket is   *)
(* lost has seen a close out of order.                                        *)
ShellTyped == Shell!ShellTypeOK /\ sockets \in 0..MaxSockets
QuitsOnce == quit # "exited" => requits = 0
LostIsLate == socket # 0 /\ ~connected => late

ShellInv == ShellTyped /\ QuitsOnce /\ Shell!QuitDrains /\ Shell!WatchdogWatches /\ LostIsLate

(* The invariant holds at the start.                                          *)
LEMMA ShellInvInit == Shell!ShellInit => ShellInv
<1>1. Shell!ShellInit => ShellTyped
  <2>1. 0 \in 0..MaxAttempts /\ 0 \in 0..MaxSockets /\ 0 \in 0..1
    BY DesktopAssumption
  <2> QED
    BY <2>1 DEF Shell!ShellInit, ShellTyped, Shell!ShellTypeOK
<1> QED
  BY <1>1 DEF Shell!ShellInit, ShellInv, QuitsOnce, LostIsLate, Shell!QuitDrains,
              Shell!WatchdogWatches

(* Every step of the shell keeps the invariant.                                  *)
LEMMA ShellInvInductive == ShellInv /\ [Shell!ShellNext]_desktopVars => ShellInv'
<1> SUFFICES ASSUME ShellInv, [Shell!ShellNext]_desktopVars
             PROVE ShellInv'
  OBVIOUS
<1> USE DesktopAssumption DEF Shell!startVars, Shell!quitVars, Shell!watchVars,
            Shell!Running, ShellInv
<1> USE DEF ShellTyped, QuitsOnce, Shell!ShellTypeOK, Shell!QuitDrains,
            Shell!WatchdogWatches, LostIsLate
<1>1. ASSUME Shell!KeyPersisted
      PROVE ShellInv'
  BY <1>1 DEF Shell!KeyPersisted
<1>2. ASSUME Shell!WindowOpens
      PROVE ShellInv'
  BY <1>2 DEF Shell!WindowOpens
<1>3. ASSUME Shell!GateInstalls
      PROVE ShellInv'
  BY <1>3 DEF Shell!GateInstalls
<1>4. CASE UNCHANGED desktopVars
  BY <1>4 DEF desktopVars
<1> HIDE DEF ShellTyped, QuitsOnce, Shell!ShellTypeOK, Shell!QuitDrains,
             Shell!WatchdogWatches, LostIsLate
<1>5. ASSUME Shell!BurstStarts
      PROVE ShellInv'
  <2>1. ShellTyped'
    BY <1>5 DEF ShellTyped, QuitsOnce, Shell!ShellTypeOK, Shell!BurstStarts
  <2>2. QuitsOnce'
    BY <1>5 DEF QuitsOnce, Shell!BurstStarts
  <2>3. Shell!QuitDrains'
    BY <1>5 DEF Shell!QuitDrains, Shell!ShellTypeOK, ShellTyped, Shell!BurstStarts
  <2>4. Shell!WatchdogWatches'
    BY <1>5 DEF Shell!WatchdogWatches, LostIsLate, Shell!ShellTypeOK, ShellTyped,
           Shell!BurstStarts
  <2>5. LostIsLate'
    BY <1>5 DEF LostIsLate, Shell!ShellTypeOK, ShellTyped, Shell!BurstStarts
  <2> QED
    BY <2>1, <2>2, <2>3, <2>4, <2>5
<1>6. ASSUME Shell!UserQuits
      PROVE ShellInv'
  <2>1. ShellTyped'
    BY <1>6 DEF ShellTyped, QuitsOnce, Shell!ShellTypeOK, Shell!UserQuits,
           Shell!Gated, Shell!Exits
  <2>2. QuitsOnce'
    BY <1>6 DEF QuitsOnce, Shell!UserQuits, Shell!Gated, Shell!Exits
  <2>3. Shell!QuitDrains'
    BY <1>6 DEF Shell!QuitDrains, Shell!ShellTypeOK, ShellTyped, Shell!UserQuits,
           Shell!Gated, Shell!Exits
  <2>4. Shell!WatchdogWatches'
    BY <1>6 DEF Shell!WatchdogWatches, LostIsLate, Shell!ShellTypeOK, ShellTyped,
           Shell!UserQuits, Shell!Gated, Shell!Exits
  <2>5. LostIsLate'
    BY <1>6 DEF LostIsLate, Shell!ShellTypeOK, ShellTyped, Shell!UserQuits,
           Shell!Gated, Shell!Exits
  <2> QED
    BY <2>1, <2>2, <2>3, <2>4, <2>5
<1>7. ASSUME Shell!DrainEnds
      PROVE ShellInv'
  <2>1. ShellTyped'
    <3>1. requits' = 1 /\ 1 \in 0..1
      BY <1>7 DEF QuitsOnce, Shell!DrainEnds, Shell!Finish, Shell!Exits
    <3> QED
      BY <1>7, <3>1 DEF ShellTyped, Shell!ShellTypeOK, Shell!DrainEnds, Shell!Finish,
         Shell!Exits
  <2>2. QuitsOnce'
    BY <1>7 DEF QuitsOnce, Shell!DrainEnds, Shell!Finish, Shell!Exits
  <2>3. Shell!QuitDrains'
    BY <1>7 DEF Shell!QuitDrains, Shell!ShellTypeOK, ShellTyped, Shell!DrainEnds,
           Shell!Finish, Shell!Exits
  <2>4. Shell!WatchdogWatches'
    BY <1>7 DEF Shell!WatchdogWatches, LostIsLate, Shell!ShellTypeOK, ShellTyped,
           Shell!DrainEnds, Shell!Finish, Shell!Exits
  <2>5. LostIsLate'
    BY <1>7 DEF LostIsLate, Shell!ShellTypeOK, ShellTyped, Shell!DrainEnds,
           Shell!Finish, Shell!Exits
  <2> QED
    BY <2>1, <2>2, <2>3, <2>4, <2>5
<1>8. ASSUME Shell!DrainCapFires
      PROVE ShellInv'
  <2>1. ShellTyped'
    <3>1. requits' = 1 /\ 1 \in 0..1
      BY <1>8 DEF QuitsOnce, Shell!DrainCapFires, Shell!Finish, Shell!Exits
    <3> QED
      BY <1>8, <3>1 DEF ShellTyped, Shell!ShellTypeOK, Shell!DrainCapFires,
         Shell!Finish, Shell!Exits
  <2>2. QuitsOnce'
    BY <1>8 DEF QuitsOnce, Shell!DrainCapFires, Shell!Finish, Shell!Exits
  <2>3. Shell!QuitDrains'
    BY <1>8 DEF Shell!QuitDrains, Shell!ShellTypeOK, ShellTyped,
           Shell!DrainCapFires, Shell!Finish, Shell!Exits
  <2>4. Shell!WatchdogWatches'
    BY <1>8 DEF Shell!WatchdogWatches, LostIsLate, Shell!ShellTypeOK, ShellTyped,
           Shell!DrainCapFires, Shell!Finish, Shell!Exits
  <2>5. LostIsLate'
    BY <1>8 DEF LostIsLate, Shell!ShellTypeOK, ShellTyped, Shell!DrainCapFires,
           Shell!Finish, Shell!Exits
  <2> QED
    BY <2>1, <2>2, <2>3, <2>4, <2>5
<1>9. ASSUME Shell!PageConnects
      PROVE ShellInv'
  <2>1. ShellTyped'
    BY <1>9 DEF ShellTyped, QuitsOnce, Shell!ShellTypeOK, Shell!PageConnects
  <2>2. QuitsOnce'
    BY <1>9 DEF QuitsOnce, Shell!PageConnects
  <2>3. Shell!QuitDrains'
    BY <1>9 DEF Shell!QuitDrains, Shell!ShellTypeOK, ShellTyped, Shell!PageConnects
  <2>4. Shell!WatchdogWatches'
    BY <1>9 DEF Shell!WatchdogWatches, LostIsLate, Shell!ShellTypeOK, ShellTyped,
           Shell!PageConnects
  <2>5. LostIsLate'
    BY <1>9 DEF LostIsLate, Shell!ShellTypeOK, ShellTyped, Shell!PageConnects
  <2> QED
    BY <2>1, <2>2, <2>3, <2>4, <2>5
<1>10. ASSUME Shell!SocketEnds
      PROVE ShellInv'
  <2>1. ShellTyped'
    BY <1>10 DEF ShellTyped, QuitsOnce, Shell!ShellTypeOK, Shell!SocketEnds
  <2>2. QuitsOnce'
    BY <1>10 DEF QuitsOnce, Shell!SocketEnds
  <2>3. Shell!QuitDrains'
    BY <1>10 DEF Shell!QuitDrains, Shell!ShellTypeOK, ShellTyped, Shell!SocketEnds
  <2>4. Shell!WatchdogWatches'
    BY <1>10 DEF Shell!WatchdogWatches, LostIsLate, Shell!ShellTypeOK, ShellTyped,
           Shell!SocketEnds
  <2>5. LostIsLate'
    BY <1>10 DEF LostIsLate, Shell!ShellTypeOK, ShellTyped, Shell!SocketEnds
  <2> QED
    BY <2>1, <2>2, <2>3, <2>4, <2>5
<1>11. ASSUME Shell!TimerFires
      PROVE ShellInv'
  <2>1. ShellTyped'
    <3>1. attempts' \in 0..MaxAttempts /\ timer' \in {"none", "backoff"}
      BY <1>11 DEF ShellTyped, Shell!ShellTypeOK, Shell!TimerFires
    <3>2. closing' \subseteq 1..MaxSockets /\ socket' \in 0..MaxSockets
      <4>1. \/ UNCHANGED <<closing, socket>>
            \/ socket' = 0 /\ closing' = IF socket = 0 THEN closing ELSE closing \union {socket}
        BY <1>11 DEF Shell!TimerFires, Shell!Reloads
      <4>2. 0 \in 0..MaxSockets /\ (socket = 0 \/ socket \in 1..MaxSockets)
        BY DEF ShellTyped, Shell!ShellTypeOK
      <4> QED
        BY <4>1, <4>2 DEF ShellTyped, Shell!ShellTypeOK
    <3>3. page' \in {"none", "live", "dead"} /\ gaveUp' \in {gaveUp, TRUE}
      BY <1>11 DEF ShellTyped, Shell!ShellTypeOK, Shell!TimerFires, Shell!Reloads
    <3> QED
      BY <1>11, <3>1, <3>2, <3>3 DEF ShellTyped, Shell!ShellTypeOK, Shell!TimerFires
  <2>2. QuitsOnce'
    BY <1>11 DEF QuitsOnce, Shell!TimerFires, Shell!Reloads
  <2>3. Shell!QuitDrains'
    BY <1>11 DEF Shell!QuitDrains, Shell!ShellTypeOK, ShellTyped, Shell!TimerFires,
           Shell!Reloads
  <2>4. Shell!WatchdogWatches'
    BY <1>11 DEF Shell!WatchdogWatches, LostIsLate, Shell!ShellTypeOK, ShellTyped,
           Shell!TimerFires, Shell!Reloads
  <2>5. LostIsLate'
    BY <1>11 DEF LostIsLate, Shell!ShellTypeOK, ShellTyped, Shell!TimerFires,
           Shell!Reloads
  <2> QED
    BY <2>1, <2>2, <2>3, <2>4, <2>5
<1>12. ASSUME NEW s \in 1..MaxSockets, Shell!HostSeesClose(s)
      PROVE ShellInv'
  <2>1. ShellTyped'
    <3>1. connected' \in BOOLEAN /\ timer' \in {"none", "grace", "backoff"}
      BY <1>12 DEF ShellTyped, Shell!ShellTypeOK, Shell!HostSeesClose
    <3> QED
      BY <1>12, <3>1 DEF ShellTyped, Shell!ShellTypeOK, Shell!HostSeesClose
  <2>2. QuitsOnce'
    BY <1>12 DEF QuitsOnce, Shell!HostSeesClose
  <2>3. Shell!QuitDrains'
    BY <1>12 DEF Shell!QuitDrains, Shell!ShellTypeOK, ShellTyped,
           Shell!HostSeesClose
  <2>4. Shell!WatchdogWatches'
    BY <1>12 DEF Shell!WatchdogWatches, LostIsLate, Shell!ShellTypeOK, ShellTyped,
           Shell!HostSeesClose
  <2>5. LostIsLate'
    BY <1>12 DEF LostIsLate, Shell!ShellTypeOK, ShellTyped, Shell!HostSeesClose
  <2> QED
    BY <2>1, <2>2, <2>3, <2>4, <2>5
<1> QED
  BY <1>1, <1>2, <1>3, <1>4, <1>5, <1>6, <1>7, <1>8, <1>9, <1>10, <1>11, <1>12
  DEF Shell!ShellNext

-----------------------------------------------------------------------------
(***************************************************************************)
(* The factory of the proxy's instances.                                     *)
(***************************************************************************)

ProviderKeys == (Factory!Providers \cup {"none"}) \X (0..MaxVersion)
Underway == {"secrets", "resolving", "resolved", "loading", "served"}
Instances == [key : ProviderKeys, url : 0..MaxPort]

(* A request that is under way has the key of a provider, and every instance is of one. *)
FactoryTyped ==
  /\ Factory!FactoryTypeOK
  /\ key \in [RequestIds -> ProviderKeys] /\ handle \in [RequestIds -> Instances]
  /\ instanceCache \subseteq Instances
  /\ \A r \in RequestIds : stage[r] \in Underway => key[r][1] \in Factory!Providers

FactoryInv == FactoryTyped /\ Factory!HandlesAreCurrent

(* The invariant holds at the start.                                          *)
LEMMA FactoryInvInit == Factory!FactoryInit => FactoryInv
<1> SUFFICES ASSUME Factory!FactoryInit PROVE FactoryInv
  OBVIOUS
<1>1. MaxPort \in Nat \ {0} /\ MaxVersion \in Nat
  BY DesktopAssumption
<1>2. Factory!NoKey \in ProviderKeys /\ Factory!Nothing \in Instances
  BY <1>1 DEF Factory!NoKey, Factory!Nothing, ProviderKeys, Instances
<1>3. Factory!FactoryTypeOK
  BY <1>1 DEF Factory!FactoryTypeOK, Factory!FactoryInit, Factory!Stages, Factory!Providers
<1> QED
  BY <1>2, <1>3 DEF FactoryInv, FactoryTyped, Factory!FactoryInit, Underway,
     Factory!HandlesAreCurrent

(* Every step of the factory keeps the invariant.                                *)
LEMMA FactoryInvInductive == FactoryInv /\ [Factory!FactoryNext]_modelVars => FactoryInv'
<1> SUFFICES ASSUME FactoryInv, [Factory!FactoryNext]_modelVars
             PROVE  FactoryInv'
  OBVIOUS
<1> USE DEF FactoryInv, FactoryTyped, Factory!FactoryTypeOK, Factory!HandlesAreCurrent,
            Factory!Config, Factory!Moves, Factory!Stages, Underway
<1>1. MaxPort \in Nat \ {0} /\ MaxVersion \in Nat
  BY DesktopAssumption
<1>2. \A r \in RequestIds :
        /\ [key |-> key[r], url |-> url[r]] \in Instances
        /\ key[r] \in ProviderKeys /\ url[r] \in 0..MaxPort
  BY DEF Instances
<1>3. ASSUME NEW r \in RequestIds, NEW x \in Factory!Asked, NEW s, Factory!Asks(r, x, s)
      PROVE  FactoryInv'
  <2> DEFINE m == Factory!Resolve(x, s)
  <2>1. CASE UNCHANGED key /\ \E z \in {"unknown-model", "unknown-provider"} : Factory!Moves(r, z)
    BY <1>3, <2>1 DEF Factory!Asks
  <2>2. CASE /\ Factory!Moves(r, "secrets")
             /\ \E p \in Factory!Providers : key' = [key EXCEPT ![r] = Factory!Key(p)]
    <3>1. PICK p \in Factory!Providers : key' = [key EXCEPT ![r] = Factory!Key(p)]
      BY <2>2
    <3>2. Factory!Key(p) \in ProviderKeys /\ Factory!Key(p)[1] = p
      BY <1>1 DEF Factory!Key, ProviderKeys
    <3>3. stage[r] = "idle"
      BY <1>3 DEF Factory!Asks
    <3>4. key' \in [RequestIds -> ProviderKeys] /\ key'[r][1] \in Factory!Providers
      BY <3>1, <3>2
    <3>5. \A q \in RequestIds : q # r => key'[q] = key[q]
      BY <3>1
    <3> QED
      BY <1>3, <2>2, <3>3, <3>4, <3>5 DEF Factory!Asks
  <2> HIDE DEF m
  <2>3. \/ m = Factory!NoModel /\ Factory!Moves(r, "unknown-model") /\ UNCHANGED key
        \/ Factory!ProviderOf[m] \notin configured /\ Factory!Moves(r, "unknown-provider")
           /\ UNCHANGED key
        \/ /\ Factory!ProviderOf[m] \in configured
           /\ Factory!Moves(r, "secrets")
           /\ key' = [key EXCEPT ![r] = Factory!Key(Factory!ProviderOf[m])]
    BY <1>3, Zenon DEF Factory!Asks, m
  <2> QED
    BY <2>1, <2>2, <2>3
<1>4. ASSUME NEW r \in RequestIds, Factory!Refuses(r)
      PROVE  FactoryInv'
  BY <1>4 DEF Factory!Refuses
<1>5. ASSUME NEW r \in RequestIds, Factory!Secrets(r)
      PROVE  FactoryInv'
  BY <1>5 DEF Factory!Secrets
<1>6. ASSUME NEW r \in RequestIds, Factory!Resolves(r)
      PROVE  FactoryInv'
  <2>1. key[r][1] \in Factory!Providers => port[key[r][1]] \in 0..MaxPort
    OBVIOUS
  <2> QED
    BY <1>6, <2>1 DEF Factory!Resolves
<1>7. ASSUME NEW r \in RequestIds, Factory!ReadsCache(r)
      PROVE  FactoryInv'
  BY <1>2, <1>7 DEF Factory!ReadsCache, Factory!Hands
<1>8. ASSUME NEW r \in RequestIds, Factory!Loads(r)
      PROVE  FactoryInv'
  <2> DEFINE entry == [key |-> key[r], url |-> url[r]]
  <2>1. entry \in Instances /\ entry.key = key[r] /\ entry.url = url[r]
    BY <1>2
  <2>2. CASE Factory!Moves(r, "unsupported") /\ UNCHANGED <<instanceCache, handle>>
    BY <1>8, <2>2 DEF Factory!Loads
  <2>3. CASE /\ instanceCache' = {c \in instanceCache : c.key # key[r]} \union {entry}
             /\ Factory!Hands(r, entry)
    <3>1. UNCHANGED <<models, configured, version, described, port, changes, key, url>>
      BY <1>8 DEF Factory!Loads
    <3> HIDE DEF entry
    <3>2. instanceCache' \subseteq Instances
      BY <2>1, <2>3
    <3>3. \A c, d \in instanceCache' : c.key = d.key => c = d
      BY <2>1, <2>3
    <3>4. \A c \in instanceCache' : c.key[1] \in Factory!Providers /\ c.url \in 0..MaxPort
      BY <1>2, <1>8, <2>1, <2>3 DEF Factory!Loads
    <3>5. handle' \in [RequestIds -> Instances] /\ handle'[r] = entry
      BY <2>1, <2>3 DEF Factory!Hands
    <3>6. \A q \in RequestIds : q # r => handle'[q] = handle[q] /\ stage'[q] = stage[q]
      BY <2>3 DEF Factory!Hands
    <3>7. stage' \in [RequestIds -> Factory!Stages] /\ stage[r] = "loading"
      BY <1>8, <2>3 DEF Factory!Hands, Factory!Loads
    <3>8. handle'[r] = [key |-> key[r], url |-> url[r]]
      BY <3>5 DEF entry
    <3> QED
      BY <3>1, <3>2, <3>3, <3>4, <3>5, <3>6, <3>7, <3>8
  <2> QED
    BY <1>8, <2>2, <2>3 DEF Factory!Loads
<1>9. CASE Factory!Restarts
  <2>1. port' \in [Factory!Providers -> 0..MaxPort]
    <3>1. "plugin" \in Factory!Providers
      BY DEF Factory!Providers
    <3> QED
      BY <1>1, <1>9, <3>1 DEF Factory!Restarts
  <2> QED
    BY <1>9, <2>1 DEF Factory!Restarts
<1>10. CASE Factory!Changes
  BY <1>10 DEF Factory!Changes, Factory!Providers
<1>11. ASSUME NEW p \in Factory!Providers, Factory!Edits(p)
       PROVE  FactoryInv'
  <2>1. version' \in [Factory!Providers -> 0..MaxVersion]
    BY <1>1, <1>11 DEF Factory!Edits
  <2> QED
    BY <1>11, <2>1 DEF Factory!Edits
<1>12. CASE UNCHANGED modelVars
  BY <1>12 DEF modelVars
<1> QED
  BY <1>3, <1>4, <1>5, <1>6, <1>7, <1>8, <1>9, <1>10, <1>11, <1>12 DEF Factory!FactoryNext

-----------------------------------------------------------------------------
(***************************************************************************)
(* Who listens on the port, and who has its key.                               *)
(***************************************************************************)

Proxies == [owner : Commands \cup {"app"}, key : Nat]
MaybeKey == Nat \cup {None}
Environments == [key : MaybeKey, met : MaybeKey]
Launching == [at : {"idle", "reuse", "own", "writing", "routed", "running", "done"},
              key : MaybeKey, met : MaybeKey, own : BOOLEAN]

(* Every key that is about was made, and the file holds one of them.                  *)
RouteTyped ==
  /\ keys \in Nat
  /\ proxy \in Proxies \cup {None} /\ (proxy # None => proxy.key \in 1..keys)
  /\ keyFile \in 1..keys \cup {None}
  /\ gui \in {"off", "loading", "started", "up", "down", "clearing"}
  /\ agent \in Environments \cup {None}
  /\ cli \in [Commands -> Launching]

(* A command that is about to write a key has the proxy of that key.                 *)
WritersListen ==
  \A c \in Commands : cli[c].at = "writing" =>
    /\ cli[c].own /\ proxy # None
    /\ cli[c].key = proxy.key /\ cli[c].met = proxy.key

(* The key of the proxy that listens is in the file, once its owner has written it.    *)
FileHasTheKey ==
  ~misfiled /\ proxy # None =>
    \/ keyFile = proxy.key
    \/ proxy.owner = "app" /\ gui = "started"
    \/ proxy.owner # "app" /\ cli[proxy.owner].at = "writing"

RouteInv ==
  /\ RouteTyped
  /\ WritersListen
  /\ FileHasTheKey
  /\ Running!RoutesAreSound

(* The invariant holds at the start.                                          *)
LEMMA RouteInvInit == Running!RouteInit => RouteInv
BY DesktopAssumption DEF Running!RouteInit, RouteInv, RouteTyped, WritersListen, FileHasTheKey,
   Running!RoutesAreSound, Running!KeysOpen, Running!ProxiesHaveOwners, Running!Owns,
   Running!NoCommand, Running!App, Launching, MaybeKey, Environments, Proxies

Places == {"idle", "reuse", "own", "writing", "routed", "running", "done"}

(* A command moves, and the others stay.                                        *)
LEMMA GotoMoves ==
  ASSUME RouteTyped, NEW c \in Commands, NEW a \in Places, NEW k \in MaybeKey,
         NEW m \in MaybeKey, Running!Goto(c, a, k, m)
  PROVE  /\ cli' \in [Commands -> Launching]
         /\ cli'[c].at = a /\ cli'[c].key = k /\ cli'[c].met = m
         /\ cli'[c].own <=> a = "writing" \/ (cli[c].own /\ a # "done")
         /\ \A d \in Commands : d # c => cli'[d] = cli[d]
<1>1. cli \in [Commands -> Launching] /\ cli[c].own \in BOOLEAN
  BY DEF RouteTyped, Launching
<1> DEFINE moved == [at |-> a, key |-> k, met |-> m,
                     own |-> a = "writing" \/ (cli[c].own /\ a # "done")]
<1>2. moved \in Launching
  BY <1>1 DEF Launching, Places
<1>3. cli' = [cli EXCEPT ![c] = moved]
  BY <1>1 DEF Running!Goto
<1>4. /\ moved.at = a /\ moved.key = k /\ moved.met = m
      /\ moved.own <=> a = "writing" \/ (cli[c].own /\ a # "done")
  OBVIOUS
<1> HIDE DEF moved
<1> QED
  BY <1>1, <1>2, <1>3, <1>4

(* A key that is handed over is the one of the file, or new; it is that of the proxy     *)
(* which listens, if that has written it.                                       *)
LEMMA MintsAKey ==
  ASSUME RouteTyped, FileHasTheKey, Running!Mints
  PROVE  /\ keys' \in Nat /\ keys <= keys'
         /\ Running!Minted \in 1..keys'
         /\ misfiled => misfiled'
         /\ ~misfiled' /\ proxy # None => Running!Minted = proxy.key
<1>1. /\ keys' \in Nat /\ keys <= keys' /\ Running!Minted \in 1..keys'
  BY DesktopAssumption DEF RouteTyped, Running!Mints, Running!Minted, Running!Fresh
<1>2. misfiled => misfiled'
  BY DEF Running!Mints
<1>3. ASSUME ~misfiled', proxy # None
      PROVE  Running!Minted = proxy.key
  <2>1. gui # "started" /\ \A c \in Commands : cli[c].at # "writing"
    BY <1>3 DEF Running!Mints
  <2>2. proxy.owner = "app" \/ proxy.owner \in Commands
    BY <1>3 DEF RouteTyped, Proxies
  <2>3. keyFile = proxy.key
    BY <1>2, <1>3, <2>1, <2>2 DEF FileHasTheKey
  <2>4. proxy.key \in Nat
    BY <1>3 DEF RouteTyped, Proxies
  <2> QED
    BY <2>3, <2>4, DesktopAssumption DEF Running!Minted
<1> QED
  BY <1>1, <1>2, <1>3

(* An agent is given the key of the moment.                                     *)
LEMMA RoutedKeeps ==
  ASSUME RouteInv, Running!Mints, Running!Routed(Running!Minted)
  PROVE  RouteInv'
<1>1. /\ keys' \in Nat /\ keys <= keys' /\ Running!Minted \in 1..keys'
      /\ misfiled => misfiled'
      /\ ~misfiled' /\ proxy # None => Running!Minted = proxy.key
  BY MintsAKey DEF RouteInv
<1>2. /\ agent' = [key |-> Running!Minted, met |-> Running!ProxyKey]
      /\ UNCHANGED <<proxy, keyFile, gui, cli, runs, turmoil>>
  BY DEF Running!Routed
<1>3. Running!ProxyKey \in MaybeKey /\ (Running!ProxyKey # None => proxy # None)
  BY DEF Running!ProxyKey, RouteInv, RouteTyped, MaybeKey, Proxies
<1>4. proxy # None => Running!ProxyKey = proxy.key
  BY DEF Running!ProxyKey
<1> DEFINE handed == [key |-> Running!Minted, met |-> Running!ProxyKey]
<1>5. /\ handed \in Environments /\ handed.key = Running!Minted
      /\ handed.met = Running!ProxyKey
  BY <1>1, <1>3 DEF Environments, MaybeKey
<1>6. agent' = handed
  BY <1>2
<1> HIDE DEF handed
<1>7. RouteTyped'
  BY <1>1, <1>2, <1>5, <1>6 DEF RouteInv, RouteTyped
<1>8. WritersListen' /\ FileHasTheKey'
  BY <1>1, <1>2 DEF RouteInv, WritersListen, FileHasTheKey
<1>9. Running!KeysOpen'
  BY <1>1, <1>2, <1>3, <1>4, <1>5, <1>6 DEF RouteInv, Running!RoutesAreSound, Running!KeysOpen
<1>10. Running!ProxiesHaveOwners'
  BY <1>2 DEF RouteInv, Running!RoutesAreSound, Running!ProxiesHaveOwners, Running!Owns
<1> QED
  BY <1>7, <1>8, <1>9, <1>10 DEF RouteInv, Running!RoutesAreSound

(* A command takes the key of the moment for the proxy that answered.                 *)
LEMMA ReusesKeeps ==
  ASSUME RouteInv, NEW c \in Commands, Running!Reuses(c)
  PROVE  RouteInv'
<1>1. /\ keys' \in Nat /\ keys <= keys' /\ Running!Minted \in 1..keys'
      /\ misfiled => misfiled'
      /\ ~misfiled' /\ proxy # None => Running!Minted = proxy.key
  BY MintsAKey DEF RouteInv, Running!Reuses
<1>2. /\ Running!Goto(c, "routed", Running!Minted, Running!ProxyKey)
      /\ cli[c].at = "reuse"
      /\ UNCHANGED <<proxy, keyFile, gui, agent, runs, agents, turmoil>>
  BY DEF Running!Reuses
<1>3. Running!ProxyKey \in MaybeKey /\ (Running!ProxyKey # None => proxy # None)
  BY DEF Running!ProxyKey, RouteInv, RouteTyped, MaybeKey, Proxies
<1>4. proxy # None => Running!ProxyKey = proxy.key
  BY DEF Running!ProxyKey
<1>5. /\ cli' \in [Commands -> Launching]
      /\ cli'[c].at = "routed" /\ cli'[c].key = Running!Minted
      /\ cli'[c].met = Running!ProxyKey
      /\ cli'[c].own <=> cli[c].own
      /\ \A d \in Commands : d # c => cli'[d] = cli[d]
  <2>1. RouteTyped /\ "routed" \in Places /\ Running!Minted \in MaybeKey
    BY <1>1 DEF RouteInv, Places, MaybeKey
  <2> QED
    BY <1>2, <1>3, <2>1, GotoMoves
<1>6. RouteTyped'
  BY <1>1, <1>2, <1>5 DEF RouteInv, RouteTyped
<1>7. WritersListen'
  BY <1>2, <1>5 DEF RouteInv, WritersListen
<1>8. FileHasTheKey'
  BY <1>1, <1>2, <1>5 DEF RouteInv, RouteTyped, Proxies, FileHasTheKey
<1>9. Running!KeysOpen'
  BY <1>1, <1>2, <1>3, <1>4, <1>5 DEF RouteInv, Running!RoutesAreSound, Running!KeysOpen
<1>10. Running!ProxiesHaveOwners'
  BY <1>2, <1>5, DesktopAssumption
     DEF RouteInv, RouteTyped, Proxies, Running!RoutesAreSound, Running!ProxiesHaveOwners,
         Running!Owns, Running!App
<1> QED
  BY <1>6, <1>7, <1>8, <1>9, <1>10 DEF RouteInv, Running!RoutesAreSound

(* A command that is over takes its own proxy with it, and no other.                  *)
LEMMA LeavingKeeps ==
  ASSUME RouteInv, NEW c \in Commands, cli[c].at \in {"writing", "routed", "running"},
         Running!Goto(c, "done", None, None), proxy' = Running!Goes(c),
         UNCHANGED <<keyFile, gui, agent, keys, misfiled>>
  PROVE  RouteInv'
<1>1. /\ cli' \in [Commands -> Launching]
      /\ cli'[c].at = "done" /\ cli'[c].key = None /\ cli'[c].met = None /\ ~cli'[c].own
      /\ \A d \in Commands : d # c => cli'[d] = cli[d]
  <2>1. RouteTyped /\ "done" \in Places /\ None \in MaybeKey
    BY DEF RouteInv, Places, MaybeKey
  <2> QED
    BY <2>1, GotoMoves
<1>2. IF proxy # None /\ proxy.owner = c THEN proxy' = None ELSE proxy' = proxy
  BY DEF Running!Goes, Running!Owns
<1>3. c # "app"
  BY DesktopAssumption
<1>4. RouteTyped'
  BY <1>1, <1>2 DEF RouteInv, RouteTyped
<1>5. WritersListen'
  BY <1>1, <1>2 DEF RouteInv, RouteTyped, Proxies, WritersListen, Running!RoutesAreSound,
     Running!ProxiesHaveOwners, Running!Owns
<1>6. FileHasTheKey'
  BY <1>1, <1>2 DEF RouteInv, RouteTyped, Proxies, FileHasTheKey
<1>7. Running!KeysOpen'
  BY <1>1 DEF RouteInv, Running!RoutesAreSound, Running!KeysOpen
<1>8. Running!ProxiesHaveOwners'
  BY <1>1, <1>2, <1>3
     DEF RouteInv, RouteTyped, Proxies, Running!RoutesAreSound, Running!ProxiesHaveOwners,
         Running!Owns, Running!App
<1> QED
  BY <1>4, <1>5, <1>6, <1>7, <1>8 DEF RouteInv, Running!RoutesAreSound

(* A command that finds the port free listens; another fails.                        *)
LEMMA StartsOwnKeeps ==
  ASSUME RouteInv, NEW c \in Commands, Running!StartsOwn(c)
  PROVE  RouteInv'
<1> DEFINE mine == [owner |-> c, key |-> Running!Fresh]
<1>1. /\ keys \in Nat /\ Running!Fresh = keys + 1 /\ Running!Fresh \in MaybeKey
      /\ None \in MaybeKey /\ RouteTyped /\ {"writing", "done"} \subseteq Places
      /\ c # "app" /\ cli[c].at = "own"
      /\ UNCHANGED <<keyFile, gui, agent, runs, agents, turmoil, misfiled>>
  BY DesktopAssumption DEF RouteInv, RouteTyped, Running!Fresh, MaybeKey, Places,
     Running!StartsOwn
<1>2. mine \in Proxies /\ mine # None /\ mine.owner = c /\ mine.key = keys + 1
  BY <1>1, DesktopAssumption DEF Proxies
<1>3. CASE /\ proxy = None /\ proxy' = mine /\ keys' = Running!Fresh
           /\ Running!Goto(c, "writing", Running!Fresh, Running!Fresh)
  <2>1. /\ cli' \in [Commands -> Launching]
        /\ cli'[c].at = "writing" /\ cli'[c].key = keys + 1 /\ cli'[c].met = keys + 1
        /\ cli'[c].own
        /\ \A d \in Commands : d # c => cli'[d] = cli[d]
    BY <1>1, <1>3, GotoMoves
  <2> HIDE DEF mine
  <2>2. keys' = keys + 1 /\ proxy' = mine /\ proxy = None
    BY <1>1, <1>3
  <2>3. RouteTyped'
    BY <1>1, <1>2, <2>1, <2>2 DEF RouteTyped
  <2>4. WritersListen' /\ FileHasTheKey'
    BY <1>1, <1>2, <2>1, <2>2 DEF RouteInv, WritersListen, FileHasTheKey
  <2>5. Running!KeysOpen'
    BY <1>1, <2>1 DEF RouteInv, Running!RoutesAreSound, Running!KeysOpen
  <2>6. Running!ProxiesHaveOwners'
    BY <1>1, <1>2, <2>1, <2>2 DEF RouteInv, Running!RoutesAreSound, Running!ProxiesHaveOwners,
       Running!Owns, Running!App
  <2> QED
    BY <2>3, <2>4, <2>5, <2>6 DEF RouteInv, Running!RoutesAreSound
<1>4. CASE proxy # None /\ Running!Goto(c, "done", None, None) /\ UNCHANGED <<proxy, keys>>
  <2>1. /\ cli' \in [Commands -> Launching]
        /\ cli'[c].at = "done" /\ cli'[c].met = None /\ ~cli'[c].own
        /\ \A d \in Commands : d # c => cli'[d] = cli[d]
    BY <1>1, <1>4, GotoMoves
  <2>2. RouteTyped'
    BY <1>1, <1>4, <2>1 DEF RouteTyped
  <2>3. WritersListen' /\ FileHasTheKey'
    BY <1>1, <1>4, <2>1 DEF RouteInv, RouteTyped, Proxies, WritersListen, FileHasTheKey
  <2>4. Running!KeysOpen'
    BY <1>1, <2>1 DEF RouteInv, Running!RoutesAreSound, Running!KeysOpen
  <2>5. Running!ProxiesHaveOwners'
    BY <1>1, <1>4, <2>1 DEF RouteInv, RouteTyped, Proxies, Running!RoutesAreSound,
       Running!ProxiesHaveOwners, Running!Owns, Running!App
  <2> QED
    BY <2>2, <2>3, <2>4, <2>5 DEF RouteInv, Running!RoutesAreSound
<1> QED
  BY <1>3, <1>4 DEF Running!StartsOwn

(* Every step of the application and of a command keeps the invariant.                  *)
LEMMA RouteInvInductive == RouteInv /\ [Running!RouteNext]_routeVars => RouteInv'
<1> SUFFICES ASSUME RouteInv, [Running!RouteNext]_routeVars
             PROVE RouteInv'
  OBVIOUS
<1> USE DesktopAssumption DEF RouteTyped, WritersListen, FileHasTheKey,
            Running!RoutesAreSound, Running!KeysOpen, Running!ProxiesHaveOwners,
            Running!Owns, Running!App, Running!counters, Proxies, MaybeKey,
            Environments, Launching, RouteInv
<1>1. ASSUME Running!GuiLoads
      PROVE RouteInv'
  BY <1>1 DEF Running!GuiLoads
<1>2. ASSUME Running!GuiGoesWithout
      PROVE RouteInv'
  BY <1>2 DEF Running!GuiGoesWithout
<1>3. ASSUME Running!GuiStarts
      PROVE RouteInv'
  BY <1>3 DEF Running!GuiStarts, Running!Fresh
<1>4. ASSUME Running!GuiWrites
      PROVE RouteInv'
  BY <1>4 DEF Running!GuiWrites, Running!Writes
<1>5. ASSUME Running!GuiStops
      PROVE RouteInv'
  BY <1>5 DEF Running!GuiStops, Running!Goes
<1>6. ASSUME Running!GuiClears
      PROVE RouteInv'
  BY <1>6 DEF Running!GuiClears
<1>7. ASSUME Running!GuiDies
      PROVE RouteInv'
  BY <1>7 DEF Running!GuiDies, Running!Goes
<1>8. ASSUME Running!LaunchInput
      PROVE RouteInv'
  BY <1>8, RoutedKeeps DEF Running!LaunchInput
<1>9. ASSUME Running!ModelEnv
      PROVE RouteInv'
  BY <1>9, RoutedKeeps DEF Running!ModelEnv
<1>10. ASSUME Running!Direct
      PROVE RouteInv'
  BY <1>10 DEF Running!Direct, Running!Routed, Running!ProxyKey
<1>11. ASSUME Running!AgentEnds
      PROVE RouteInv'
  BY <1>11 DEF Running!AgentEnds
<1>12. ASSUME NEW c \in Commands, Running!Probes(c)
      PROVE RouteInv'
  BY <1>12 DEF Running!Probes, Running!Goto
<1>13. ASSUME NEW c \in Commands, Running!Reuses(c)
      PROVE RouteInv'
  BY <1>13, ReusesKeeps
<1>14. ASSUME NEW c \in Commands, Running!StartsOwn(c)
      PROVE RouteInv'
  BY <1>14, StartsOwnKeeps
<1>15. ASSUME NEW c \in Commands, Running!WritesOwn(c)
      PROVE RouteInv'
  BY <1>15 DEF Running!WritesOwn, Running!Goto, Running!Writes
<1>16. ASSUME NEW c \in Commands, Running!Spawns(c)
      PROVE RouteInv'
  BY <1>16 DEF Running!Spawns, Running!Goto
<1>17. ASSUME NEW c \in Commands, Running!Fails(c)
      PROVE RouteInv'
  BY <1>17, LeavingKeeps DEF Running!Fails
<1>18. ASSUME NEW c \in Commands, Running!Ends(c)
      PROVE RouteInv'
  BY <1>18, LeavingKeeps DEF Running!Ends
<1>19. ASSUME NEW c \in Commands, Running!Killed(c)
      PROVE RouteInv'
  BY <1>19, LeavingKeeps DEF Running!Killed
<1>20. CASE UNCHANGED routeVars
  BY <1>20 DEF routeVars
<1> QED
  BY <1>1, <1>2, <1>3, <1>4, <1>5, <1>6, <1>7, <1>8, <1>9, <1>10, <1>11, <1>12,
     <1>13, <1>14, <1>15, <1>16, <1>17, <1>18, <1>19, <1>20
  DEF Running!RouteNext

-----------------------------------------------------------------------------
(***************************************************************************)
(* The components side by side.                                              *)
(***************************************************************************)

desktop == <<focus, applicationVars, proxyVars, recordVars, viewVars>>

(* What is in focus stays so.                                                   *)
LEMMA FocusStays == [MCNext]_desktop => focus' = focus
BY Zenon DEF MCNext, desktop

(* The updater, in its turn, moves as its model says, and the others rest.             *)
LEMMA UpdatesMove ==
  [MCNext]_desktop /\ focus = "updates" => [Updates!UpdateNext]_updaterVars
BY Zenon DEF MCNext, desktop, applicationVars

(* So does the shell.                                                         *)
LEMMA ShellMoves ==
  [MCNext]_desktop /\ focus = "shell" => [Shell!ShellNext]_desktopVars
BY Zenon DEF MCNext, desktop, applicationVars

(* Nothing of the application waits on what will not come.                        *)
THEOREM NothingStuck == MCSpec => []NothingIsStuck
<1> DEFINE Inv == (focus = "updates" => UpdateInv) /\ (focus = "shell" => ShellInv)
<1>1. MCInit => Inv
  BY UpdateInvInit, ShellInvInit DEF MCInit
<1>2. Inv /\ [MCNext]_desktop => Inv'
  <2> SUFFICES ASSUME Inv, [MCNext]_desktop PROVE Inv'
    OBVIOUS
  <2>1. focus' = "updates" => UpdateInv'
    BY FocusStays, UpdatesMove, UpdateInvInductive
  <2>2. focus' = "shell" => ShellInv'
    BY FocusStays, ShellMoves, ShellInvInductive
  <2> QED
    BY <2>1, <2>2
<1>3. Inv => NothingIsStuck
  BY DEF NothingIsStuck, UpdateInv, ShellInv
<1> QED
  BY <1>1, <1>2, <1>3, PTL DEF MCSpec, desktop

(* So does the proxy's factory.                                                *)
LEMMA FactoryMoves ==
  [MCNext]_desktop /\ focus = "factory" => [Factory!FactoryNext]_modelVars
BY Zenon DEF MCNext, desktop, proxyVars

(* So do the proxy's owners.                                                    *)
LEMMA RoutesMove ==
  [MCNext]_desktop /\ focus = "routes" => [Running!RouteNext]_routeVars
BY Zenon DEF MCNext, desktop, proxyVars

(* The proxy serves a request by an instance made for what it resolved (factory.ts): the  *)
(* part of ProxyIsFaithful about the factory, for any number of versions, ports and      *)
(* requests.                                                                *)
THEOREM HandlesStayCurrent == MCSpec => [](focus = "factory" => Factory!HandlesAreCurrent)
<1> DEFINE Inv == focus = "factory" => FactoryInv
<1>1. MCInit => Inv
  BY FactoryInvInit DEF MCInit
<1>2. Inv /\ [MCNext]_desktop => Inv'
  BY FocusStays, FactoryMoves, FactoryInvInductive
<1>3. Inv => (focus = "factory" => Factory!HandlesAreCurrent)
  BY DEF FactoryInv
<1> QED
  BY <1>1, <1>2, <1>3, PTL DEF MCSpec, desktop

(* Whoever is sent to the proxy has its key, and each proxy an owner that stops it (main.ts,  *)
(* create-app-context.ts, launch-command.ts, runtime-state.ts): the part of              *)
(* ProxyIsFaithful about its owners, for any number of commands, agents and runs.         *)
THEOREM RoutesStaySound == MCSpec => [](focus = "routes" => Running!RoutesAreSound)
<1> DEFINE Inv == focus = "routes" => RouteInv
<1>1. MCInit => Inv
  BY RouteInvInit DEF MCInit
<1>2. Inv /\ [MCNext]_desktop => Inv'
  BY FocusStays, RoutesMove, RouteInvInductive
<1>3. Inv => (focus = "routes" => Running!RoutesAreSound)
  BY DEF RouteInv
<1> QED
  BY <1>1, <1>2, <1>3, PTL DEF MCSpec, desktop

-----------------------------------------------------------------------------
(***************************************************************************)
(* The manifests of the extensions and the registry: what is proved of the       *)
(* component holds of the run.                                               *)
(***************************************************************************)

ContributionProofs == INSTANCE ContributionsProofs
  WITH source <- extensionSource, disk <- recorded, op <- installs,
       crossed <- overlapping, ops <- begun, edits <- placings, faults <- failures

(* The two instances of Contributions, that of the run and that of the proofs, take   *)
(* the same steps.                                                           *)
LEMMA SameContributions ==
  Contributed!ContributionsNext <=> ContributionProofs!ContributionsNext
<1>1. Contributed!Processes = ContributionProofs!Processes
  BY DEF Contributed!Processes, ContributionProofs!Processes
<1>2. Contributed!SourceForms = ContributionProofs!SourceForms
  BY DEF Contributed!SourceForms, ContributionProofs!SourceForms,
     Contributed!GitForms, ContributionProofs!GitForms, Contributed!RefusedForms,
     ContributionProofs!RefusedForms
<1>3. \A i : Contributed!Claiming(i) = ContributionProofs!Claiming(i)
  BY DEF Contributed!Claiming, ContributionProofs!Claiming, Contributed!Manifest,
     ContributionProofs!Manifest
<1>4. Contributed!Garbled = ContributionProofs!Garbled
  BY DEF Contributed!Garbled, ContributionProofs!Garbled, Contributed!Manifest,
     ContributionProofs!Manifest
<1>5. \A i : Contributed!Manifests(i) = ContributionProofs!Manifests(i)
  BY <1>3 DEF Contributed!Manifests, ContributionProofs!Manifests,
     Contributed!Plain, ContributionProofs!Plain, Contributed!Doubled,
     ContributionProofs!Doubled, Contributed!NewerApi, ContributionProofs!NewerApi,
     Contributed!Mistaken, ContributionProofs!Mistaken, Contributed!Foreign,
     ContributionProofs!Foreign, Contributed!Manifest, ContributionProofs!Manifest
<1>6. \A m : Contributed!Parses(m) <=> ContributionProofs!Parses(m)
  BY DEF Contributed!Parses, ContributionProofs!Parses, Contributed!Claims,
     ContributionProofs!Claims, Contributed!Cardinality,
     ContributionProofs!Cardinality
<1>7. \A ns, c : Contributed!Entries(ns, c) = ContributionProofs!Entries(ns, c)
  BY DEF Contributed!Entries, ContributionProofs!Entries, Contributed!Empty,
     ContributionProofs!Empty, Contributed!LinkMap, ContributionProofs!LinkMap,
     Contributed!Raw, ContributionProofs!Raw, Contributed!Manifest,
     ContributionProofs!Manifest
<1>8. \A i, m, ns, c :
        Contributed!Valid(i, m, ns, c)
        <=> ContributionProofs!Valid(i, m, ns, c)
  BY <1>6, <1>7, <1>4 DEF Contributed!Valid, ContributionProofs!Valid,
     Contributed!Claims, ContributionProofs!Claims, Contributed!TemplatesHold,
     ContributionProofs!TemplatesHold, Contributed!Listable,
     ContributionProofs!Listable, Contributed!Claimed, ContributionProofs!Claimed,
     Contributed!RuntimeTokens, ContributionProofs!RuntimeTokens,
     Contributed!LinkMap, ContributionProofs!LinkMap, Contributed!Raw,
     ContributionProofs!Raw
<1>9. \A f, b : Contributed!PlanOf(f, b) = ContributionProofs!PlanOf(f, b)
  BY DEF Contributed!PlanOf, ContributionProofs!PlanOf, Contributed!GitForms,
     ContributionProofs!GitForms
<1>10. \A p, k, i, s :
        Contributed!Begins(p, k, i, s)
        <=> ContributionProofs!Begins(p, k, i, s)
  BY <1>1 DEF Contributed!Begins, ContributionProofs!Begins, Contributed!tree,
     ContributionProofs!tree, Contributed!Busy, ContributionProofs!Busy,
     Contributed!Loaded, ContributionProofs!Loaded
<1>11. \A p, i, f, b :
        Contributed!InstallBegins(p, i, f, b)
        <=> ContributionProofs!InstallBegins(p, i, f, b)
  BY <1>9, <1>10 DEF Contributed!InstallBegins, ContributionProofs!InstallBegins,
     Contributed!Loaded, ContributionProofs!Loaded
<1>12. \A p : Contributed!CloneBegins(p) <=> ContributionProofs!CloneBegins(p)
  BY DEF Contributed!CloneBegins, ContributionProofs!CloneBegins, Contributed!marks,
     ContributionProofs!marks, Contributed!Empty, ContributionProofs!Empty,
     Contributed!At, ContributionProofs!At, Contributed!Goes,
     ContributionProofs!Goes, Contributed!Changes, ContributionProofs!Changes,
     Contributed!Manifest, ContributionProofs!Manifest
<1>13. \A p : Contributed!Cloned(p) <=> ContributionProofs!Cloned(p)
  BY DEF Contributed!Cloned, ContributionProofs!Cloned, Contributed!marks,
     ContributionProofs!marks, Contributed!At, ContributionProofs!At,
     Contributed!Goes, ContributionProofs!Goes, Contributed!Changes,
     ContributionProofs!Changes
<1>14. \A p : Contributed!CloneFails(p) <=> ContributionProofs!CloneFails(p)
  BY DEF Contributed!CloneFails, ContributionProofs!CloneFails, Contributed!marks,
     ContributionProofs!marks, Contributed!At, ContributionProofs!At,
     Contributed!Ends, ContributionProofs!Ends, Contributed!Changes,
     ContributionProofs!Changes
<1>15. \A p : Contributed!CopyBegins(p) <=> ContributionProofs!CopyBegins(p)
  BY DEF Contributed!CopyBegins, ContributionProofs!CopyBegins, Contributed!tree,
     ContributionProofs!tree, Contributed!marks, ContributionProofs!marks,
     Contributed!At, ContributionProofs!At, Contributed!Goes,
     ContributionProofs!Goes, Contributed!Ends, ContributionProofs!Ends,
     Contributed!Free, ContributionProofs!Free
<1>16. \A p : Contributed!Copied(p) <=> ContributionProofs!Copied(p)
  BY DEF Contributed!Copied, ContributionProofs!Copied, Contributed!marks,
     ContributionProofs!marks, Contributed!At, ContributionProofs!At,
     Contributed!Goes, ContributionProofs!Goes, Contributed!Changes,
     ContributionProofs!Changes
<1>17. \A p : Contributed!CopyFails(p) <=> ContributionProofs!CopyFails(p)
  BY DEF Contributed!CopyFails, ContributionProofs!CopyFails, Contributed!marks,
     ContributionProofs!marks, Contributed!At, ContributionProofs!At,
     Contributed!Ends, ContributionProofs!Ends, Contributed!Changes,
     ContributionProofs!Changes
<1>18. \A p : Contributed!Links(p) <=> ContributionProofs!Links(p)
  BY DEF Contributed!Links, ContributionProofs!Links, Contributed!tree,
     ContributionProofs!tree, Contributed!marks, ContributionProofs!marks,
     Contributed!At, ContributionProofs!At, Contributed!Goes,
     ContributionProofs!Goes, Contributed!Ends, ContributionProofs!Ends
<1>19. \A p : Contributed!Lists(p) <=> ContributionProofs!Lists(p)
  BY DEF Contributed!Lists, ContributionProofs!Lists, Contributed!tree,
     ContributionProofs!tree, Contributed!marks, ContributionProofs!marks,
     Contributed!Names, ContributionProofs!Names
<1>20. \A p :
        Contributed!InstallValidates(p)
        <=> ContributionProofs!InstallValidates(p)
  BY <1>8 DEF Contributed!InstallValidates, ContributionProofs!InstallValidates,
     Contributed!marks, ContributionProofs!marks, Contributed!At,
     ContributionProofs!At, Contributed!Goes, ContributionProofs!Goes,
     Contributed!Accepted, ContributionProofs!Accepted, Contributed!Hides,
     ContributionProofs!Hides, Contributed!Offered, ContributionProofs!Offered,
     Contributed!LinkMap, ContributionProofs!LinkMap
<1>21. \A p : Contributed!InstallRefused(p) <=> ContributionProofs!InstallRefused(p)
  BY <1>8 DEF Contributed!InstallRefused, ContributionProofs!InstallRefused,
     Contributed!At, ContributionProofs!At, Contributed!Ends,
     ContributionProofs!Ends, Contributed!Fault, ContributionProofs!Fault,
     Contributed!Accepted, ContributionProofs!Accepted, Contributed!CleansUp,
     ContributionProofs!CleansUp, Contributed!Offered, ContributionProofs!Offered,
     Contributed!Changes, ContributionProofs!Changes
<1>22. \A p :
        Contributed!InstallRecorded(p)
        <=> ContributionProofs!InstallRecorded(p)
  BY DEF Contributed!InstallRecorded, ContributionProofs!InstallRecorded,
     Contributed!tree, ContributionProofs!tree, Contributed!At,
     ContributionProofs!At, Contributed!Ends, ContributionProofs!Ends,
     Contributed!Saves, ContributionProofs!Saves
<1>23. \A p :
        Contributed!InstallUnrecorded(p)
        <=> ContributionProofs!InstallUnrecorded(p)
  BY DEF Contributed!InstallUnrecorded, ContributionProofs!InstallUnrecorded,
     Contributed!marks, ContributionProofs!marks, Contributed!At,
     ContributionProofs!At, Contributed!Ends, ContributionProofs!Ends,
     Contributed!Fault, ContributionProofs!Fault, Contributed!CleansUp,
     ContributionProofs!CleansUp, Contributed!Changes, ContributionProofs!Changes
<1>24. \A p, i :
        Contributed!UpdateBegins(p, i)
        <=> ContributionProofs!UpdateBegins(p, i)
  BY <1>10 DEF Contributed!UpdateBegins, ContributionProofs!UpdateBegins,
     Contributed!Loaded, ContributionProofs!Loaded
<1>25. \A p : Contributed!Fetched(p) <=> ContributionProofs!Fetched(p)
  BY DEF Contributed!Fetched, ContributionProofs!Fetched, Contributed!tree,
     ContributionProofs!tree, Contributed!marks, ContributionProofs!marks,
     Contributed!At, ContributionProofs!At, Contributed!Goes,
     ContributionProofs!Goes, Contributed!IsClone, ContributionProofs!IsClone
<1>26. \A p : Contributed!Shown(p) <=> ContributionProofs!Shown(p)
  BY DEF Contributed!Shown, ContributionProofs!Shown, Contributed!tree,
     ContributionProofs!tree, Contributed!marks, ContributionProofs!marks,
     Contributed!At, ContributionProofs!At, Contributed!IsClone,
     ContributionProofs!IsClone
<1>27. \A p :
        Contributed!UpdateValidates(p)
        <=> ContributionProofs!UpdateValidates(p)
  BY <1>8 DEF Contributed!UpdateValidates, ContributionProofs!UpdateValidates,
     Contributed!tree, ContributionProofs!tree, Contributed!marks,
     ContributionProofs!marks, Contributed!At, ContributionProofs!At,
     Contributed!Goes, ContributionProofs!Goes, Contributed!Accepted,
     ContributionProofs!Accepted, Contributed!Offered, ContributionProofs!Offered
<1>28. \A p : Contributed!ChecksOut(p) <=> ContributionProofs!ChecksOut(p)
  BY DEF Contributed!ChecksOut, ContributionProofs!ChecksOut, Contributed!At,
     ContributionProofs!At, Contributed!Goes, ContributionProofs!Goes,
     Contributed!Hides, ContributionProofs!Hides, Contributed!IsClone,
     ContributionProofs!IsClone, Contributed!LinkMap, ContributionProofs!LinkMap
<1>29. \A p : Contributed!UpdateRecorded(p) <=> ContributionProofs!UpdateRecorded(p)
  BY DEF Contributed!UpdateRecorded, ContributionProofs!UpdateRecorded,
     Contributed!tree, ContributionProofs!tree, Contributed!At,
     ContributionProofs!At, Contributed!Ends, ContributionProofs!Ends,
     Contributed!Saves, ContributionProofs!Saves
<1>30. \A p : Contributed!UpdateFails(p) <=> ContributionProofs!UpdateFails(p)
  BY <1>8 DEF Contributed!UpdateFails, ContributionProofs!UpdateFails,
     Contributed!tree, ContributionProofs!tree, Contributed!marks,
     ContributionProofs!marks, Contributed!At, ContributionProofs!At,
     Contributed!Ends, ContributionProofs!Ends, Contributed!Accepted,
     ContributionProofs!Accepted, Contributed!Offered, ContributionProofs!Offered
<1>31. \A p, i :
        Contributed!RemoveBegins(p, i)
        <=> ContributionProofs!RemoveBegins(p, i)
  BY <1>10 DEF Contributed!RemoveBegins, ContributionProofs!RemoveBegins,
     Contributed!Loaded, ContributionProofs!Loaded
<1>32. \A p : Contributed!Deletes(p) <=> ContributionProofs!Deletes(p)
  BY DEF Contributed!Deletes, ContributionProofs!Deletes, Contributed!marks,
     ContributionProofs!marks, Contributed!At, ContributionProofs!At,
     Contributed!Goes, ContributionProofs!Goes, Contributed!Changes,
     ContributionProofs!Changes, Contributed!WroteIntoRoot,
     ContributionProofs!WroteIntoRoot
<1>33. \A p : Contributed!Dropped(p) <=> ContributionProofs!Dropped(p)
  BY DEF Contributed!Dropped, ContributionProofs!Dropped, Contributed!tree,
     ContributionProofs!tree, Contributed!At, ContributionProofs!At,
     Contributed!Ends, ContributionProofs!Ends, Contributed!Saves,
     ContributionProofs!Saves
<1>34. \A p : Contributed!RemoveFails(p) <=> ContributionProofs!RemoveFails(p)
  BY DEF Contributed!RemoveFails, ContributionProofs!RemoveFails, Contributed!tree,
     ContributionProofs!tree, Contributed!At, ContributionProofs!At,
     Contributed!Ends, ContributionProofs!Ends, Contributed!Fault,
     ContributionProofs!Fault
<1>35. \A p : Contributed!Dies(p) <=> ContributionProofs!Dies(p)
  BY DEF Contributed!Dies, ContributionProofs!Dies, Contributed!tree,
     ContributionProofs!tree, Contributed!Ends, ContributionProofs!Ends,
     Contributed!Fault, ContributionProofs!Fault
<1>36. Contributed!GuiSaves <=> ContributionProofs!GuiSaves
  BY DEF Contributed!GuiSaves, ContributionProofs!GuiSaves, Contributed!tree,
     ContributionProofs!tree
<1>37. \A i, m :
        Contributed!SourceMoves(i, m)
        <=> ContributionProofs!SourceMoves(i, m)
  BY <1>1 DEF Contributed!SourceMoves, ContributionProofs!SourceMoves,
     Contributed!tree, ContributionProofs!tree, Contributed!Linking,
     ContributionProofs!Linking
<1>38. \A i, m : Contributed!Places(i, m) <=> ContributionProofs!Places(i, m)
  BY <1>1 DEF Contributed!Places, ContributionProofs!Places, Contributed!Busy,
     ContributionProofs!Busy
<1>39. \A i : Contributed!TakesAway(i) <=> ContributionProofs!TakesAway(i)
  BY <1>1 DEF Contributed!TakesAway, ContributionProofs!TakesAway,
     Contributed!marks, ContributionProofs!marks, Contributed!Busy,
     ContributionProofs!Busy
<1> QED
  BY <1>1, <1>3, <1>5, <1>4, <1>2, <1>11, <1>12, <1>13, <1>14, <1>15, <1>16, <1>17,
     <1>18, <1>19, <1>20, <1>21, <1>22, <1>23, <1>24, <1>25, <1>26, <1>27, <1>28,
     <1>29, <1>30, <1>31, <1>32, <1>33, <1>34, <1>35, <1>36, <1>37, <1>38, <1>39 DEF
     Contributed!ContributionsNext, ContributionProofs!ContributionsNext

(* They start alike, and mean the same.                                       *)
LEMMA SameMeaning ==
  /\ Contributed!ContributionsInit <=> ContributionProofs!ContributionsInit
  /\ Contributed!ContributionsAssumption
     <=> ContributionProofs!ContributionsAssumption
  /\ Contributed!ContributionsAreSound <=> ContributionProofs!ContributionsAreSound
<1>1. \A i : Contributed!Manifests(i) = ContributionProofs!Manifests(i)
  BY DEF Contributed!Manifests, ContributionProofs!Manifests, Contributed!Claiming,
     ContributionProofs!Claiming, Contributed!Plain, ContributionProofs!Plain,
     Contributed!Doubled, ContributionProofs!Doubled, Contributed!NewerApi,
     ContributionProofs!NewerApi, Contributed!Mistaken, ContributionProofs!Mistaken,
     Contributed!Foreign, ContributionProofs!Foreign, Contributed!Manifest,
     ContributionProofs!Manifest
<1>2. Contributed!ContributionsInit <=> ContributionProofs!ContributionsInit
  BY <1>1 DEF Contributed!ContributionsInit, ContributionProofs!ContributionsInit,
     Contributed!Processes, ContributionProofs!Processes, Contributed!Claiming,
     ContributionProofs!Claiming, Contributed!Plain, ContributionProofs!Plain,
     Contributed!Manifest, ContributionProofs!Manifest
<1>3.
        Contributed!ContributionsAssumption
        <=> ContributionProofs!ContributionsAssumption
  BY <1>1 DEF Contributed!ContributionsAssumption,
     ContributionProofs!ContributionsAssumption, Contributed!Undertakings,
     ContributionProofs!Undertakings, Contributed!Raws, ContributionProofs!Raws,
     Contributed!Empty, ContributionProofs!Empty, Contributed!Garbled,
     ContributionProofs!Garbled, Contributed!Manifest, ContributionProofs!Manifest
<1>4. \A m : Contributed!Parses(m) <=> ContributionProofs!Parses(m)
  BY DEF Contributed!Parses, ContributionProofs!Parses, Contributed!Claims,
     ContributionProofs!Claims, Contributed!Cardinality,
     ContributionProofs!Cardinality
<1>5. \A ns, c : Contributed!Entries(ns, c) = ContributionProofs!Entries(ns, c)
  BY DEF Contributed!Entries, ContributionProofs!Entries, Contributed!Empty,
     ContributionProofs!Empty, Contributed!LinkMap, ContributionProofs!LinkMap,
     Contributed!Raw, ContributionProofs!Raw, Contributed!Manifest,
     ContributionProofs!Manifest
<1>6. \A c : Contributed!RegistryLists(c) <=> ContributionProofs!RegistryLists(c)
  BY <1>4, <1>5 DEF Contributed!RegistryLists, ContributionProofs!RegistryLists,
     Contributed!Claims, ContributionProofs!Claims, Contributed!TemplatesHold,
     ContributionProofs!TemplatesHold, Contributed!Raw, ContributionProofs!Raw,
     Contributed!Listable, ContributionProofs!Listable, Contributed!Names,
     ContributionProofs!Names, Contributed!RuntimeTokens,
     ContributionProofs!RuntimeTokens, Contributed!LinkMap,
     ContributionProofs!LinkMap, Contributed!Garbled, ContributionProofs!Garbled,
     Contributed!Manifest, ContributionProofs!Manifest
<1>7. \A c : Contributed!Rows(c) = ContributionProofs!Rows(c)
  BY <1>5 DEF Contributed!Rows, ContributionProofs!Rows, Contributed!Names,
     ContributionProofs!Names
<1>8. Contributed!ContributionsAreSound <=> ContributionProofs!ContributionsAreSound
  BY <1>6, <1>7, <1>4 DEF Contributed!ContributionsAreSound,
     ContributionProofs!ContributionsAreSound, Contributed!NoSharedContribution,
     ContributionProofs!NoSharedContribution, Contributed!HandPlacedStays,
     ContributionProofs!HandPlacedStays, Contributed!RegistryServes,
     ContributionProofs!RegistryServes, Contributed!Claims,
     ContributionProofs!Claims, Contributed!TemplatesHold,
     ContributionProofs!TemplatesHold, Contributed!Processes,
     ContributionProofs!Processes, Contributed!RuntimeTokens,
     ContributionProofs!RuntimeTokens
<1> QED
  BY <1>2, <1>3, <1>8

(* The extensions, in their turn, move as their model says.                         *)
LEMMA ExtensionsMove ==
  [MCNext]_desktop /\ focus = "extensions" => [Extensions!ExtNext]_extensionVars
BY Zenon DEF MCNext, desktop, applicationVars

(* So do their manifests and the registry.                                      *)
LEMMA ContributionsMove ==
  [MCNext]_desktop /\ focus = "contributions"
    => [Contributed!ContributionsNext]_contributionVars
BY Zenon DEF MCNext, desktop, applicationVars

(* A disabled or removed extension has nothing running, the files of the extensions and  *)
(* the records of the configuration agree between operations, whichever step of one      *)
(* fails (installer.ts, extension-admin.ts), no two extensions share a contribution id,   *)
(* and the registry lists (registry.ts), for any number of extensions and operations.    *)
THEOREM ExtensionsSound == MCSpec => []ExtensionsAreSound
<1> DEFINE Inv == /\ focus = "extensions" => ExtInv
                  /\ focus = "contributions" => ContributionProofs!ContribInv
<1>1. ContributionProofs!ContributionsAssumption
  BY SameMeaning, DesktopAssumption DEF DesktopAssumption
<1>2. MCInit => Inv
  <2> SUFFICES ASSUME MCInit PROVE Inv
    OBVIOUS
  <2>1. Extensions!ExtInit /\ ContributionProofs!ContributionsInit
    BY SameMeaning DEF MCInit
  <2>2. ContributionProofs!ContribInv
    BY <1>1, <2>1, ContributionProofs!ContribInvInit
  <2> QED
    BY <2>1, <2>2, ExtInvInit
<1>3. Inv /\ [MCNext]_desktop => Inv'
  <2> SUFFICES ASSUME Inv, [MCNext]_desktop PROVE Inv'
    OBVIOUS
  <2>1. focus' = "extensions" => ExtInv'
    BY FocusStays, ExtensionsMove, ExtInvInductive
  <2>2. ASSUME focus' = "contributions"
        PROVE  ContributionProofs!ContribInv'
    <3>1. focus = "contributions" /\ ContributionProofs!ContribInv
      BY <2>2, FocusStays
    <3>2. [Contributed!ContributionsNext]_contributionVars
      BY <3>1, ContributionsMove
    <3>3. UNCHANGED contributionVars => UNCHANGED ContributionProofs!contributionVars
      BY DEF contributionVars, ContributionProofs!contributionVars,
             ContributionProofs!tree, ContributionProofs!marks
    <3>4. [ContributionProofs!ContributionsNext]_(ContributionProofs!contributionVars)
      BY <3>2, <3>3, SameContributions
    <3> QED
      BY <1>1, <3>1, <3>4, ContributionProofs!ContribInvInductive
  <2> QED
    BY <2>1, <2>2
<1>4. Inv => ExtensionsAreSound
  <2> SUFFICES ASSUME Inv PROVE ExtensionsAreSound
    OBVIOUS
  <2>1. focus = "extensions" => Extensions!InertWhenDisabled /\ Extensions!FilesMatchRecords
    BY ExtInvSound
  <2>2. focus = "contributions" => Contributed!ContributionsAreSound
    BY <1>1, SameMeaning, ContributionProofs!ContribInvSound
  <2> QED
    BY <2>1, <2>2 DEF ExtensionsAreSound
<1> QED
  BY <1>2, <1>3, <1>4, PTL DEF MCSpec, desktop
==============================================================================

------------------------- MODULE ContributionsProofs -------------------------
(***************************************************************************)
(* Proofs about what extensions contribute and where their files lie: two installs  *)
(* never both get through with one contribution id, the user's own directories stay,   *)
(* and the registry serves, for any extensions and any number of operations.        *)
(*                                                                         *)
(* The argument: an operation that has its extension to itself (OpsApart) places its    *)
(* files before it reads the names, so of two installs that validate, one sees the      *)
(* other (InstallsMeet); what a validation sees, or what is validated after it, claims   *)
(* something else (UnseenApart); and without overlaps, failures and stale             *)
(* configurations every record fits what lies under the root.                        *)
(***************************************************************************)
EXTENDS Contributions, TLAPS

Pcs == {"placing", "cloning", "copying", "listing", "validating", "recording",
        "fetching", "showing", "adopting", "deleting", "dropping"}
OpsTyped == op \in [Processes -> Undertakings \cup {None}]
ContribTyped ==
  /\ OpsTyped
  /\ root \in [Ids -> Raws] /\ hand \in [Ids -> Raws]
  /\ source \in [Ids -> Raws] /\ fetchHead \in [Ids -> Raws]
  /\ disk \in [Ids -> Kinds] /\ view \in [Processes -> [Ids -> Kinds]]
  /\ trusted \subseteq Ids
  /\ \A i \in Git \cap Ids : source[i] # None
  /\ \A p \in Processes : op[p] # None /\ op[p].kind = "git" => op[p].id \in Git

(* How an action moves the operation of a process, as later steps see it.    *)
Moved(p, pc, seen, candidate) ==
  /\ op' \in [Processes -> Undertakings \cup {None}]
  /\ op'[p] # None
  /\ op'[p].kind = op[p].kind /\ op'[p].id = op[p].id
  /\ op'[p].alone = op[p].alone /\ op'[p].sole = op[p].sole
  /\ op'[p].pc = pc /\ op'[p].seen = seen /\ op'[p].candidate = candidate
  /\ \A q \in Processes : q # p => op'[q] = op[q]
Ended(p) ==
  /\ op' \in [Processes -> Undertakings \cup {None}]
  /\ op'[p] = None
  /\ \A q \in Processes : q # p => op'[q] = op[q]
Begun(p, kind, i, pc) ==
  /\ op' \in [Processes -> Undertakings \cup {None}]
  /\ op[p] = None /\ op'[p] # None
  /\ op'[p].kind = kind /\ op'[p].id = i /\ op'[p].pc = pc /\ op'[p].seen = {}
  /\ op'[p].alone <=> \A q \in Processes : op[q] = None
  /\ op'[p].sole <=> \A q \in Processes : op[q] # None => op[q].id # i
  /\ \A q \in Processes : op[q] = None /\ q # p => op'[q] = None
  /\ \A q \in Processes : op[q] # None =>
       /\ op'[q] # None
       /\ op'[q].kind = op[q].kind /\ op'[q].id = op[q].id /\ op'[q].pc = op[q].pc
       /\ op'[q].seen = op[q].seen /\ op'[q].candidate = op[q].candidate
       /\ ~op'[q].alone
       /\ op'[q].sole <=> op[q].sole /\ op[q].id # i

(* A step of an operation changes its pc alone.                              *)
LEMMA GoesMoves ==
  ASSUME ContributionsAssumption, OpsTyped, NEW p \in Processes, op[p] # None,
         NEW pc \in Pcs, Goes(p, pc)
  PROVE  Moved(p, pc, op[p].seen, op[p].candidate)
<1>1. op[p] \in Undertakings
  BY DEF OpsTyped
<1>2. op' = [op EXCEPT ![p] = [op[p] EXCEPT !.pc = pc]]
  BY DEF Goes
<1>3. /\ [op[p] EXCEPT !.pc = pc] \in Undertakings
      /\ [op[p] EXCEPT !.pc = pc].pc = pc
      /\ [op[p] EXCEPT !.pc = pc].kind = op[p].kind
      /\ [op[p] EXCEPT !.pc = pc].id = op[p].id
      /\ [op[p] EXCEPT !.pc = pc].alone = op[p].alone
      /\ [op[p] EXCEPT !.pc = pc].sole = op[p].sole
      /\ [op[p] EXCEPT !.pc = pc].seen = op[p].seen
      /\ [op[p] EXCEPT !.pc = pc].candidate = op[p].candidate
  BY <1>1 DEF Undertakings, Pcs
<1> DEFINE later == [op[p] EXCEPT !.pc = pc]
<1>4. op' = [op EXCEPT ![p] = later] /\ later \in Undertakings /\ later # None
  BY <1>2, <1>3 DEF ContributionsAssumption
<1>5. op'[p] = later /\ (\A q \in Processes : q # p => op'[q] = op[q])
      /\ op' \in [Processes -> Undertakings \cup {None}]
  <2> HIDE DEF later
  <2> QED
    BY <1>4 DEF OpsTyped
<1> QED
  BY <1>3, <1>4, <1>5 DEF Moved

(* The end of an operation leaves the others as they were.                   *)
LEMMA EndsEnds ==
  ASSUME OpsTyped, NEW p \in Processes, Ends(p)
  PROVE  Ended(p)
BY DEF OpsTyped, Ends, Ended

(* The beginning of an operation.                                            *)
LEMMA BeginsBegins ==
  ASSUME ContributionsAssumption, OpsTyped, NEW p \in Processes, NEW i \in Ids,
         NEW pc \in Pcs,
         NEW kind \in {"git", "copy", "link", "update", "remove"}, Begins(p, kind, i, pc)
  PROVE  Begun(p, kind, i, pc)
<1> DEFINE alone == \A q \in Processes : op[q] = None
           sole == ~Busy(i)
           begun == [kind |-> kind, id |-> i, pc |-> pc, seen |-> {}, candidate |-> None,
                     alone |-> alone, sole |-> sole]
           other(q) == [op[q] EXCEPT !.alone = FALSE, !.sole = op[q].sole /\ op[q].id # i]
<1>1. /\ begun \in Undertakings
      /\ begun.kind = kind /\ begun.id = i /\ begun.pc = pc /\ begun.seen = {}
      /\ begun.alone = alone /\ begun.sole = sole
  <2>1. sole \in BOOLEAN /\ alone \in BOOLEAN
    OBVIOUS
  <2>2. None \in Raws /\ {} \in SUBSET Ids
    BY DEF Raws
  <2> HIDE DEF alone, sole
  <2> QED
    BY <2>1, <2>2 DEF Undertakings, Pcs
<1>2. \A q \in Processes : op[q] # None =>
        /\ other(q) \in Undertakings
        /\ other(q).kind = op[q].kind /\ other(q).id = op[q].id /\ other(q).pc = op[q].pc
        /\ other(q).seen = op[q].seen /\ other(q).candidate = op[q].candidate
        /\ ~other(q).alone
        /\ other(q).sole <=> op[q].sole /\ op[q].id # i
  <2> SUFFICES ASSUME NEW q \in Processes, op[q] # None
               PROVE  /\ other(q) \in Undertakings
                      /\ other(q).kind = op[q].kind /\ other(q).id = op[q].id
                      /\ other(q).pc = op[q].pc
                      /\ other(q).seen = op[q].seen
                      /\ other(q).candidate = op[q].candidate
                      /\ ~other(q).alone
                      /\ other(q).sole <=> op[q].sole /\ op[q].id # i
    OBVIOUS
  <2>1. op[q] \in Undertakings /\ (op[q].sole /\ op[q].id # i) \in BOOLEAN
    BY DEF OpsTyped
  <2> QED
    BY <2>1 DEF Undertakings
<1>3. op' = [q \in Processes |-> IF q = p THEN begun
                                 ELSE IF op[q] = None THEN None ELSE other(q)]
      /\ op[p] = None
  BY DEF Begins
<1>4. begun # None /\ \A q \in Processes : op[q] # None => other(q) # None
  BY <1>1, <1>2 DEF ContributionsAssumption
<1>5. Busy(i) <=> \E q \in Processes : op[q] # None /\ op[q].id = i
  BY DEF Busy
<1> HIDE DEF begun, other
<1>6. op' \in [Processes -> Undertakings \cup {None}]
  BY <1>1, <1>2, <1>3
<1>7. /\ op'[p] = begun
      /\ \A q \in Processes : q # p /\ op[q] = None => op'[q] = None
      /\ \A q \in Processes : q # p /\ op[q] # None => op'[q] = other(q)
  BY <1>3
<1>8. \A q \in Processes : op[q] # None => q # p
  BY <1>3
<1> QED
  BY <1>1, <1>2, <1>3, <1>4, <1>5, <1>6, <1>7, <1>8 DEF Begun


(* An operation that lists the names has seen those there are.               *)
LEMMA ListsMoves ==
  ASSUME ContributionsAssumption, OpsTyped, NEW p \in Processes, Lists(p)
  PROVE  Moved(p, "validating", Names, op[p].candidate)
<1> DEFINE later == [op[p] EXCEPT !.seen = Names, !.pc = "validating"]
<1>1. op[p] \in Undertakings /\ Names \in SUBSET Ids
  BY DEF OpsTyped, Lists, Names
<1>2. /\ later \in Undertakings
      /\ later.kind = op[p].kind /\ later.id = op[p].id
      /\ later.alone = op[p].alone /\ later.sole = op[p].sole
      /\ later.pc = "validating" /\ later.seen = Names
      /\ later.candidate = op[p].candidate
  BY <1>1 DEF Undertakings
<1>3. op' = [op EXCEPT ![p] = later] /\ later # None
  BY <1>2 DEF Lists, ContributionsAssumption
<1> HIDE DEF later
<1> QED
  BY <1>2, <1>3 DEF Moved, OpsTyped

(* An update that shows the fetched commit has its manifest as candidate.    *)
LEMMA ShownMoves ==
  ASSUME ContributionsAssumption, OpsTyped, fetchHead \in [Ids -> Raws],
         NEW p \in Processes, Shown(p)
  PROVE  Moved(p, "listing", op[p].seen, fetchHead[op[p].id])
<1> DEFINE later == [op[p] EXCEPT !.candidate = fetchHead[op[p].id], !.pc = "listing"]
<1>1. op[p] \in Undertakings /\ fetchHead[op[p].id] \in Raws
  BY DEF OpsTyped, Shown, At, Undertakings
<1>2. /\ later \in Undertakings
      /\ later.kind = op[p].kind /\ later.id = op[p].id
      /\ later.alone = op[p].alone /\ later.sole = op[p].sole
      /\ later.pc = "listing" /\ later.seen = op[p].seen
      /\ later.candidate = fetchHead[op[p].id]
  BY <1>1 DEF Undertakings
<1>3. op' = [op EXCEPT ![p] = later] /\ later # None
  BY <1>2 DEF Shown, ContributionsAssumption
<1> HIDE DEF later
<1> QED
  BY <1>2, <1>3 DEF Moved, OpsTyped

(* What a directory or a folder can hold.                                    *)
LEMMA RawsHold ==
  ASSUME ContributionsAssumption
  PROVE
  /\ None \in Raws /\ Empty \in Raws /\ Garbled \in Raws
  /\ \A i \in Ids : /\ Manifests(i) \subseteq Raws
                   /\ Claiming(i) \in Raws
                   /\ None \notin Manifests(i)
<1>1. \A i \in Ids : Claiming(i) \in Manifests(i)
  BY DEF Manifests
<1> QED
  BY <1>1 DEF Raws, ContributionsAssumption


-----------------------------------------------------------------------------
(* The invariant.                                                            *)

(* No contribution id is claimed by both; a manifest as the registry wants it. *)
Disjoint(a, b) == Claims(a) \cap Claims(b) = {}
Good(i, raw) == Parses(raw) /\ raw.id = i /\ TemplatesHold(raw)

(* The kinds whose files are under the root, and where their installs have placed them. *)
Writes(kind) == kind \in {"git", "copy"}
Placed == {"listing", "validating", "recording"}
(* Where the names have been read.                                           *)
Late == {"validating", "adopting", "recording"}
(* What RegistryServes is conditional on.                                    *)
Clean == ~(meddled \/ crossed \/ stale \/ littered)

(* An operation has its extension to itself unless another began on it, and nothing else *)
(* ran beside one that was alone.                                            *)
OpsApart ==
  \A p \in Processes : op[p] # None =>
    /\ op[p].alone => op[p].sole /\ \A q \in Processes : q # p => op[q] = None
    /\ \A q \in Processes : q # p /\ op[q] # None /\ op[q].id = op[p].id => ~op[p].sole
    /\ ~crossed => op[p].sole

(* What was validated and not touched since is in order, and claims apart.   *)
TrustedHold ==
  /\ \A i \in trusted : Good(i, root[i])
  /\ \A i, j \in trusted : i # j => Disjoint(root[i], root[j])

(* An install that has its extension to itself and writes into the root.     *)
Installs(p, pcs) ==
  op[p] # None /\ Writes(op[p].kind) /\ op[p].sole /\ op[p].pc \in pcs
(* Its files are there before it reads the names, and stay until it takes them back. *)
InstallsFill ==
  \A p \in Processes : Installs(p, Placed) => root[op[p].id] # None
(* Of two that validate, the one that listed later has seen the other.       *)
InstallsMeet ==
  \A p, q \in Processes :
    p # q /\ Installs(p, {"validating"}) /\ Installs(q, {"validating"})
      => op[p].id \in op[q].seen \/ op[q].id \in op[p].seen
(* What became trusted since an install listed was validated in sight of its files. *)
UnseenApart ==
  \A p \in Processes : Installs(p, {"validating"}) =>
    \A j \in trusted :
      \/ j \in op[p].seen \/ j = op[p].id
      \/ Parses(root[op[p].id]) => Disjoint(root[op[p].id], root[j])

(* An update that runs alone adopts the manifest it validated.               *)
UpdatesHold ==
  \A p \in Processes : op[p] # None /\ op[p].kind = "update" /\ op[p].alone =>
    /\ op[p].pc \in {"listing", "validating", "adopting"} =>
         op[p].candidate = fetchHead[op[p].id]
    /\ op[p].pc \in {"validating", "adopting"} =>
         \A j \in trusted : j \in op[p].seen \/ j = op[p].id
    /\ op[p].pc = "adopting" =>
         /\ Good(op[p].id, op[p].candidate)
         /\ \/ Hides(p)
            \/ \A j \in trusted : j = op[p].id \/ Disjoint(op[p].candidate, root[j])

(* A directory of the user's is never that of a record that writes into the root, nor *)
(* the one an operation is about to write or delete.                         *)
HandInv == ~stale =>
  /\ \A i \in Ids : hand[i] # None => root[i] = hand[i] /\ ~Writes(disk[i])
  /\ \A p \in Processes : op[p] # None /\
        (\/ Writes(op[p].kind) /\ op[p].pc # "placing"
         \/ op[p].kind = "update"
         \/ op[p].kind = "remove" /\ Writes(view[p][op[p].id]))
      => hand[op[p].id] = None
(* Only a meddling user places one.                                          *)
NoHand == ~meddled => \A i \in Ids : hand[i] = None

(* A directory is being installed; a record is being dropped.                *)
InPlace(i) ==
  \E p \in Processes : /\ op[p] # None /\ op[p].id = i
                       /\ Writes(op[p].kind) /\ op[p].pc \in Placed \cup {"cloning"}
Dropping(i) ==
  \E p \in Processes : /\ op[p] # None /\ op[p].id = i
                       /\ op[p].kind = "remove" /\ op[p].pc = "dropping"
(* Whatever lies under the root is recorded or being installed.              *)
RootIsRecorded == Clean => \A i \in Ids : root[i] # None => Writes(disk[i]) \/ InPlace(i)
(* A record's directory is as it was validated, until it is deleted.         *)
RecordIsTrusted == Clean => \A i \in Ids : Writes(disk[i]) => i \in trusted \/ Dropping(i)
(* When the record is dropped, the files are gone.                           *)
DroppedIsGone == Clean => \A p \in Processes :
  op[p] # None /\ op[p].kind = "remove" /\ op[p].pc = "dropping" => root[op[p].id] = None

(* The linked folders are in order, and claim apart from one another and from the root. *)
LinksHold == Clean =>
  /\ \A k \in Ids : disk[k] = "link" => Good(k, source[k])
  /\ \A k, l \in Ids :
       k # l /\ disk[k] = "link" /\ disk[l] = "link" => Disjoint(source[k], source[l])
  /\ \A k \in Ids, j \in trusted :
       disk[k] = "link" /\ Writes(disk[j]) => Disjoint(source[k], root[j])
(* An operation is one that the records allow, and its process knows every link. *)
OpsFit == Clean => \A p \in Processes : op[p] # None =>
  /\ op[p].kind \in {"git", "copy", "link"} => disk[op[p].id] = None
  /\ op[p].kind = "update" => disk[op[p].id] = "git"
  /\ op[p].kind = "remove" => disk[op[p].id] # None /\ view[p][op[p].id] = disk[op[p].id]
  /\ op[p].alone => view[p] = disk
  /\ \A k \in Ids : disk[k] = "link" => view[p][k] = "link"
(* What it saw under the root is no link; alone, it saw all there is.        *)
OpsSee == Clean => \A p \in Processes : op[p] # None /\ op[p].pc \in Late =>
  /\ \A k \in op[p].seen : view[p][k] = "link" => disk[k] # "link"
  /\ op[p].alone => \A j \in Ids : root[j] = None \/ j = op[p].id \/ j \in op[p].seen
(* What an operation has validated it may record, or adopt.                  *)
Validated == Clean => \A p \in Processes : op[p] # None =>
  /\ Writes(op[p].kind) /\ op[p].pc = "recording" =>
       /\ op[p].id \in trusted \/ Hides(p)
       /\ \A k \in Ids : view[p][k] = "link" /\ Parses(source[k]) /\ k # op[p].id =>
                           Disjoint(root[op[p].id], source[k])
  /\ op[p].kind = "link" /\ op[p].pc = "recording" /\ op[p].alone =>
       /\ Good(op[p].id, source[op[p].id])
       /\ \A k \in Ids : disk[k] = "link" => Disjoint(source[op[p].id], source[k])
       /\ \A j \in trusted : Writes(disk[j]) => Disjoint(source[op[p].id], root[j])
  /\ op[p].kind = "update" /\ op[p].pc = "adopting" /\ op[p].alone =>
       \A k \in Ids : disk[k] = "link" => Disjoint(op[p].candidate, source[k])

ContribInv ==
  /\ ContribTyped
  /\ OpsApart
  /\ TrustedHold
  /\ InstallsFill /\ InstallsMeet /\ UnseenApart
  /\ UpdatesHold
  /\ HandInv /\ NoHand
  /\ RootIsRecorded /\ RecordIsTrusted /\ DroppedIsGone
  /\ LinksHold
  /\ OpsFit /\ OpsSee /\ Validated

-----------------------------------------------------------------------------
(* What a manifest that passed the validation claims is claimed by no directory seen, *)
(* unless a link hides it, and by no folder the configuration links.         *)
LEMMA SeenAreApart ==
  ASSUME NEW i \in Ids, NEW raw, NEW names \in SUBSET Ids, NEW config,
         Valid(i, raw, names, config),
         NEW j \in names, j # i, config[j] # "link", Parses(root[j])
  PROVE  Disjoint(raw, root[j]) /\ Disjoint(root[j], raw)
<1>1. Raw(j, config) = root[j]
  BY DEF Raw, LinkMap
<1>2. root[j] # None /\ root[j] # Empty
  BY DEF Parses, Empty, Manifest
<1>3. j \in {k \in Entries(names, config) \ {i} : Parses(Raw(k, config))}
  BY <1>1, <1>2 DEF Entries
<1>4. Claims(root[j]) \subseteq Claimed(names, config, i)
  BY <1>1, <1>3 DEF Claimed
<1> QED
  BY <1>4 DEF Valid, Disjoint

(* The same of a folder that the configuration links.                        *)
LEMMA LinkedAreApart ==
  ASSUME NEW i \in Ids, NEW raw, NEW names \in SUBSET Ids, NEW config,
         Valid(i, raw, names, config),
         NEW j \in Ids, j # i, config[j] = "link", Parses(source[j])
  PROVE  Disjoint(raw, source[j])
<1>1. Raw(j, config) = source[j] /\ j \in LinkMap(config)
  BY DEF Raw, LinkMap
<1>2. source[j] # None /\ source[j] # Empty
  BY DEF Parses, Empty, Manifest
<1>3. j \in {k \in Entries(names, config) \ {i} : Parses(Raw(k, config))}
  BY <1>1, <1>2 DEF Entries
<1>4. Claims(source[j]) \subseteq Claimed(names, config, i)
  BY <1>1, <1>3 DEF Claimed
<1> QED
  BY <1>4 DEF Valid, Disjoint

(* What the beginning of an operation changes, and what it leaves as it was. *)
Fits(p, kind, i, pc) ==
  \/ /\ kind \in {"git", "copy", "link"} /\ pc = "placing"
     /\ Loaded(p)[i] = None /\ (kind = "git" <=> i \in Git)
  \/ kind = "update" /\ pc = "fetching" /\ Loaded(p)[i] = "git"
  \/ kind = "remove" /\ pc = "deleting" /\ Loaded(p)[i] # None

(* Whatever begins, the invariant stays: nothing is placed or recorded yet.  *)
LEMMA BeginsKeeps ==
  ASSUME ContributionsAssumption, ContribInv, NEW p \in Processes, NEW i \in Ids,
         NEW pc \in Pcs,
         NEW kind \in {"git", "copy", "link", "update", "remove"},
         Begins(p, kind, i, pc), Fits(p, kind, i, pc)
  PROVE  ContribInv'
<1> USE DEF ContribInv
<1>1. Begun(p, kind, i, pc)
  BY BeginsBegins DEF ContribTyped
<1>2. /\ UNCHANGED <<root, hand, trusted, source, fetchHead, disk, meddled, littered>>
      /\ Loaded(p) \in [Ids -> Kinds] /\ view' \in [Processes -> [Ids -> Kinds]]
      /\ view'[p] = Loaded(p) /\ \A q \in Processes : q # p => view'[q] = view[q]
      /\ ~stale' => ~stale /\ Loaded(p) = disk
      /\ ~crossed' => ~crossed /\ \A q \in Processes : op[q] # None => op[q].id # i
  BY DEF Begins, ContribTyped, Loaded, Busy, tree
<1>3. \A q \in Processes : q # p /\ op'[q] # None =>
        /\ op[q] # None /\ ~op'[q].alone
        /\ op'[q].kind = op[q].kind /\ op'[q].id = op[q].id /\ op'[q].pc = op[q].pc
        /\ op'[q].seen = op[q].seen /\ op'[q].candidate = op[q].candidate
        /\ op'[q].sole <=> op[q].sole /\ op[q].id # i
  BY <1>1 DEF Begun
<1>4. /\ op[p] = None /\ op'[p] # None
      /\ op'[p].kind = kind /\ op'[p].id = i /\ op'[p].pc = pc /\ op'[p].seen = {}
      /\ op'[p].alone <=> \A q \in Processes : op[q] = None
      /\ op'[p].sole <=> \A q \in Processes : op[q] # None => op[q].id # i
      /\ \A q \in Processes : op[q] = None /\ q # p => op'[q] = None
  BY <1>1 DEF Begun
<1>5. Clean' => Clean /\ Loaded(p) = disk /\ \A q \in Processes : op[q] # None =>
          op[q].id # i
  BY <1>2 DEF Clean
<1>6. pc \notin {"cloning", "listing", "validating", "recording", "adopting"}
  BY DEF Fits
<1>7. pc # "dropping"
  BY DEF Fits
<1> HIDE DEF ContribInv
<1>11. ContribTyped'
  <2>1. op' \in [Processes -> Undertakings \cup {None}]
    BY <1>1 DEF Begun
  <2>2. \A q \in Processes : op'[q] # None /\ op'[q].kind = "git" => op'[q].id \in Git
    BY <1>3, <1>4 DEF ContribInv, ContribTyped, Fits
  <2> QED
    BY <1>2, <2>1, <2>2 DEF ContribInv, ContribTyped, OpsTyped
<1>12. OpsApart'
  BY <1>2, <1>3, <1>4 DEF ContribInv, OpsApart
<1>13. TrustedHold'
  BY <1>2 DEF ContribInv, TrustedHold
<1>14. InstallsFill'
  BY <1>2, <1>3, <1>4, <1>6 DEF ContribInv, InstallsFill, Installs, Placed
<1>15. InstallsMeet'
  <2>1. \A q \in Processes : Installs(q, {"validating"})' =>
          /\ q # p /\ Installs(q, {"validating"}) /\ op'[q].id = op[q].id
          /\ op'[q].seen = op[q].seen
    BY <1>3, <1>4, <1>6 DEF Installs
  <2> QED
    BY <2>1 DEF ContribInv, InstallsMeet
<1>16. UnseenApart'
  <2>1. \A q \in Processes : Installs(q, {"validating"})' =>
          /\ q # p /\ Installs(q, {"validating"}) /\ op'[q].id = op[q].id
          /\ op'[q].seen = op[q].seen
    BY <1>3, <1>4, <1>6 DEF Installs
  <2> QED
    BY <1>2, <2>1 DEF ContribInv, UnseenApart
<1>17. UpdatesHold'
  <2>1. \A q \in Processes : op'[q] # None /\ op'[q].alone => q = p
    BY <1>3
  <2> QED
    BY <2>1, <1>4, <1>6 DEF UpdatesHold
<1>18. HandInv'
  <2> SUFFICES ASSUME ~stale'  PROVE HandInv'
    BY DEF HandInv
  <2>1. \A k \in Ids : hand'[k] # None => root'[k] = hand'[k] /\ ~Writes(disk'[k])
    BY <1>2 DEF ContribInv, HandInv
  <2>2. \A q \in Processes : q # p /\ op'[q] # None =>
            view'[q] = view[q] /\ hand'[op'[q].id] = hand[op[q].id]
    BY <1>2, <1>3
  <2>3. ASSUME NEW q \in Processes, q # p, op'[q] # None,
               \/ Writes(op'[q].kind) /\ op'[q].pc # "placing"
               \/ op'[q].kind = "update"
               \/ op'[q].kind = "remove" /\ Writes(view'[q][op'[q].id])
        PROVE  hand'[op'[q].id] = None
    BY <1>2, <1>3, <2>2, <2>3 DEF ContribInv, HandInv
  <2>4. ASSUME \/ Writes(kind) /\ pc # "placing"
               \/ kind = "update"
               \/ kind = "remove" /\ Writes(Loaded(p)[i])
        PROVE  hand'[i] = None
    <3>1. Writes(disk[i])
      BY <1>2, <2>4 DEF Fits, Writes
    <3> QED
      BY <1>2, <2>1, <3>1
  <2> QED
    BY <1>2, <1>4, <2>1, <2>3, <2>4 DEF HandInv
<1>19. NoHand'
  BY <1>2 DEF ContribInv, NoHand
<1>20. RootIsRecorded'
  <2>1. \A k \in Ids : InPlace(k) => InPlace(k)'
    BY <1>1 DEF InPlace, Begun
  <2> QED
    BY <1>2, <1>5, <2>1 DEF ContribInv, RootIsRecorded
<1>21. RecordIsTrusted'
  <2>1. \A k \in Ids : Dropping(k) => Dropping(k)'
    BY <1>1 DEF Dropping, Begun
  <2> QED
    BY <1>2, <1>5, <2>1 DEF ContribInv, RecordIsTrusted
<1>22. LinksHold'
  BY <1>2, <1>5 DEF ContribInv, LinksHold
<1>23. OpsFit'
  <2> SUFFICES ASSUME Clean', NEW q \in Processes, op'[q] # None
               PROVE  /\ op'[q].kind \in {"git", "copy", "link"} => disk[op'[q].id] = None
                      /\ op'[q].kind = "update" => disk[op'[q].id] = "git"
                      /\ op'[q].kind = "remove" =>
                           disk[op'[q].id] # None /\ view'[q][op'[q].id] = disk[op'[q].id]
                      /\ op'[q].alone => view'[q] = disk
                      /\ \A k \in Ids : disk[k] = "link" => view'[q][k] = "link"
    BY <1>2 DEF OpsFit
  <2>1. CASE q = p
    <3>1. view'[q] = disk
      BY <1>2, <1>5, <2>1
    <3>2. Fits(p, kind, i, pc) /\ Loaded(p) = disk
      BY <1>5
    <3> QED
      BY <1>4, <2>1, <3>1, <3>2 DEF Fits
  <2>2. CASE q # p
    <3>1. view'[q] = view[q] /\ op[q] # None /\ op'[q].kind = op[q].kind
          /\ op'[q].id = op[q].id /\ ~op'[q].alone
      BY <1>2, <1>3, <2>2
    <3> QED
      BY <1>5, <3>1 DEF ContribInv, OpsFit
  <2> QED
    BY <2>1, <2>2
<1>24. OpsSee'
  <2> SUFFICES ASSUME Clean', NEW q \in Processes, op'[q] # None, op'[q].pc \in Late
               PROVE  /\ \A k \in op'[q].seen : view'[q][k] = "link" => disk[k] # "link"
                      /\ ~op'[q].alone
    BY <1>2 DEF OpsSee
  <2>1. q # p
    BY <1>4, <1>6 DEF Late
  <2>2. view'[q] = view[q] /\ op[q] # None /\ op'[q].seen = op[q].seen
        /\ op'[q].pc = op[q].pc /\ ~op'[q].alone
    BY <1>2, <1>3, <2>1
  <2> QED
    BY <1>5, <2>2 DEF ContribInv, OpsSee
<1>25. Validated'
  <2>1. \A q \in Processes : op'[q] # None /\ op'[q].pc \in {"recording", "adopting"} =>
          /\ op[q] # None /\ ~op'[q].alone /\ view'[q] = view[q]
          /\ op'[q].kind = op[q].kind /\ op'[q].id = op[q].id /\ op'[q].pc = op[q].pc
          /\ op'[q].seen = op[q].seen
    BY <1>2, <1>3, <1>4, <1>6
  <2>2. \A q \in Processes :
          op[q] # None /\ view'[q] = view[q] /\ op'[q].seen = op[q].seen => (Hides(q) => Hides(q)')
    BY DEF Hides, LinkMap
  <2>3. ASSUME Clean', NEW q \in Processes, op'[q] # None,
               Writes(op'[q].kind), op'[q].pc = "recording"
        PROVE  /\ op'[q].id \in trusted' \/ Hides(q)'
               /\ \A k \in Ids :
                    view'[q][k] = "link" /\ Parses(source'[k]) /\ k # op'[q].id
                      => Disjoint(root'[op'[q].id], source'[k])
    BY <1>2, <1>5, <2>1, <2>2, <2>3 DEF ContribInv, Validated
  <2> HIDE DEF Hides
  <2> QED
    BY <2>1, <2>3 DEF Validated
<1>26. DroppedIsGone'
  <2>1. \A q \in Processes : op'[q] # None /\ op'[q].pc = "dropping" => q # p
    BY <1>4, <1>7
  <2> QED
    BY <1>2, <1>3, <1>5, <2>1 DEF ContribInv, DroppedIsGone
<1> QED
  BY <1>11, <1>12, <1>13, <1>14, <1>15, <1>16, <1>17, <1>18, <1>19, <1>20, <1>21, <1>22,
     <1>23, <1>24, <1>25, <1>26 DEF ContribInv

(* An operation that ends without a record takes away what it wrote, or had written *)
(* nothing, unless something failed.                                         *)
TakesBack(p) ==
  \/ /\ root' = [root EXCEPT ![op[p].id] = None] /\ trusted' = trusted \ {op[p].id}
     /\ Writes(op[p].kind) /\ op[p].pc # "placing"
  \/ /\ UNCHANGED <<root, trusted>>
     /\ littered' \/ ~(\/ Writes(op[p].kind) /\ op[p].pc \in Placed \cup {"cloning"}
                       \/ op[p].kind = "remove" /\ op[p].pc = "dropping")

(* An operation that takes back what it wrote leaves the invariant as it was. *)
LEMMA EndsKeeps ==
  ASSUME ContributionsAssumption, ContribInv, NEW p \in Processes, op[p] # None,
         Ended(p), TakesBack(p),
         UNCHANGED <<hand, source, fetchHead, disk, view, meddled, crossed, stale>>,
         littered => littered'
  PROVE  ContribInv'
<1>1. \A q \in Processes : op'[q] # None => op'[q] = op[q] /\ op[q] # None /\ q # p
  BY DEF Ended
<1>2. op[p].id \in Ids /\ \A q \in Processes : op[q] # None => op[q].id \in Ids
  BY DEF ContribInv, ContribTyped, OpsTyped, Undertakings
<1>3. \A q \in Processes : op'[q] # None /\ op'[q].sole => op'[q].id # op[p].id
  BY <1>1 DEF ContribInv, OpsApart
<1>4. Clean' => Clean /\ \A q \in Processes : op'[q] # None => op'[q].id # op[p].id
  BY <1>1, <1>3 DEF Clean, ContribInv, OpsApart
<1>5. /\ root' \in [Ids -> Raws] /\ trusted' \subseteq trusted
      /\ \A j \in Ids : root'[j] = root[j] \/ root'[j] = None
      /\ \A j \in Ids : j # op[p].id =>
             root'[j] = root[j] /\ (j \in trusted' <=> j \in trusted)
      /\ \A j \in trusted' : root'[j] = root[j]
  BY <1>2 DEF TakesBack, ContribInv, ContribTyped, Raws
<1>6. \/ UNCHANGED <<root, trusted>>
      \/ root'[op[p].id] = None /\ Writes(op[p].kind) /\ op[p].pc # "placing"
  BY <1>2 DEF TakesBack, ContribInv, ContribTyped
<1>11. ContribTyped'
  BY <1>1, <1>5 DEF ContribInv, ContribTyped, OpsTyped, Ended
<1>12. OpsApart'
  BY <1>1 DEF ContribInv, OpsApart
<1>13. TrustedHold'
  BY <1>5 DEF ContribInv, TrustedHold
<1>14. InstallsFill'
  BY <1>1, <1>2, <1>3, <1>5 DEF ContribInv, InstallsFill, Installs
<1>15. InstallsMeet'
  BY <1>1 DEF ContribInv, InstallsMeet, Installs
<1>16. UnseenApart'
  <2> SUFFICES ASSUME NEW q \in Processes, Installs(q, {"validating"})', NEW j \in trusted'
               PROVE  \/ j \in op'[q].seen \/ j = op'[q].id
                      \/ Parses(root'[op'[q].id]) => Disjoint(root'[op'[q].id], root'[j])
    BY DEF UnseenApart
  <2>1. /\ Installs(q, {"validating"}) /\ op'[q] = op[q] /\ op[q].id # op[p].id
        /\ op[q].id \in Ids /\ j \in trusted
    BY <1>1, <1>2, <1>3, <1>5 DEF Installs
  <2>2. root'[op[q].id] = root[op[q].id] /\ root'[j] = root[j]
    BY <1>5, <2>1
  <2> QED
    BY <2>1, <2>2 DEF ContribInv, UnseenApart
<1>17. UpdatesHold'
  <2>1. \A q \in Processes : op'[q] # None => (Hides(q) => Hides(q)')
    BY <1>1 DEF Hides
  <2> QED
    BY <1>1, <1>5, <2>1 DEF ContribInv, UpdatesHold
<1>18. HandInv'
  <2>1. ~stale /\ root # root' => hand[op[p].id] = None
    BY <1>6 DEF ContribInv, HandInv
  <2> QED
    BY <1>1, <1>5, <2>1 DEF ContribInv, HandInv
<1>19. NoHand'
  BY DEF ContribInv, NoHand
<1>20. RootIsRecorded'
  <2> SUFFICES ASSUME Clean', NEW k \in Ids, root'[k] # None, ~Writes(disk[k])
               PROVE  InPlace(k)'
    BY DEF RootIsRecorded
  <2>1. PICK q \in Processes : op[q] # None /\ op[q].id = k /\ Writes(op[q].kind)
                               /\ op[q].pc \in Placed \cup {"cloning"}
    BY <1>4, <1>5 DEF ContribInv, RootIsRecorded, InPlace
  <2>2. q # p
    BY <1>2, <2>1 DEF TakesBack, Clean, ContribInv, ContribTyped
  <2> QED
    BY <2>1, <2>2 DEF InPlace, Ended
<1>21. RecordIsTrusted'
  <2> SUFFICES ASSUME Clean', NEW k \in Ids, Writes(disk[k]), k \notin trusted'
               PROVE  Dropping(k)'
    BY DEF RecordIsTrusted
  <2>1. Writes(disk[op[p].id]) => ~Writes(op[p].kind)
    BY <1>4 DEF ContribInv, OpsFit, Writes, ContributionsAssumption
  <2>2. k \notin trusted
    BY <1>6, <1>5, <2>1
  <2>3. PICK q \in Processes : op[q] # None /\ op[q].id = k /\ op[q].kind = "remove"
                               /\ op[q].pc = "dropping"
    BY <1>4, <2>2 DEF ContribInv, RecordIsTrusted, Dropping
  <2>4. q # p
    BY <2>3 DEF TakesBack, Clean, Writes
  <2> QED
    BY <2>3, <2>4 DEF Dropping, Ended
<1>22. LinksHold'
  BY <1>4, <1>5 DEF ContribInv, LinksHold
<1>23. OpsFit'
  BY <1>1, <1>4 DEF ContribInv, OpsFit
<1>24. OpsSee'
  BY <1>1, <1>4, <1>5 DEF ContribInv, OpsSee
<1>25. Validated'
  <2>1. \A q \in Processes : op'[q] # None => (Hides(q) => Hides(q)')
    BY <1>1 DEF Hides
  <2>2. Clean' => \A q \in Processes : op'[q] # None =>
          /\ op[q] # None /\ op'[q] = op[q] /\ root'[op[q].id] = root[op[q].id]
          /\ op[q].id \in trusted => op[q].id \in trusted'
    BY <1>1, <1>2, <1>4, <1>5
  <2> QED
    BY <1>4, <1>5, <2>1, <2>2 DEF ContribInv, Validated
<1>26. DroppedIsGone'
  BY <1>1, <1>2, <1>4, <1>5 DEF ContribInv, DroppedIsGone
<1> QED
  BY <1>11, <1>12, <1>13, <1>14, <1>15, <1>16, <1>17, <1>18, <1>19, <1>20, <1>21, <1>22,
     <1>23, <1>24, <1>25, <1>26 DEF ContribInv

(* What a process records: the extension it installed or updated, or none.   *)
Records(p, kind) ==
  \/ /\ kind \in {"git", "copy", "link"} /\ op[p].kind = kind /\ op[p].pc = "recording"
     /\ kind = "link" /\ ~op[p].alone => crossed'
  \/ kind = "git" /\ op[p].kind = "update" /\ op[p].pc = "recording"
  \/ kind = None /\ op[p].kind = "remove" /\ op[p].pc = "dropping"

(* What is recorded, updated or dropped keeps the invariant.                 *)
LEMMA SavesKeeps ==
  ASSUME ContributionsAssumption, ContribInv, NEW p \in Processes, op[p] # None,
         NEW kind \in Kinds,
         Records(p, kind), Saves(p, op[p].id, kind), Ended(p),
         UNCHANGED <<root, hand, trusted, source, fetchHead, meddled, littered>>,
         crossed => crossed'
  PROVE  ContribInv'
<1> DEFINE id == op[p].id
<1>1. \A q \in Processes : op'[q] # None =>
        op'[q] = op[q] /\ op[q] # None /\ q # p /\ view'[q] = view[q]
  BY DEF Ended, Saves, ContribInv, ContribTyped
<1>2. id \in Ids /\ \A q \in Processes : op[q] # None => op[q].id \in Ids
  BY DEF ContribInv, ContribTyped, OpsTyped, Undertakings
<1>3. \A q \in Processes : op'[q] # None => ~op[q].alone /\ (op[q].sole => op[q].id # id)
  BY <1>1 DEF ContribInv, OpsApart
<1>4. /\ disk' \in [Ids -> Kinds] /\ view' \in [Processes -> [Ids -> Kinds]]
      /\ ~stale' => ~stale /\ view[p] = disk /\ disk'[id] = kind
                    /\ \A j \in Ids : j # id => disk'[j] = disk[j]
  BY <1>2 DEF Saves, ContribInv, ContribTyped
<1>5. Clean' => /\ Clean /\ ~stale' /\ op[p].sole
                /\ \A q \in Processes : op[q] # None /\ q # p => op[q].id # id
                /\ kind = "link" => \A q \in Processes : op'[q] = None
  <2>1. Clean' => Clean /\ ~stale' /\ ~crossed'
    BY <1>4 DEF Clean
  <2>2. Clean' => op[p].sole /\ \A q \in Processes : op[q] # None /\ q # p =>
            op[q].id # id
    BY <2>1 DEF Clean, ContribInv, OpsApart
  <2>3. ASSUME Clean', kind = "link"  PROVE  op[p].alone
    BY <2>1, <2>3 DEF Records, ContributionsAssumption
  <2>4. op[p].alone => \A q \in Processes : op'[q] = None
    BY <1>1 DEF ContribInv, OpsApart
  <2> QED
    BY <2>1, <2>2, <2>3, <2>4
<1> HIDE DEF id
<1>11. ContribTyped'
  BY <1>1, <1>4 DEF ContribInv, ContribTyped, OpsTyped, Ended
<1>12. OpsApart'
  BY <1>1 DEF ContribInv, OpsApart
<1>13. TrustedHold'
  BY DEF ContribInv, TrustedHold
<1>14. InstallsFill'
  BY <1>1 DEF ContribInv, InstallsFill, Installs
<1>15. InstallsMeet'
  BY <1>1 DEF ContribInv, InstallsMeet, Installs
<1>16. UnseenApart'
  <2>1. \A q \in Processes : Installs(q, {"validating"})' =>
          Installs(q, {"validating"}) /\ op'[q] = op[q]
    BY <1>1 DEF Installs
  <2> QED
    BY <2>1 DEF ContribInv, UnseenApart
<1>17. UpdatesHold'
  BY <1>1, <1>3 DEF UpdatesHold
<1>18. HandInv'
  <2>1. ~stale' /\ kind \in {"git", "copy"} => hand[id] = None
    BY <1>4 DEF Records, ContribInv, HandInv, Writes, id, ContributionsAssumption
  <2>2. ~stale' => \A k \in Ids : hand[k] # None => ~Writes(disk'[k])
    <3>1. ~stale' => \A k \in Ids : hand[k] # None /\ k # id => ~Writes(disk'[k])
      BY <1>4 DEF ContribInv, HandInv
    <3>2. ~stale' => (hand[id] # None => ~Writes(disk'[id]))
      BY <1>4, <2>1 DEF Writes
    <3> QED
      BY <3>1, <3>2
  <2> QED
    BY <1>1, <1>4, <2>2 DEF ContribInv, HandInv
<1>19. NoHand'
  BY DEF ContribInv, NoHand
<1>20. RootIsRecorded'
  <2> SUFFICES ASSUME Clean', NEW k \in Ids, root[k] # None, ~Writes(disk'[k])
               PROVE  InPlace(k)'
    BY DEF RootIsRecorded
  <2>1. CASE k = id
    <3>1. ~Writes(kind) /\ ~InPlace(id)
      BY <1>4, <1>5, <2>1 DEF InPlace, Records, Writes, id, ContributionsAssumption
    <3>2. kind # None
      BY <1>5, <2>1 DEF ContribInv, DroppedIsGone, Records, id,
         ContributionsAssumption
    <3>3. Writes(disk[id])
      BY <1>2, <1>5, <2>1, <3>1 DEF ContribInv, RootIsRecorded
    <3>4. disk[id] = None
      BY <1>5, <3>1, <3>2 DEF ContribInv, OpsFit, Records, Writes, id
    <3> QED
      BY <3>3, <3>4 DEF Writes, ContributionsAssumption
  <2>2. CASE k # id
    <3>1. PICK q \in Processes : op[q] # None /\ op[q].id = k /\ Writes(op[q].kind)
                                 /\ op[q].pc \in Placed \cup {"cloning"}
      BY <1>4, <1>5, <2>2 DEF ContribInv, RootIsRecorded, InPlace
    <3>2. q # p
      BY <2>2, <3>1 DEF id
    <3> QED
      BY <3>1, <3>2 DEF InPlace, Ended
  <2> QED
    BY <2>1, <2>2
<1>21. RecordIsTrusted'
  <2> SUFFICES ASSUME Clean', NEW k \in Ids, Writes(disk'[k]), k \notin trusted
               PROVE  Dropping(k)'
    BY DEF RecordIsTrusted
  <2>1. CASE k = id
    <3>1. kind \in {"git", "copy"}
      BY <1>4, <1>5, <2>1 DEF Writes
    <3>2. CASE op[p].kind = "update"
      <4>1. ~Dropping(id)
        BY <1>5, <3>2 DEF Dropping, id
      <4>2. disk[id] = "git"
        BY <1>5, <3>2 DEF ContribInv, OpsFit, id
      <4> QED
        BY <1>2, <1>5, <2>1, <4>1, <4>2 DEF ContribInv, RecordIsTrusted, Writes
    <3>3. CASE op[p].kind # "update"
      <4>1. Writes(op[p].kind) /\ op[p].pc = "recording"
        BY <3>1, <3>3 DEF Records, Writes, ContributionsAssumption
      <4>2. Hides(p)
        BY <1>5, <2>1, <4>1 DEF ContribInv, Validated, id
      <4>3. PICK j \in op[p].seen : view[p][j] = "link"
        BY <4>2 DEF Hides, LinkMap
      <4>4. disk[j] # "link"
        BY <1>5, <4>1, <4>3 DEF ContribInv, OpsSee, Late
      <4> QED
        BY <1>4, <1>5, <4>3, <4>4
    <3> QED
      BY <3>2, <3>3
  <2>2. CASE k # id
    <3>1. PICK q \in Processes : op[q] # None /\ op[q].id = k /\ op[q].kind = "remove"
                                 /\ op[q].pc = "dropping"
      BY <1>4, <1>5, <2>2 DEF ContribInv, RecordIsTrusted, Dropping
    <3>2. q # p
      BY <2>2, <3>1 DEF id
    <3> QED
      BY <3>1, <3>2 DEF Dropping, Ended
  <2> QED
    BY <2>1, <2>2
<1>22. LinksHold'
  <2> SUFFICES ASSUME Clean'  PROVE LinksHold'
    BY DEF LinksHold
  <2>1. kind = "link" => op[p].alone /\ op[p].kind = "link" /\ op[p].pc = "recording"
    BY <1>5 DEF Records, Clean, ContributionsAssumption
  <2>2. kind = "link" => /\ Good(id, source[id])
                         /\ \A k \in Ids : disk[k] = "link" =>
                                Disjoint(source[id], source[k])
                         /\ \A j \in trusted : Writes(disk[j]) =>
                                Disjoint(source[id], root[j])
    BY <1>5, <2>1 DEF ContribInv, Validated, id
  <2>3. Writes(kind) => \A k \in Ids : k # id /\ disk[k] = "link" =>
            Disjoint(source[k], root[id])
    <3>1. CASE op[p].kind = "update"
      <4>1. id \in trusted
        <5>1. disk[id] = "git" /\ ~Dropping(id)
          BY <1>5, <3>1 DEF ContribInv, OpsFit, Dropping, id
        <5> QED
          BY <1>2, <1>5, <5>1 DEF ContribInv, RecordIsTrusted, Writes
      <4>2. Writes(disk[id])
        BY <1>5, <3>1 DEF ContribInv, OpsFit, id, Writes
      <4> QED
        BY <1>5, <4>1, <4>2 DEF ContribInv, LinksHold
    <3>2. CASE op[p].kind # "update"
      <4>1. Writes(kind) => Writes(op[p].kind) /\ op[p].pc = "recording"
        BY <3>2 DEF Records, Writes, ContributionsAssumption
      <4>2. \A k \in Ids : disk[k] = "link" => view[p][k] = "link" /\ Parses(source[k])
        BY <1>4, <1>5 DEF ContribInv, LinksHold, Good
      <4>3. Writes(kind) => \A k \in Ids : k # id /\ disk[k] = "link" =>
                              Disjoint(root[id], source[k])
        BY <1>5, <4>1, <4>2 DEF ContribInv, Validated, id
      <4> QED
        BY <4>3 DEF Disjoint
    <3> QED
      BY <3>1, <3>2
  <2>4. \A k \in Ids : disk'[k] = "link" =>
          (k = id /\ kind = "link") \/ (k # id /\ disk[k] = "link")
    BY <1>4, <1>5
  <2>5. \A j \in Ids : Writes(disk'[j]) =>
          (j = id /\ Writes(kind)) \/ (j # id /\ Writes(disk[j]))
    BY <1>4, <1>5
  <2>6. \A k \in Ids : disk'[k] = "link" => Good(k, source[k])
    BY <1>5, <2>2, <2>4 DEF ContribInv, LinksHold
  <2>7. \A k, l \in Ids : k # l /\ disk'[k] = "link" /\ disk'[l] = "link" =>
          Disjoint(source[k], source[l])
    <3>1. \A k \in Ids : k # id /\ disk[k] = "link" /\ kind = "link" =>
            Disjoint(source[k], source[id]) /\ Disjoint(source[id], source[k])
      BY <2>2 DEF Disjoint
    <3> QED
      BY <1>5, <2>4, <3>1 DEF ContribInv, LinksHold
  <2>8. \A k \in Ids, j \in trusted : disk'[k] = "link" /\ Writes(disk'[j]) =>
          Disjoint(source[k], root[j])
    <3>1. trusted \subseteq Ids /\ (kind = "link" => ~Writes(kind))
      BY DEF ContribInv, ContribTyped, Writes
    <3> QED
      BY <1>5, <2>2, <2>3, <2>4, <2>5, <3>1 DEF ContribInv, LinksHold
  <2> QED
    BY <2>6, <2>7, <2>8 DEF LinksHold
<1>23. OpsFit'
  <2>1. Clean' => \A q \in Processes : op'[q] # None => disk'[op[q].id] = disk[op[q].id]
    BY <1>1, <1>2, <1>4, <1>5
  <2>2. Clean' => \A q \in Processes : op'[q] # None =>
          \A k \in Ids : disk'[k] = "link" => disk[k] = "link"
    BY <1>4, <1>5
  <2> QED
    BY <1>1, <1>3, <1>5, <2>1, <2>2 DEF ContribInv, OpsFit
<1>24. OpsSee'
  <2>1. Clean' => \A q \in Processes : op'[q] # None =>
          \A k \in Ids : disk'[k] = "link" => disk[k] = "link"
    BY <1>4, <1>5
  <2>2. \A q \in Processes : op'[q] # None => op'[q].seen \subseteq Ids
    BY <1>11 DEF ContribTyped, OpsTyped, Undertakings
  <2> QED
    BY <1>1, <1>3, <1>5, <2>1, <2>2 DEF ContribInv, OpsSee
<1>25. Validated'
  <2>1. \A q \in Processes : op'[q] # None => (Hides(q) => Hides(q)')
    BY <1>1 DEF Hides, LinkMap
  <2> QED
    BY <1>1, <1>3, <1>5, <2>1 DEF ContribInv, Validated
<1>26. DroppedIsGone'
  BY <1>1, <1>5 DEF ContribInv, DroppedIsGone
<1> QED
  BY <1>11, <1>12, <1>13, <1>14, <1>15, <1>16, <1>17, <1>18, <1>19, <1>20, <1>21, <1>22,
     <1>23, <1>24, <1>25, <1>26 DEF ContribInv

(* A checkout: nothing else runs when it is as validated, and it marks a crossing else. *)
LEMMA ChecksOutKeeps ==
  ASSUME ContributionsAssumption, ContribInv, NEW p \in Processes, ChecksOut(p)
  PROVE  ContribInv'
<1> DEFINE id == op[p].id
<1>1. /\ op[p] # None /\ op[p].kind = "update" /\ op[p].pc = "adopting"
      /\ hand[id] = None /\ root[id] # None
      /\ UNCHANGED <<hand, source, fetchHead, disk, view, meddled, stale, littered>>
      /\ crossed => crossed'
  BY DEF ChecksOut, At, IsClone
<1>2. ~crossed' => op[p].alone
  BY DEF ChecksOut
<1>3. Moved(p, "recording", op[p].seen, op[p].candidate)
  BY <1>1, GoesMoves DEF ChecksOut, Pcs, ContribInv, ContribTyped
<1>4. id \in Ids /\ \A q \in Processes : op[q] # None => op[q].id \in Ids
  BY <1>1 DEF ContribInv, ContribTyped, OpsTyped, Undertakings
<1>5. /\ root' \in [Ids -> Raws] /\ root'[id] = fetchHead[id]
      /\ \A j \in Ids : j # id => root'[j] = root[j] /\ (j \in trusted' <=> j \in trusted)
      /\ id \in trusted' => op[p].alone /\ ~Hides(p)
      /\ trusted' \subseteq Ids
      /\ op[p].alone /\ ~Hides(p) => id \in trusted'
  BY <1>1, <1>4 DEF ChecksOut, ContribInv, ContribTyped
<1>6. /\ op' \in [Processes -> Undertakings \cup {None}]
      /\ op'[p] # None /\ op'[p].kind = "update" /\ op'[p].id = id
      /\ op'[p].pc = "recording"
      /\ op'[p].alone = op[p].alone /\ op'[p].sole = op[p].sole
      /\ \A q \in Processes : q # p => op'[q] = op[q]
  BY <1>1, <1>3 DEF Moved
<1>7. \A q \in Processes : q # p /\ op[q] # None =>
        ~op[p].alone /\ ~op[q].alone /\ (op[q].sole => op[q].id # id)
  BY <1>1 DEF ContribInv, OpsApart
<1>8. Clean' => /\ Clean /\ op[p].alone
                /\ \A q \in Processes : op'[q] # None => q = p
                /\ view[p] = disk /\ disk[id] = "git"
  <2>1. Clean' => Clean /\ op[p].alone
    BY <1>1, <1>2 DEF Clean
  <2> QED
    BY <2>1, <1>1, <1>6, <1>7 DEF ContribInv, OpsFit
<1>9. Clean' => ~Hides(p)
  <2>1. Clean' => \A k \in op[p].seen : view[p][k] # "link"
    BY <1>1, <1>4, <1>8 DEF ContribInv, OpsSee, Late
  <2> QED
    BY <2>1 DEF Hides, LinkMap
<1>10. op[p].alone => /\ Good(id, fetchHead[id])
                      /\ \/ Hides(p)
                         \/ \A j \in trusted : j = id \/ Disjoint(fetchHead[id], root[j])
  BY <1>1 DEF ContribInv, UpdatesHold
<1> HIDE DEF id
<1>11. ContribTyped'
  BY <1>1, <1>5, <1>6 DEF ContribInv, ContribTyped, OpsTyped
<1>12. OpsApart'
  <2>1. ~crossed' => op[p].sole
    BY <1>1, <1>2 DEF ContribInv, OpsApart
  <2>2. op[p].alone => op[p].sole
    BY <1>1 DEF ContribInv, OpsApart
  <2>3. ~crossed' => \A q \in Processes : op[q] # None => op[q].sole
    BY <1>1 DEF ContribInv, OpsApart
  <2>4. \A q, r \in Processes : r # q /\ op[q] # None /\ op[r] # None /\ op[r].id = op[q].id
          => ~op[q].sole
    BY DEF ContribInv, OpsApart
  <2>5. \A q \in Processes : /\ op'[q] # None <=> op[q] # None
                             /\ op[q] # None => /\ op'[q].id = op[q].id
                                                /\ op'[q].sole = op[q].sole
                                                /\ op'[q].alone = op[q].alone
    BY <1>1, <1>6 DEF id
  <2>6. \A q \in Processes : op[q] # None /\ op[q].alone =>
          op[q].sole /\ \A r \in Processes : r # q => op[r] = None
    BY DEF ContribInv, OpsApart
  <2> QED
    BY <2>3, <2>4, <2>5, <2>6 DEF OpsApart
<1>13. TrustedHold'
  <2>1. \A j \in trusted' : j # id => j \in trusted /\ root'[j] = root[j]
    BY <1>5
  <2>2. id \in trusted' => \A j \in trusted : j # id =>
          Disjoint(root'[id], root[j]) /\ Disjoint(root[j], root'[id])
    BY <1>5, <1>10 DEF Disjoint
  <2>3. id \in trusted' => Good(id, root'[id])
    BY <1>5, <1>10
  <2> QED
    BY <2>1, <2>2, <2>3 DEF ContribInv, TrustedHold
<1>14. InstallsFill'
  <2>1. \A q \in Processes : Installs(q, Placed)' =>
          q # p /\ op'[q] = op[q] /\ Installs(q, Placed) /\ op[q].id # id
    BY <1>6, <1>7 DEF Installs, Writes
  <2> QED
    BY <1>4, <1>5, <2>1 DEF ContribInv, InstallsFill, Installs
<1>15. InstallsMeet'
  <2>1. \A q \in Processes : Installs(q, {"validating"})' =>
          op'[q] = op[q] /\ Installs(q, {"validating"})
    BY <1>6 DEF Installs
  <2> QED
    BY <2>1 DEF ContribInv, InstallsMeet
<1>16. UnseenApart'
  <2>1. \A q \in Processes : Installs(q, {"validating"})' =>
          op'[q] = op[q] /\ Installs(q, {"validating"}) /\ op[q].id # id /\ ~op[p].alone
          /\ op[q].id \in Ids
    BY <1>4, <1>6, <1>7 DEF Installs
  <2> QED
    BY <1>5, <2>1 DEF ContribInv, UnseenApart
<1>17. UpdatesHold'
  <2>1. \A q \in Processes : op'[q] # None /\ op'[q].alone => q = p
    BY <1>6, <1>7
  <2> QED
    BY <2>1, <1>6 DEF UpdatesHold
<1>18. HandInv'
  <2>1. ~stale => \A k \in Ids : hand[k] # None =>
            k # id /\ root[k] = hand[k] /\ ~Writes(disk[k])
    BY <1>1 DEF ContribInv, HandInv
  <2>2. \A q \in Processes : q # p /\ op'[q] # None => op'[q] = op[q] /\ op[q] # None
    BY <1>6
  <2> QED
    BY <1>1, <1>5, <1>6, <2>1, <2>2 DEF ContribInv, HandInv
<1>19. NoHand'
  BY <1>1 DEF ContribInv, NoHand
<1>20. RootIsRecorded'
  <2>1. Clean => \A k \in Ids : InPlace(k) => \E q \in Processes : q # p /\ op'[q] # None
    BY <1>1, <1>6 DEF InPlace, Writes
  <2> QED
    BY <1>1, <1>5, <1>8, <2>1 DEF ContribInv, RootIsRecorded, Writes
<1>21. RecordIsTrusted'
  <2>1. \A k \in Ids : Dropping(k) => \E q \in Processes : q # p /\ op'[q] # None
    BY <1>1, <1>6 DEF Dropping
  <2> QED
    BY <1>1, <1>5, <1>8, <1>9, <2>1 DEF ContribInv, RecordIsTrusted
<1>22. LinksHold'
  <2>1. Clean' => \A k \in Ids : disk[k] = "link" => Disjoint(fetchHead[id], source[k])
    BY <1>1, <1>8 DEF ContribInv, Validated, UpdatesHold, id
  <2>2. Clean' => \A k \in Ids : disk[k] = "link" => Disjoint(source[k], root'[id])
    BY <1>5, <2>1 DEF Disjoint
  <2> QED
    BY <1>1, <1>5, <1>8, <2>2 DEF ContribInv, LinksHold
<1>23. OpsFit'
  BY <1>1, <1>6, <1>8 DEF ContribInv, OpsFit
<1>24. OpsSee'
  <2>1. op'[p].seen = op[p].seen
    BY <1>3 DEF Moved
  <2> QED
    BY <1>1, <1>5, <1>6, <1>8, <2>1 DEF ContribInv, OpsSee, Late, id
<1>25. Validated'
  BY <1>6, <1>8 DEF Validated, Writes
<1>26. DroppedIsGone'
  BY <1>6, <1>8 DEF DroppedIsGone
<1> QED
  BY <1>11, <1>12, <1>13, <1>14, <1>15, <1>16, <1>17, <1>18, <1>19, <1>20, <1>21, <1>22,
     <1>23, <1>24, <1>25, <1>26 DEF ContribInv

(* Every step keeps the invariant.                                           *)
LEMMA ContribInvInductive ==
  ASSUME ContributionsAssumption
  PROVE  ContribInv /\ [ContributionsNext]_contributionVars => ContribInv'
<1> SUFFICES ASSUME ContribInv, [ContributionsNext]_contributionVars
             PROVE ContribInv'
  OBVIOUS
<1> USE DEF ContribInv, tree, marks
<1>known. \A p \in Processes : op[p] # None =>
            op[p].id \in Ids /\ op[p].seen \subseteq Ids /\ op[p].candidate \in Raws
  BY DEF ContribTyped, OpsTyped, Undertakings
<1>1. ASSUME NEW p \in Processes, NEW i \in Ids,
             NEW form \in SourceForms, NEW linked \in BOOLEAN,
             InstallBegins(p, i, form, linked)
      PROVE ContribInv'
  <2>0. PlanOf(form, linked) \in (IF i \in Git THEN {"git"} ELSE {"copy", "link"})
        /\ Loaded(p)[i] = None /\ Begins(p, PlanOf(form, linked), i, "placing")
    BY <1>1 DEF InstallBegins
  <2>1. PICK kind \in {"git", "copy", "link"} :
          Begins(p, kind, i, "placing") /\ (kind = "git" <=> i \in Git)
    BY <2>0
  <2>2. Fits(p, kind, i, "placing")
    BY <2>0, <2>1 DEF Fits
  <2> HIDE DEF ContribInv
  <2> QED
    BY <2>1, <2>2, BeginsKeeps DEF Pcs
<1>2. ASSUME NEW p \in Processes, CloneBegins(p)
      PROVE ContribInv'
  <2>1. op[p] # None /\ Goes(p, "cloning")
    BY <1>2 DEF CloneBegins, At
  <2>2. Moved(p, "cloning", op[p].seen, op[p].candidate)
    BY <2>1, GoesMoves DEF Pcs, ContribTyped
  <2>3. ContribTyped'
    BY <1>known, <1>2, <2>1, <2>2, RawsHold DEF CloneBegins, At, Changes, Moved,
           ContribTyped, OpsTyped, Processes, Kinds
  <2>4. OpsApart' /\ TrustedHold'
    BY <1>known, <1>2, <2>1, <2>2 DEF CloneBegins, At, Changes, Moved, OpsApart,
           TrustedHold, ContribTyped
  <2>5. InstallsFill'
    BY <1>known, <1>2, <2>1, <2>2 DEF CloneBegins, At, Changes, Moved, InstallsFill,
           Installs, OpsApart, ContribTyped, Placed
  <2>6. InstallsMeet'
    BY <1>known, <1>2, <2>1, <2>2 DEF CloneBegins, At, Changes, Moved, InstallsMeet,
           Installs, OpsApart, InstallsFill, Placed
  <2>7. UnseenApart' /\ UpdatesHold'
    BY <1>known, <1>2, <2>1, <2>2 DEF CloneBegins, At, Changes, Moved, UnseenApart,
           Installs, OpsApart, TrustedHold, UpdatesHold, Hides
  <2>8. HandInv' /\ NoHand' /\ RootIsRecorded' /\ LinksHold'
    BY <1>known, <1>2, <2>1, <2>2 DEF CloneBegins, At, Changes, Moved, HandInv,
           ContribTyped, Writes, NoHand, RootIsRecorded, InPlace, Placed, Clean,
           Processes, LinksHold, OpsFit
  <2>9. RecordIsTrusted'
    <3>1. Clean => disk[op[p].id] = None
      BY <1>known, <1>2, <2>1, <2>2 DEF OpsFit, CloneBegins, At
    <3>2. \A k \in Ids : Dropping(k) => Dropping(k)'
      BY <1>known, <1>2, <2>1, <2>2 DEF Dropping, Moved, CloneBegins, At
    <3> HIDE DEF Dropping
    <3> QED
      BY <1>known, <1>2, <2>1, <2>2, <3>1, <3>2 DEF RecordIsTrusted, Writes, Clean,
         ContribTyped, CloneBegins, Changes, ContributionsAssumption
  <2>10. DroppedIsGone'
    <3>1. \A q \in Processes : op'[q] # None /\ op'[q].pc = "dropping" =>
            op'[q] = op[q] /\ q # p
      BY <1>known, <1>2, <2>1, <2>2 DEF Moved
    <3>2. ~crossed => \A q \in Processes : op[q] # None /\ q # p => op[q].id # op[p].id
      BY <1>known, <1>2, <2>1, <2>2 DEF OpsApart, CloneBegins, At
    <3> QED
      BY <1>known, <1>2, <2>1, <2>2, <3>1, <3>2 DEF DroppedIsGone, Clean,
         ContribTyped, CloneBegins, Changes
  <2>11. OpsFit'
    BY <1>known, <1>2, <2>1, <2>2 DEF CloneBegins, At, Changes, Moved, OpsFit,
           OpsApart, Clean, ContribTyped
  <2>12. OpsSee'
    BY <1>known, <1>2, <2>1, <2>2 DEF CloneBegins, At, Changes, Moved, OpsSee,
           OpsFit, OpsApart, Clean, Late, ContribTyped
  <2>13. Validated'
    BY <1>known, <1>2, <2>1, <2>2 DEF CloneBegins, At, Changes, Moved, Validated,
           OpsFit, OpsApart, Clean, Writes, Hides, LinkMap, ContribTyped
  <2> QED
    BY <2>3, <2>4, <2>5, <2>6, <2>7, <2>8, <2>9, <2>10, <2>11, <2>12, <2>13
<1>3. ASSUME NEW p \in Processes, Cloned(p)
      PROVE ContribInv'
  <2>1. op[p] # None /\ Goes(p, "listing")
    BY <1>3 DEF Cloned, At
  <2>2. Moved(p, "listing", op[p].seen, op[p].candidate)
    BY <2>1, GoesMoves DEF Pcs, ContribTyped
  <2>3. ContribTyped'
    BY <1>known, <1>3, <2>1, <2>2, RawsHold DEF Cloned, At, Changes, Moved,
           ContribTyped, OpsTyped, Processes, Kinds
  <2>4. OpsApart' /\ TrustedHold'
    BY <1>known, <1>3, <2>1, <2>2 DEF Cloned, At, Changes, Moved, OpsApart,
           TrustedHold, ContribTyped
  <2>5. InstallsFill'
    BY <1>known, <1>3, <2>1, <2>2 DEF Cloned, At, Changes, Moved, InstallsFill,
           Installs, OpsApart, ContribTyped, Placed
  <2>6. InstallsMeet'
    BY <1>known, <1>3, <2>1, <2>2 DEF Cloned, At, Changes, Moved, InstallsMeet,
           Installs, OpsApart, InstallsFill, Placed
  <2>7. UnseenApart' /\ UpdatesHold'
    BY <1>known, <1>3, <2>1, <2>2 DEF Cloned, At, Changes, Moved, UnseenApart,
           Installs, OpsApart, TrustedHold, UpdatesHold, Hides
  <2>8. HandInv' /\ NoHand' /\ RootIsRecorded' /\ LinksHold'
    BY <1>known, <1>3, <2>1, <2>2 DEF Cloned, At, Changes, Moved, HandInv,
           ContribTyped, Writes, NoHand, RootIsRecorded, InPlace, Placed, Clean,
           Processes, LinksHold, OpsFit
  <2>9. RecordIsTrusted'
    <3>1. Clean => disk[op[p].id] = None
      BY <1>known, <1>3, <2>1, <2>2 DEF OpsFit, Cloned, At
    <3>2. \A k \in Ids : Dropping(k) => Dropping(k)'
      BY <1>known, <1>3, <2>1, <2>2 DEF Dropping, Moved, Cloned, At
    <3> HIDE DEF Dropping
    <3> QED
      BY <1>known, <1>3, <2>1, <2>2, <3>1, <3>2 DEF RecordIsTrusted, Writes, Clean,
         ContribTyped, Cloned, Changes, ContributionsAssumption
  <2>10. DroppedIsGone'
    <3>1. \A q \in Processes : op'[q] # None /\ op'[q].pc = "dropping" =>
            op'[q] = op[q] /\ q # p
      BY <1>known, <1>3, <2>1, <2>2 DEF Moved
    <3>2. ~crossed => \A q \in Processes : op[q] # None /\ q # p => op[q].id # op[p].id
      BY <1>known, <1>3, <2>1, <2>2 DEF OpsApart, Cloned, At
    <3> QED
      BY <1>known, <1>3, <2>1, <2>2, <3>1, <3>2 DEF DroppedIsGone, Clean,
         ContribTyped, Cloned, Changes
  <2>11. OpsFit'
    BY <1>known, <1>3, <2>1, <2>2 DEF Cloned, At, Changes, Moved, OpsFit, OpsApart,
           Clean, ContribTyped
  <2>12. OpsSee'
    BY <1>known, <1>3, <2>1, <2>2 DEF Cloned, At, Changes, Moved, OpsSee, OpsFit,
           OpsApart, Clean, Late, ContribTyped
  <2>13. Validated'
    BY <1>known, <1>3, <2>1, <2>2 DEF Cloned, At, Changes, Moved, Validated, OpsFit,
           OpsApart, Clean, Writes, Hides, LinkMap, ContribTyped
  <2> QED
    BY <2>3, <2>4, <2>5, <2>6, <2>7, <2>8, <2>9, <2>10, <2>11, <2>12, <2>13
<1>4. ASSUME NEW p \in Processes, CloneFails(p)
      PROVE ContribInv'
  <2>1. op[p] # None /\ Ended(p)
    BY <1>4, EndsEnds DEF CloneFails, At, Ends, ContribTyped
  <2>2. TakesBack(p)
    BY <1>4 DEF TakesBack, CloneFails, At, Changes, Placed, Writes
  <2>3. UNCHANGED <<hand, source, fetchHead, disk, view, meddled, crossed, stale>>
    BY <1>4 DEF CloneFails, Changes
  <2>4. littered => littered'
    BY <1>4 DEF CloneFails
  <2> HIDE DEF ContribInv
  <2> QED
    BY <2>1, <2>2, <2>3, <2>4, EndsKeeps
<1>5. ASSUME NEW p \in Processes, CopyBegins(p)
      PROVE ContribInv'
  <2>1. op[p] # None /\ (Goes(p, "copying") \/ Ends(p))
    BY <1>5 DEF CopyBegins, At
  <2>2. Moved(p, "copying", op[p].seen, op[p].candidate) \/ Ended(p)
    BY <2>1, GoesMoves, EndsEnds DEF Pcs, ContribTyped
  <2>3. ContribTyped'
    BY <1>known, <1>5, <2>1, <2>2, RawsHold DEF CopyBegins, At, Free, Moved, Ended,
           ContribTyped, OpsTyped, Processes, Kinds
  <2>4. OpsApart' /\ TrustedHold'
    BY <1>known, <1>5, <2>1, <2>2 DEF CopyBegins, At, Free, Moved, Ended, OpsApart,
           TrustedHold, ContribTyped
  <2>5. InstallsFill'
    BY <1>known, <1>5, <2>1, <2>2 DEF CopyBegins, At, Free, Moved, Ended,
           InstallsFill, Installs, OpsApart, ContribTyped, Placed
  <2>6. InstallsMeet'
    BY <1>known, <1>5, <2>1, <2>2 DEF CopyBegins, At, Free, Moved, Ended,
           InstallsMeet, Installs, OpsApart, InstallsFill, Placed
  <2>7. UnseenApart' /\ UpdatesHold'
    BY <1>known, <1>5, <2>1, <2>2 DEF CopyBegins, At, Free, Moved, Ended,
           UnseenApart, Installs, OpsApart, TrustedHold, UpdatesHold, Hides
  <2>8. NoHand' /\ RootIsRecorded' /\ RecordIsTrusted' /\ DroppedIsGone' /\ LinksHold'
    BY <1>known, <1>5, <2>1, <2>2 DEF CopyBegins, At, Free, Moved, Ended, NoHand,
           RootIsRecorded, InPlace, Writes, Placed, Clean, Processes,
           RecordIsTrusted, Dropping, DroppedIsGone, LinksHold, OpsFit, ContribTyped
  <2>9. HandInv'
    <3>1. op'[p] # None /\ ~stale => hand[op[p].id] = None
      BY <1>known, <1>5, <2>1, <2>2 DEF HandInv, CopyBegins, At, Free, Moved, Ended, Ends
    <3> QED
      BY <1>known, <1>5, <2>1, <2>2, <3>1 DEF HandInv, CopyBegins, Moved, Ended, Writes
  <2>10. OpsFit' /\ OpsSee'
    BY <1>known, <1>5, <2>1, <2>2 DEF CopyBegins, At, Free, Moved, Ended, OpsFit,
           OpsApart, Clean, ContribTyped, OpsSee, Late
  <2>11. Validated'
    BY <1>known, <1>5, <2>1, <2>2 DEF CopyBegins, At, Free, Moved, Ended, Validated,
           OpsFit, OpsApart, Clean, Writes, Hides, LinkMap, ContribTyped
  <2> QED
    BY <2>3, <2>4, <2>5, <2>6, <2>7, <2>8, <2>9, <2>10, <2>11
<1>6. ASSUME NEW p \in Processes, Copied(p)
      PROVE ContribInv'
  <2>1. op[p] # None /\ Goes(p, "listing")
    BY <1>6 DEF Copied, At
  <2>2. Moved(p, "listing", op[p].seen, op[p].candidate)
    BY <2>1, GoesMoves DEF Pcs, ContribTyped
  <2>3. ContribTyped'
    BY <1>known, <1>6, <2>1, <2>2, RawsHold DEF Copied, At, Changes, Moved,
           ContribTyped, OpsTyped, Processes, Kinds
  <2>4. OpsApart' /\ TrustedHold'
    BY <1>known, <1>6, <2>1, <2>2 DEF Copied, At, Changes, Moved, OpsApart,
           TrustedHold, ContribTyped
  <2>5. InstallsFill' /\ InstallsMeet'
    BY <1>known, <1>6, <2>1, <2>2 DEF Copied, At, Changes, Moved, InstallsFill,
           Installs, OpsApart, ContribTyped, Placed, InstallsMeet
  <2>6. UnseenApart' /\ UpdatesHold'
    BY <1>known, <1>6, <2>1, <2>2 DEF Copied, At, Changes, Moved, UnseenApart,
           Installs, OpsApart, TrustedHold, UpdatesHold, Hides
  <2>7. HandInv' /\ NoHand' /\ RootIsRecorded' /\ LinksHold'
    BY <1>known, <1>6, <2>1, <2>2 DEF Copied, At, Changes, Moved, HandInv,
           ContribTyped, Writes, NoHand, RootIsRecorded, InPlace, Placed, Clean,
           Processes, LinksHold, OpsFit
  <2>8. RecordIsTrusted'
    <3>1. Clean => disk[op[p].id] = None
      BY <1>known, <1>6, <2>1, <2>2 DEF OpsFit, Copied, At
    <3>2. \A k \in Ids : Dropping(k) => Dropping(k)'
      BY <1>known, <1>6, <2>1, <2>2 DEF Dropping, Moved, Copied, At
    <3> HIDE DEF Dropping
    <3> QED
      BY <1>known, <1>6, <2>1, <2>2, <3>1, <3>2 DEF RecordIsTrusted, Writes, Clean,
         ContribTyped, Copied, Changes, ContributionsAssumption
  <2>9. DroppedIsGone'
    <3>1. \A q \in Processes : op'[q] # None /\ op'[q].pc = "dropping" =>
            op'[q] = op[q] /\ q # p
      BY <1>known, <1>6, <2>1, <2>2 DEF Moved
    <3>2. ~crossed => \A q \in Processes : op[q] # None /\ q # p => op[q].id # op[p].id
      BY <1>known, <1>6, <2>1, <2>2 DEF OpsApart, Copied, At
    <3> QED
      BY <1>known, <1>6, <2>1, <2>2, <3>1, <3>2 DEF DroppedIsGone, Clean,
         ContribTyped, Copied, Changes
  <2>10. OpsFit' /\ OpsSee'
    BY <1>known, <1>6, <2>1, <2>2 DEF Copied, At, Changes, Moved, OpsFit, OpsApart,
           Clean, ContribTyped, OpsSee, Late
  <2>11. Validated'
    BY <1>known, <1>6, <2>1, <2>2 DEF Copied, At, Changes, Moved, Validated, OpsFit,
           OpsApart, Clean, Writes, Hides, LinkMap, ContribTyped
  <2> QED
    BY <2>3, <2>4, <2>5, <2>6, <2>7, <2>8, <2>9, <2>10, <2>11
<1>7. ASSUME NEW p \in Processes, CopyFails(p)
      PROVE ContribInv'
  <2>1. op[p] # None /\ Ended(p)
    BY <1>7, EndsEnds DEF CopyFails, At, Ends, ContribTyped
  <2>2. TakesBack(p)
    BY <1>7 DEF TakesBack, CopyFails, At, Changes, Placed, Writes
  <2>3. UNCHANGED <<hand, source, fetchHead, disk, view, meddled, crossed, stale>>
    BY <1>7 DEF CopyFails, Changes
  <2>4. littered => littered'
    BY <1>7 DEF CopyFails
  <2> HIDE DEF ContribInv
  <2> QED
    BY <2>1, <2>2, <2>3, <2>4, EndsKeeps
<1>8. ASSUME NEW p \in Processes, Links(p)
      PROVE ContribInv'
  <2>1. op[p] # None /\ (Goes(p, "listing") \/ Ends(p))
    BY <1>8 DEF Links, At
  <2>2. Moved(p, "listing", op[p].seen, op[p].candidate) \/ Ended(p)
    BY <2>1, GoesMoves, EndsEnds DEF Pcs, ContribTyped
  <2>3. ContribTyped'
    BY <1>known, <1>8, <2>1, <2>2, RawsHold DEF Links, At, Moved, Ended,
           ContribTyped, OpsTyped, Processes, Kinds
  <2>4. OpsApart' /\ TrustedHold'
    BY <1>known, <1>8, <2>1, <2>2 DEF Links, At, Moved, Ended, OpsApart,
           TrustedHold, ContribTyped
  <2>5. InstallsMeet'
    BY <1>known, <1>8, <2>1, <2>2 DEF Links, At, Moved, Ended, InstallsMeet,
           Installs, OpsApart, InstallsFill, Placed
  <2>6. InstallsFill'
    <3>1. \A q \in Processes : Installs(q, Placed)' =>
              Installs(q, Placed) /\ op'[q].id = op[q].id
      <4>1. ~Writes(op[p].kind)
        BY <1>known, <1>8, <2>1, <2>2 DEF Links, At, Writes
      <4> QED
        BY <1>known, <1>8, <2>1, <2>2, <4>1 DEF Installs, Moved, Ended
    <3> QED
      BY <1>known, <1>8, <2>1, <2>2, <3>1 DEF InstallsFill, Links
  <2>7. UnseenApart' /\ UpdatesHold'
    BY <1>known, <1>8, <2>1, <2>2 DEF Links, At, Moved, Ended, UnseenApart,
           Installs, OpsApart, TrustedHold, UpdatesHold, Hides
  <2>8. /\ HandInv' /\ NoHand' /\ RootIsRecorded' /\ RecordIsTrusted' /\ DroppedIsGone'
        /\ LinksHold'
    BY <1>known, <1>8, <2>1, <2>2 DEF Links, At, Moved, Ended, HandInv,
           ContribTyped, Writes, NoHand, RootIsRecorded, InPlace, Placed, Clean,
           Processes, RecordIsTrusted, Dropping, DroppedIsGone, LinksHold, OpsFit
  <2>9. OpsFit' /\ OpsSee'
    BY <1>known, <1>8, <2>1, <2>2 DEF Links, At, Moved, Ended, OpsFit, OpsApart,
           Clean, ContribTyped, OpsSee, Late
  <2>10. Validated'
    BY <1>known, <1>8, <2>1, <2>2 DEF Links, At, Moved, Ended, Validated, OpsFit,
           OpsApart, Clean, Writes, Hides, LinkMap, ContribTyped
  <2> QED
    BY <2>3, <2>4, <2>5, <2>6, <2>7, <2>8, <2>9, <2>10
<1>9. ASSUME NEW p \in Processes, Lists(p)
      PROVE ContribInv'
  <2>1. /\ op[p] # None /\ op[p].pc = "listing"
        /\ Moved(p, "validating", Names, op[p].candidate)
    BY <1>9, ListsMoves DEF Lists, ContribTyped
  <2>3. ContribTyped'
    BY <1>known, <1>9, <2>1, RawsHold DEF Lists, Names, Moved, ContribTyped,
           OpsTyped, Processes, Kinds
  <2>4. OpsApart' /\ TrustedHold'
    BY <1>known, <1>9, <2>1 DEF Lists, Names, Moved, OpsApart, TrustedHold,
           ContribTyped
  <2>5. InstallsFill' /\ InstallsMeet'
    BY <1>known, <1>9, <2>1 DEF Lists, Names, Moved, InstallsFill, Installs,
           OpsApart, ContribTyped, Placed, InstallsMeet
  <2>6. UnseenApart'
    <3>1. trusted \subseteq Names
      BY DEF TrustedHold, Good, Parses, Names, ContribTyped
    <3> QED
      BY <1>known, <1>9, <2>1, <3>1 DEF UnseenApart, Installs, Lists, Moved
  <2>7. UpdatesHold'
    <3>1. trusted \subseteq Names
      BY DEF TrustedHold, Good, Parses, Names, ContribTyped
    <3>2. \A q \in Processes : q # p => (Hides(q) => Hides(q)')
      BY <1>known, <1>9, <2>1 DEF Hides, Moved, Lists
    <3> HIDE DEF Names
    <3> QED
      BY <1>known, <1>9, <2>1, <3>1, <3>2 DEF UpdatesHold, Lists, Moved
  <2>8. HandInv' /\ NoHand' /\ RecordIsTrusted' /\ DroppedIsGone' /\ LinksHold'
    BY <1>known, <1>9, <2>1 DEF Lists, Names, Moved, HandInv, ContribTyped, Writes,
           NoHand, RecordIsTrusted, Dropping, Clean, Processes, DroppedIsGone,
           LinksHold, OpsFit
  <2>9. RootIsRecorded'
    <3>1. \A k \in Ids : InPlace(k) => InPlace(k)'
      BY <1>known, <1>9, <2>1 DEF InPlace, Moved, Placed
    <3> QED
      BY <1>known, <1>9, <2>1, <3>1 DEF RootIsRecorded, Clean, Lists
  <2>10. OpsFit'
    BY <1>known, <1>9, <2>1 DEF Lists, Names, Moved, OpsFit, OpsApart, Clean,
           ContribTyped
  <2>11. OpsSee'
    <3>1. ASSUME Clean, NEW k \in Names  PROVE disk[k] # "link"
      <4>1. k \in Ids /\ root[k] # None
        BY DEF Names
      <4>2. CASE Writes(disk[k])
        BY <4>2 DEF Writes
      <4>3. CASE InPlace(k)
        BY <3>1, <4>3 DEF InPlace, OpsFit, Writes, ContributionsAssumption
      <4> QED
        BY <3>1, <4>1, <4>2, <4>3 DEF RootIsRecorded
    <3>2. \A j \in Ids : root[j] = None \/ j \in Names
      BY DEF Names
    <3>3. \A q \in Processes : q # p => op'[q] = op[q]
      BY <1>known, <1>9, <2>1 DEF Moved
    <3> HIDE DEF Names
    <3> QED
      BY <1>known, <1>9, <2>1, <3>1, <3>2, <3>3 DEF OpsSee, Clean, Lists, Moved
  <2>12. Validated'
    <3>1. \A q \in Processes : op'[q] # None /\ op'[q].pc \in {"recording", "adopting"} =>
            q # p /\ op'[q] = op[q] /\ (Hides(q) => Hides(q)')
      BY <1>known, <1>9, <2>1 DEF Moved, Hides, Lists
    <3> HIDE DEF Hides
    <3>2. Clean' => Clean /\ UNCHANGED <<root, trusted, source, disk, view>>
      BY <1>known, <1>9, <2>1 DEF Clean, Lists
    <3> QED
      BY <3>1, <3>2 DEF Validated
  <2> QED
    BY <2>3, <2>4, <2>5, <2>6, <2>7, <2>8, <2>9, <2>10, <2>11, <2>12
<1>10. ASSUME NEW p \in Processes, InstallValidates(p)
      PROVE ContribInv'
  <2>1. op[p] # None /\ Goes(p, "recording")
    BY <1>10 DEF InstallValidates, At
  <2>2. Moved(p, "recording", op[p].seen, op[p].candidate)
    BY <2>1, GoesMoves DEF Pcs, ContribTyped
  <2>3. ContribTyped'
    BY <1>known, <1>10, <2>1, <2>2, RawsHold DEF InstallValidates, At, Accepted,
           Valid, Offered, Moved, ContribTyped, OpsTyped, Processes, Kinds
  <2>4. OpsApart'
    BY <1>known, <1>10, <2>1, <2>2 DEF InstallValidates, At, Accepted, Valid,
           Offered, Moved, OpsApart
  <2>5. TrustedHold'
    <3>1. CASE trusted' = trusted
      BY <1>known, <1>10, <2>1, <2>2, <3>1 DEF TrustedHold, InstallValidates
    <3>2. CASE /\ trusted' = trusted \cup {op[p].id} /\ Installs(p, {"validating"})
               /\ ~Hides(p)
      <4>1. Valid(op[p].id, root[op[p].id], op[p].seen, view[p])
        BY <1>known, <1>10, <2>1, <2>2, <3>2 DEF InstallValidates, Accepted,
           Offered, Installs, Writes
      <4>2. Good(op[p].id, root[op[p].id])
        BY <4>1 DEF Valid, Good
      <4>3. ASSUME NEW j \in trusted, j # op[p].id
            PROVE  Disjoint(root[op[p].id], root[j]) /\ Disjoint(root[j], root[op[p].id])
        <5>1. Parses(root[j])
          BY DEF TrustedHold, Good
        <5>2. CASE j \in op[p].seen
          <6>1. view[p][j] # "link"
            BY <1>known, <1>known, <1>10, <2>1, <2>2, <3>2, <5>2 DEF Hides, LinkMap
          <6> QED
            BY <1>known, <1>10, <2>1, <2>2, <4>1, <4>3, <5>1, <5>2, <6>1, SeenAreApart
        <5>3. CASE j \notin op[p].seen
          <6>1. Disjoint(root[op[p].id], root[j])
            BY <3>2, <4>1, <4>3, <5>3 DEF UnseenApart, Valid
          <6> QED
            BY <6>1 DEF Disjoint
        <5> QED
          BY <5>2, <5>3
      <4> QED
        BY <1>known, <1>10, <2>1, <2>2, <3>2, <4>2, <4>3 DEF TrustedHold, InstallValidates
    <3> QED
      BY <1>known, <1>10, <2>1, <2>2, <3>1, <3>2 DEF InstallValidates, Installs, At,
         Writes
  <2>6. InstallsFill' /\ InstallsMeet'
    BY <1>known, <1>10, <2>1, <2>2 DEF InstallValidates, At, Accepted, Valid,
           Offered, Moved, InstallsFill, Installs, OpsApart, ContribTyped, Placed,
           InstallsMeet
  <2>7. UpdatesHold'
    BY <1>known, <1>10, <2>1, <2>2 DEF InstallValidates, At, Accepted, Valid,
           Offered, Moved, UpdatesHold, OpsApart, Hides
  <2>8. UnseenApart'
    <3>1. \A q \in Processes : Installs(q, {"validating"})' =>
            q # p /\ op'[q] = op[q] /\ Installs(q, {"validating"})
      BY <1>known, <1>10, <2>1, <2>2 DEF Installs, Moved
    <3>2. CASE trusted' = trusted
      BY <1>known, <1>10, <2>1, <2>2, <3>1, <3>2 DEF UnseenApart, InstallValidates
    <3>3. CASE /\ trusted' = trusted \cup {op[p].id} /\ Installs(p, {"validating"})
               /\ ~Hides(p)
      <4>1. ASSUME NEW q \in Processes, q # p, Installs(q, {"validating"}),
                   op[p].id \notin op[q].seen, op[p].id # op[q].id, Parses(root[op[q].id])
            PROVE  Disjoint(root[op[q].id], root[op[p].id])
        <5>1. op[q].id \in op[p].seen
          BY <3>3, <4>1 DEF InstallsMeet
        <5>2. Valid(op[p].id, root[op[p].id], op[p].seen, view[p])
          BY <1>known, <1>10, <2>1, <2>2, <3>3 DEF InstallValidates, Accepted,
             Offered, Installs, Writes
        <5>3. view[p][op[q].id] # "link"
          BY <1>known, <1>10, <2>1, <2>2, <3>3, <5>1 DEF Hides, LinkMap
        <5> QED
          BY <1>known, <1>10, <2>1, <2>2, <4>1, <5>1, <5>2, <5>3, SeenAreApart
      <4> QED
        BY <1>known, <1>10, <2>1, <2>2, <3>1, <3>3, <4>1 DEF UnseenApart, InstallValidates
    <3> QED
      BY <1>known, <1>10, <2>1, <2>2, <3>2, <3>3 DEF InstallValidates, Installs, At,
         Writes
  <2>9. HandInv' /\ NoHand' /\ RootIsRecorded' /\ RecordIsTrusted' /\ DroppedIsGone'
    BY <1>known, <1>10, <2>1, <2>2 DEF InstallValidates, At, Accepted, Valid,
           Offered, Moved, HandInv, ContribTyped, Writes, NoHand, RootIsRecorded,
           InPlace, Placed, Clean, Processes, RecordIsTrusted, Dropping,
           DroppedIsGone
  <2>10. LinksHold'
    <3>1. Clean => ~Writes(disk[op[p].id])
      BY <1>known, <1>10, <2>1, <2>2 DEF OpsFit, InstallValidates, At, Writes,
         ContributionsAssumption
    <3>2. \A j \in trusted' : j \in trusted \/ j = op[p].id
      BY <1>known, <1>10, <2>1, <2>2 DEF InstallValidates
    <3> QED
      BY <1>known, <1>10, <2>1, <2>2, <3>1, <3>2 DEF LinksHold, Clean, InstallValidates
  <2>11. OpsFit'
    BY <1>known, <1>10, <2>1, <2>2 DEF InstallValidates, At, Accepted, Valid,
           Offered, Moved, OpsFit, OpsApart, Clean, ContribTyped
  <2>12. OpsSee'
    BY <1>known, <1>10, <2>1, <2>2 DEF InstallValidates, At, Accepted, Valid,
           Offered, Moved, OpsSee, OpsFit, OpsApart, Clean, Late, ContribTyped
  <2>13. Validated'
    <3> DEFINE id == op[p].id
    <3>1. \A q \in Processes : op'[q] # None /\ q # p => op'[q] = op[q] /\ ~op[q].alone
            /\ (Hides(q) => Hides(q)') /\ (op[q].id \in trusted => op[q].id \in trusted')
      BY <1>known, <1>10, <2>1, <2>2 DEF Moved, Hides, InstallValidates, OpsApart, At
    <3>2. Valid(id, Offered(p), op[p].seen, view[p])
      BY <1>known, <1>10, <2>1, <2>2 DEF InstallValidates, Accepted
    <3>3. ASSUME Clean, Writes(op[p].kind)
          PROVE  /\ id \in trusted' \/ Hides(p)'
                 /\ \A k \in Ids : view[p][k] = "link" /\ Parses(source[k]) /\ k # id =>
                                     Disjoint(root[id], source[k])
      <4>1. op[p].sole /\ op[p].kind # "link"
        BY <1>known, <1>10, <2>1, <2>2, <3>3 DEF OpsApart, Clean, InstallValidates,
           At, Writes
      <4>2. id \in trusted' \/ Hides(p)
        BY <1>known, <1>10, <2>1, <2>2, <4>1 DEF InstallValidates
      <4>3. Hides(p) => Hides(p)'
        BY <1>known, <1>10, <2>1, <2>2 DEF Hides, Moved, InstallValidates
      <4>4. Offered(p) = root[id]
        BY <1>known, <1>10, <2>1, <2>2, <3>3 DEF Offered, Writes
      <4> QED
        BY <1>known, <1>10, <2>1, <2>2, <3>2, <4>2, <4>3, <4>4, LinkedAreApart
    <3>4. ASSUME Clean, op[p].kind = "link", op[p].alone
          PROVE  /\ Good(id, source[id])
                 /\ \A k \in Ids : disk[k] = "link" => Disjoint(source[id], source[k])
                 /\ \A j \in trusted' : Writes(disk[j]) => Disjoint(source[id], root[j])
      <4>1. /\ Offered(p) = source[id] /\ view[p] = disk /\ disk[id] = None
            /\ trusted' = trusted
        BY <1>known, <1>10, <2>1, <2>2, <3>4 DEF Offered, OpsFit, InstallValidates
      <4>2. \A k \in Ids : disk[k] = "link" => k # id /\ Parses(source[k])
        BY <3>4, <4>1 DEF LinksHold, Good, ContributionsAssumption
      <4>3. \A j \in trusted : Writes(disk[j]) =>
              j \in op[p].seen /\ j # id /\ disk[j] # "link" /\ Parses(root[j])
        <5>1. \A j \in trusted : j \in Ids /\ Parses(root[j]) /\ root[j] # None
          BY DEF TrustedHold, Good, Parses, ContribTyped
        <5>2. \A j \in Ids : root[j] = None \/ j = id \/ j \in op[p].seen
          BY <1>known, <1>10, <2>1, <2>2, <3>4 DEF OpsSee, Late, InstallValidates, At
        <5> QED
          BY <4>1, <5>1, <5>2 DEF Writes, ContributionsAssumption
      <4>4. /\ Valid(id, source[id], op[p].seen, view[p]) /\ id \in Ids
            /\ op[p].seen \subseteq Ids
        BY <1>known, <1>10, <2>1, <2>2, <3>2, <4>1
      <4>5. Good(id, source[id])
        BY <4>4 DEF Valid, Good
      <4>6. ASSUME NEW k \in Ids, disk[k] = "link"  PROVE Disjoint(source[id], source[k])
        BY <4>1, <4>2, <4>4, <4>6, LinkedAreApart
      <4>7. ASSUME NEW j \in trusted, Writes(disk[j])  PROVE Disjoint(source[id], root[j])
        BY <4>1, <4>3, <4>4, <4>7, SeenAreApart
      <4> QED
        BY <4>1, <4>5, <4>6, <4>7
    <3> HIDE DEF id
    <3>5. Clean' => Clean /\ UNCHANGED <<root, source, disk, view>>
      BY <1>known, <1>10, <2>1, <2>2 DEF Clean, InstallValidates
    <3>6. /\ op'[p] # None /\ op'[p].kind = op[p].kind /\ op'[p].id = id
          /\ op'[p].alone = op[p].alone /\ op'[p].pc = "recording"
      BY <1>known, <1>10, <2>1, <2>2 DEF Moved, id
    <3>7. ASSUME Clean', NEW q \in Processes, op'[q] # None, q # p
          PROVE  /\ Writes(op'[q].kind) /\ op'[q].pc = "recording" =>
                      /\ op'[q].id \in trusted' \/ Hides(q)'
                      /\ \A k \in Ids :
                           view'[q][k] = "link" /\ Parses(source'[k]) /\ k # op'[q].id
                                          => Disjoint(root'[op'[q].id], source'[k])
                 /\ ~op'[q].alone
      BY <1>known, <1>10, <2>1, <2>2, <3>1, <3>5, <3>7 DEF Validated, Moved
    <3>8. ASSUME Clean'
          PROVE  /\ Writes(op'[p].kind) =>
                      /\ op'[p].id \in trusted' \/ Hides(p)'
                      /\ \A k \in Ids :
                           view'[p][k] = "link" /\ Parses(source'[k]) /\ k # op'[p].id
                                          => Disjoint(root'[op'[p].id], source'[k])
                 /\ op'[p].kind = "link" /\ op'[p].alone =>
                      /\ Good(op'[p].id, source'[op'[p].id])
                      /\ \A k \in Ids : disk'[k] = "link" =>
                             Disjoint(source'[op'[p].id], source'[k])
                      /\ \A j \in trusted' : Writes(disk'[j]) =>
                             Disjoint(source'[op'[p].id], root'[j])
                 /\ op'[p].pc # "adopting"
      BY <3>3, <3>4, <3>5, <3>6, <3>8
    <3> HIDE DEF Hides
    <3> QED
      BY <3>7, <3>8 DEF Validated
  <2> QED
    BY <2>3, <2>4, <2>5, <2>6, <2>7, <2>8, <2>9, <2>10, <2>11, <2>12, <2>13
<1>11. ASSUME NEW p \in Processes, InstallRefused(p)
      PROVE ContribInv'
  <2>1. op[p] # None /\ Ended(p)
    BY <1>11, EndsEnds DEF InstallRefused, At, Ends, ContribTyped
  <2>2. TakesBack(p)
    BY <1>11 DEF TakesBack, InstallRefused, At, Changes, Placed, Writes, CleansUp
  <2>3. UNCHANGED <<hand, source, fetchHead, disk, view, meddled, crossed, stale>>
    BY <1>11 DEF InstallRefused, Changes, CleansUp
  <2>4. littered => littered'
    BY <1>11 DEF InstallRefused
  <2> HIDE DEF ContribInv
  <2> QED
    BY <2>1, <2>2, <2>3, <2>4, EndsKeeps
<1>12. ASSUME NEW p \in Processes, InstallRecorded(p)
      PROVE ContribInv'
  <2>1. op[p] # None /\ Ended(p)
    BY <1>12, EndsEnds DEF InstallRecorded, At, Ends, ContribTyped
  <2>2. op[p].kind \in Kinds /\ Records(p, op[p].kind) /\ Saves(p, op[p].id, op[p].kind)
    BY <1>12 DEF InstallRecorded, At, Records, Kinds
  <2>3. UNCHANGED <<root, hand, trusted, source, fetchHead, meddled, littered>>
        /\ (crossed => crossed')
    BY <1>12 DEF InstallRecorded
  <2> HIDE DEF ContribInv
  <2> QED
    BY <2>1, <2>2, <2>3, SavesKeeps
<1>13. ASSUME NEW p \in Processes, InstallUnrecorded(p)
      PROVE ContribInv'
  <2>1. op[p] # None /\ Ended(p)
    BY <1>13, EndsEnds DEF InstallUnrecorded, At, Ends, ContribTyped
  <2>2. TakesBack(p)
    BY <1>13 DEF TakesBack, InstallUnrecorded, At, Changes, Placed, Writes, CleansUp
  <2>3. UNCHANGED <<hand, source, fetchHead, disk, view, meddled, crossed, stale>>
    BY <1>13 DEF InstallUnrecorded, Changes, CleansUp
  <2>4. littered => littered'
    BY <1>13 DEF InstallUnrecorded
  <2> HIDE DEF ContribInv
  <2> QED
    BY <2>1, <2>2, <2>3, <2>4, EndsKeeps
<1>14. ASSUME NEW p \in Processes, NEW i \in Ids, UpdateBegins(p, i)
      PROVE ContribInv'
  <2>1. Begins(p, "update", i, "fetching") /\ Fits(p, "update", i, "fetching")
    BY <1>14 DEF UpdateBegins, Fits
  <2> HIDE DEF ContribInv
  <2> QED
    BY <2>1, BeginsKeeps DEF Pcs
<1>15. ASSUME NEW p \in Processes, Fetched(p)
      PROVE ContribInv'
  <2>1. op[p] # None /\ Goes(p, "showing")
    BY <1>15 DEF Fetched, At
  <2>2. Moved(p, "showing", op[p].seen, op[p].candidate)
    BY <2>1, GoesMoves DEF Pcs, ContribTyped
  <2>3. ContribTyped'
    BY <1>known, <1>15, <2>1, <2>2, RawsHold DEF Fetched, At, IsClone, Moved,
           ContribTyped, OpsTyped, Processes, Kinds
  <2>4. OpsApart' /\ TrustedHold'
    BY <1>known, <1>15, <2>1, <2>2 DEF Fetched, At, IsClone, Moved, OpsApart,
           TrustedHold, ContribTyped
  <2>5. InstallsFill'
    BY <1>known, <1>15, <2>1, <2>2 DEF Fetched, At, IsClone, Moved, InstallsFill,
           Installs, OpsApart, ContribTyped, Placed
  <2>6. InstallsMeet'
    BY <1>known, <1>15, <2>1, <2>2 DEF Fetched, At, IsClone, Moved, InstallsMeet,
           Installs, OpsApart, InstallsFill, Placed
  <2>7. UnseenApart' /\ UpdatesHold'
    BY <1>known, <1>15, <2>1, <2>2 DEF Fetched, At, IsClone, Moved, UnseenApart,
           Installs, OpsApart, TrustedHold, UpdatesHold, Hides
  <2>8. /\ HandInv' /\ NoHand' /\ RootIsRecorded' /\ RecordIsTrusted' /\ DroppedIsGone'
        /\ LinksHold'
    BY <1>known, <1>15, <2>1, <2>2 DEF Fetched, At, IsClone, Moved, HandInv,
           ContribTyped, Writes, NoHand, RootIsRecorded, InPlace, Placed, Clean,
           Processes, RecordIsTrusted, Dropping, DroppedIsGone, LinksHold, OpsFit
  <2>9. OpsFit' /\ OpsSee'
    BY <1>known, <1>15, <2>1, <2>2 DEF Fetched, At, IsClone, Moved, OpsFit,
           OpsApart, Clean, ContribTyped, OpsSee, Late
  <2>10. Validated'
    BY <1>known, <1>15, <2>1, <2>2 DEF Fetched, At, IsClone, Moved, Validated,
           OpsFit, OpsApart, Clean, Writes, Hides, LinkMap, ContribTyped
  <2> QED
    BY <2>3, <2>4, <2>5, <2>6, <2>7, <2>8, <2>9, <2>10
<1>16. ASSUME NEW p \in Processes, Shown(p)
      PROVE ContribInv'
  <2>1. /\ op[p] # None /\ op[p].pc = "showing" /\ op[p].kind = "update"
        /\ Moved(p, "listing", op[p].seen, fetchHead[op[p].id])
    BY <1>16, ShownMoves DEF Shown, At, ContribTyped
  <2>3. ContribTyped'
    BY <1>known, <1>16, <2>1, RawsHold DEF Shown, At, IsClone, Moved, ContribTyped,
           OpsTyped, Processes, Kinds
  <2>4. OpsApart' /\ TrustedHold'
    BY <1>known, <1>16, <2>1 DEF Shown, At, IsClone, Moved, OpsApart, TrustedHold,
           ContribTyped
  <2>5. InstallsFill' /\ InstallsMeet'
    BY <1>known, <1>16, <2>1 DEF Shown, At, IsClone, Moved, InstallsFill, Installs,
           OpsApart, ContribTyped, Placed, InstallsMeet
  <2>6. UnseenApart' /\ UpdatesHold'
    BY <1>known, <1>16, <2>1 DEF Shown, At, IsClone, Moved, UnseenApart, Installs,
           OpsApart, TrustedHold, UpdatesHold, Hides
  <2>7. HandInv'
    BY <1>known, <1>16, <2>1 DEF Shown, At, IsClone, Moved, HandInv, ContribTyped,
           Writes
  <2>8. NoHand'
    BY <1>known, <1>16, <2>1 DEF Shown, At, IsClone, Moved, NoHand
  <2>9. RootIsRecorded'
    BY <1>known, <1>16, <2>1 DEF Shown, At, IsClone, Moved, RootIsRecorded, InPlace,
           Writes, Placed, Clean, Processes
  <2>10. RecordIsTrusted'
    BY <1>known, <1>16, <2>1 DEF Shown, At, IsClone, Moved, RecordIsTrusted,
           Dropping, Writes, Clean, Processes
  <2>11. DroppedIsGone'
    BY <1>known, <1>16, <2>1 DEF Shown, At, IsClone, Moved, DroppedIsGone, Clean
  <2>12. LinksHold'
    BY <1>known, <1>16, <2>1 DEF Shown, At, IsClone, Moved, LinksHold, OpsFit,
           Clean, Writes, ContribTyped
  <2>13. OpsFit' /\ OpsSee'
    BY <1>known, <1>16, <2>1 DEF Shown, At, IsClone, Moved, OpsFit, OpsApart, Clean,
           ContribTyped, OpsSee, Late
  <2>14. Validated'
    BY <1>known, <1>16, <2>1 DEF Shown, At, IsClone, Moved, Validated, OpsFit,
           OpsApart, Clean, Writes, Hides, LinkMap, ContribTyped
  <2> QED
    BY <2>3, <2>4, <2>5, <2>6, <2>7, <2>8, <2>9, <2>10, <2>11, <2>12, <2>13, <2>14
<1>17. ASSUME NEW p \in Processes, UpdateValidates(p)
      PROVE ContribInv'
  <2>1. op[p] # None /\ Goes(p, "adopting")
    BY <1>17 DEF UpdateValidates, At
  <2>2. Moved(p, "adopting", op[p].seen, op[p].candidate)
    BY <2>1, GoesMoves DEF Pcs, ContribTyped
  <2>3. ContribTyped'
    BY <1>known, <1>17, <2>1, <2>2, RawsHold DEF UpdateValidates, At, Accepted,
           Valid, Offered, Moved, ContribTyped, OpsTyped, Processes, Kinds
  <2>4. OpsApart' /\ TrustedHold'
    BY <1>known, <1>17, <2>1, <2>2 DEF UpdateValidates, At, Accepted, Valid,
           Offered, Moved, OpsApart, TrustedHold, ContribTyped
  <2>5. InstallsFill'
    BY <1>known, <1>17, <2>1, <2>2 DEF UpdateValidates, At, Accepted, Valid,
           Offered, Moved, InstallsFill, Installs, OpsApart, ContribTyped, Placed
  <2>6. InstallsMeet'
    BY <1>known, <1>17, <2>1, <2>2 DEF UpdateValidates, At, Accepted, Valid,
           Offered, Moved, InstallsMeet, Installs, OpsApart, InstallsFill, Placed
  <2>7. UnseenApart'
    BY <1>known, <1>17, <2>1, <2>2 DEF UpdateValidates, At, Accepted, Valid,
           Offered, Moved, UnseenApart, Installs, OpsApart, TrustedHold
  <2>8. UpdatesHold'
    <3>1. \A q \in Processes : op'[q] # None /\ q # p => op'[q] = op[q] /\ ~op[q].alone
      BY <1>known, <1>17, <2>1, <2>2 DEF Moved, OpsApart
    <3>2. ASSUME op[p].alone
          PROVE  /\ op[p].candidate = fetchHead[op[p].id]
                 /\ \A j \in trusted : j \in op[p].seen \/ j = op[p].id
                 /\ Good(op[p].id, op[p].candidate)
                 /\ \/ Hides(p)
                    \/ \A j \in trusted : j = op[p].id \/ Disjoint(op[p].candidate, root[j])
      <4>1. Valid(op[p].id, op[p].candidate, op[p].seen, view[p])
        BY <1>known, <1>17, <2>1, <2>2 DEF UpdateValidates, Accepted, Offered, At
      <4>2. /\ op[p].candidate = fetchHead[op[p].id]
            /\ \A j \in trusted : j \in op[p].seen \/ j = op[p].id
        BY <1>known, <1>17, <2>1, <2>2, <3>2 DEF UpdatesHold, UpdateValidates, At
      <4>3. ASSUME ~Hides(p), NEW j \in trusted, j # op[p].id
            PROVE  Disjoint(op[p].candidate, root[j])
        <5>1. j \in op[p].seen /\ Parses(root[j])
          BY <4>2, <4>3 DEF TrustedHold, Good
        <5>2. view[p][j] # "link"
          BY <1>known, <1>17, <2>1, <2>2, <4>3, <5>1 DEF Hides, LinkMap
        <5> QED
          BY <1>known, <1>17, <2>1, <2>2, <4>1, <4>3, <5>1, <5>2, SeenAreApart
      <4> QED
        BY <4>1, <4>2, <4>3 DEF Valid, Good
    <3>3. Hides(p) => Hides(p)'
      BY <1>known, <1>17, <2>1, <2>2 DEF Hides, Moved, UpdateValidates
    <3> HIDE DEF Hides
    <3> QED
      BY <1>known, <1>17, <2>1, <2>2, <3>1, <3>2, <3>3 DEF UpdatesHold,
         UpdateValidates, Moved
  <2>9. /\ HandInv' /\ NoHand' /\ RootIsRecorded' /\ RecordIsTrusted' /\ DroppedIsGone'
        /\ LinksHold'
    BY <1>known, <1>17, <2>1, <2>2 DEF UpdateValidates, At, Accepted, Valid,
           Offered, Moved, HandInv, ContribTyped, Writes, NoHand, RootIsRecorded,
           InPlace, Placed, Clean, Processes, RecordIsTrusted, Dropping,
           DroppedIsGone, LinksHold, OpsFit
  <2>10. OpsFit' /\ OpsSee'
    BY <1>known, <1>17, <2>1, <2>2 DEF UpdateValidates, At, Accepted, Valid,
           Offered, Moved, OpsFit, OpsApart, Clean, ContribTyped, OpsSee, Late
  <2>11. Validated'
    <3>1. \A q \in Processes : op'[q] # None /\ q # p => op'[q] = op[q] /\ ~op[q].alone
            /\ (Hides(q) => Hides(q)')
      BY <1>known, <1>17, <2>1, <2>2 DEF Moved, OpsApart, Hides, UpdateValidates
    <3>2. ASSUME Clean, op[p].alone, NEW k \in Ids, disk[k] = "link"
          PROVE  Disjoint(op[p].candidate, source[k])
      <4>1. Valid(op[p].id, op[p].candidate, op[p].seen, view[p])
        BY <1>known, <1>17, <2>1, <2>2 DEF UpdateValidates, Accepted, Offered, At
      <4>2. view[p] = disk /\ disk[op[p].id] = "git"
        BY <1>known, <1>17, <2>1, <2>2, <3>2 DEF OpsFit, UpdateValidates, At
      <4>3. Parses(source[k])
        BY <3>2 DEF LinksHold, Good
      <4> QED
        BY <1>known, <1>17, <2>1, <2>2, <3>2, <4>1, <4>2, <4>3, LinkedAreApart
    <3> HIDE DEF Hides
    <3> QED
      BY <1>known, <1>17, <2>1, <2>2, <3>1, <3>2 DEF Validated, Clean,
         UpdateValidates, Moved, Writes, At
  <2> QED
    BY <2>3, <2>4, <2>5, <2>6, <2>7, <2>8, <2>9, <2>10, <2>11
<1>18. ASSUME NEW p \in Processes, ChecksOut(p)
      PROVE ContribInv'
  <2> HIDE DEF ContribInv
  <2> QED
    BY <1>18, ChecksOutKeeps
<1>19. ASSUME NEW p \in Processes, UpdateRecorded(p)
      PROVE ContribInv'
  <2>1. op[p] # None /\ Ended(p)
    BY <1>19, EndsEnds DEF UpdateRecorded, At, Ends, ContribTyped
  <2>2. "git" \in Kinds /\ Records(p, "git") /\ Saves(p, op[p].id, "git")
    BY <1>19 DEF UpdateRecorded, At, Records, Kinds
  <2>3. UNCHANGED <<root, hand, trusted, source, fetchHead, meddled, littered>>
        /\ (crossed => crossed')
    BY <1>19 DEF UpdateRecorded
  <2> HIDE DEF ContribInv
  <2> QED
    BY <2>1, <2>2, <2>3, SavesKeeps
<1>20. ASSUME NEW p \in Processes, UpdateFails(p)
      PROVE ContribInv'
  <2>1. op[p] # None /\ Ended(p)
    BY <1>20, EndsEnds DEF UpdateFails, At, Ends, ContribTyped
  <2>2. TakesBack(p)
    BY <1>20 DEF TakesBack, UpdateFails, At, Changes, Placed, Writes
  <2>3. UNCHANGED <<hand, source, fetchHead, disk, view, meddled, crossed, stale>>
    BY <1>20 DEF UpdateFails, Changes
  <2>4. littered => littered'
    BY <1>20 DEF UpdateFails
  <2> HIDE DEF ContribInv
  <2> QED
    BY <2>1, <2>2, <2>3, <2>4, EndsKeeps
<1>21. ASSUME NEW p \in Processes, NEW i \in Ids, RemoveBegins(p, i)
      PROVE ContribInv'
  <2>1. Begins(p, "remove", i, "deleting") /\ Fits(p, "remove", i, "deleting")
    BY <1>21 DEF RemoveBegins, Fits
  <2> HIDE DEF ContribInv
  <2> QED
    BY <2>1, BeginsKeeps DEF Pcs
<1>22. ASSUME NEW p \in Processes, Deletes(p)
      PROVE ContribInv'
  <2>1. op[p] # None /\ Goes(p, "dropping")
    BY <1>22 DEF Deletes, At
  <2>2. Moved(p, "dropping", op[p].seen, op[p].candidate)
    BY <2>1, GoesMoves DEF Pcs, ContribTyped
  <2>3. ContribTyped'
    BY <1>known, <1>22, <2>1, <2>2, RawsHold DEF Deletes, At, Changes,
           WroteIntoRoot, Moved, ContribTyped, OpsTyped, Processes, Kinds
  <2>4. OpsApart'
    BY <1>known, <1>22, <2>1, <2>2 DEF Deletes, At, Changes, WroteIntoRoot, Moved,
           OpsApart
  <2>5. TrustedHold'
    BY <1>known, <1>22, <2>1, <2>2 DEF Deletes, At, Changes, WroteIntoRoot, Moved,
           TrustedHold, ContribTyped
  <2>6. InstallsFill' /\ InstallsMeet'
    BY <1>known, <1>22, <2>1, <2>2 DEF Deletes, At, Changes, WroteIntoRoot, Moved,
           InstallsFill, Installs, OpsApart, ContribTyped, Placed, InstallsMeet
  <2>7. UpdatesHold'
    BY <1>known, <1>22, <2>1, <2>2 DEF Deletes, At, Changes, WroteIntoRoot, Moved,
           UpdatesHold, OpsApart, Hides
  <2>8. UnseenApart'
    <3>1. /\ \A j \in Ids : j # op[p].id => root'[j] = root[j]
          /\ trusted' \subseteq trusted /\ \A j \in trusted' : root'[j] = root[j]
      BY <1>known, <1>22, <2>1, <2>2 DEF Deletes, Changes, ContribTyped
    <3>2. \A q \in Processes : Installs(q, {"validating"})' =>
            op'[q] = op[q] /\ Installs(q, {"validating"}) /\ op[q].id # op[p].id
      BY <1>known, <1>22, <2>1, <2>2 DEF Installs, Moved, OpsApart
    <3>3. \A q \in Processes : Installs(q, {"validating"}) =>
              op[q] # None /\ op[q].id \in Ids
      BY <1>known DEF Installs
    <3> QED
      BY <3>1, <3>2, <3>3 DEF UnseenApart
  <2>9. HandInv' /\ NoHand' /\ RecordIsTrusted' /\ LinksHold'
    BY <1>known, <1>22, <2>1, <2>2 DEF Deletes, At, Changes, WroteIntoRoot, Moved,
           HandInv, ContribTyped, Writes, NoHand, RecordIsTrusted, Dropping, Clean,
           Processes, LinksHold, OpsFit
  <2>10. RootIsRecorded'
    <3>1. \A j \in Ids : root'[j] # None => root'[j] = root[j]
      BY <1>known, <1>22, <2>1, <2>2 DEF Deletes, Changes, ContribTyped
    <3>2. \A k \in Ids : InPlace(k) => InPlace(k)'
      BY <1>known, <1>22, <2>1, <2>2 DEF InPlace, Moved, Placed, Deletes, At, Writes
    <3> QED
      BY <1>known, <1>22, <2>1, <2>2, <3>1, <3>2 DEF RootIsRecorded, Clean, Deletes
  <2>11. DroppedIsGone'
    <3>1. ASSUME Clean  PROVE root'[op[p].id] = None
      <4>1. CASE WroteIntoRoot(view[p][op[p].id])
        BY <1>known, <1>22, <2>1, <2>2, <4>1 DEF Deletes, Changes, ContribTyped
      <4>2. CASE ~WroteIntoRoot(view[p][op[p].id])
        <5>1. ~Writes(disk[op[p].id]) /\ UNCHANGED root
          BY <1>known, <1>22, <2>1, <2>2, <3>1, <4>2 DEF Deletes, At, OpsFit,
             WroteIntoRoot, Writes
        <5>2. ~InPlace(op[p].id)
          BY <1>known, <1>22, <2>1, <2>2, <3>1 DEF InPlace, OpsApart, Clean,
             Deletes, At, Writes
        <5> QED
          BY <1>known, <1>22, <2>1, <2>2, <3>1, <5>1, <5>2 DEF RootIsRecorded
      <4> QED
        BY <4>1, <4>2
    <3>2. \A j \in Ids : root[j] = None => root'[j] = None
      BY <1>known, <1>22, <2>1, <2>2 DEF Deletes, Changes, ContribTyped
    <3> QED
      BY <1>known, <1>22, <2>1, <2>2, <3>1, <3>2 DEF DroppedIsGone, Clean, Deletes, Moved
  <2>12. OpsFit'
    BY <1>known, <1>22, <2>1, <2>2 DEF Deletes, At, Changes, WroteIntoRoot, Moved,
           OpsFit, OpsApart, Clean, ContribTyped
  <2>13. OpsSee'
    BY <1>known, <1>22, <2>1, <2>2 DEF Deletes, At, Changes, WroteIntoRoot, Moved,
           OpsSee, OpsFit, OpsApart, Clean, Late, ContribTyped
  <2>14. Validated'
    BY <1>known, <1>22, <2>1, <2>2 DEF Deletes, At, Changes, WroteIntoRoot, Moved,
           Validated, OpsFit, OpsApart, Clean, Writes, Hides, LinkMap, ContribTyped
  <2> QED
    BY <2>3, <2>4, <2>5, <2>6, <2>7, <2>8, <2>9, <2>10, <2>11, <2>12, <2>13, <2>14
<1>23. ASSUME NEW p \in Processes, Dropped(p)
      PROVE ContribInv'
  <2>1. op[p] # None /\ Ended(p)
    BY <1>23, EndsEnds DEF Dropped, At, Ends, ContribTyped
  <2>2. None \in Kinds /\ Records(p, None) /\ Saves(p, op[p].id, None)
    BY <1>23 DEF Dropped, At, Records, Kinds
  <2>3. UNCHANGED <<root, hand, trusted, source, fetchHead, meddled, littered>>
        /\ (crossed => crossed')
    BY <1>23 DEF Dropped
  <2> HIDE DEF ContribInv
  <2> QED
    BY <2>1, <2>2, <2>3, SavesKeeps
<1>24. ASSUME NEW p \in Processes, RemoveFails(p)
      PROVE ContribInv'
  <2>1. op[p] # None /\ Ended(p)
    BY <1>24, EndsEnds DEF RemoveFails, At, Ends, ContribTyped
  <2>2. TakesBack(p)
    BY <1>24 DEF TakesBack, RemoveFails, At, Changes, Placed, Writes
  <2>3. UNCHANGED <<hand, source, fetchHead, disk, view, meddled, crossed, stale>>
    BY <1>24 DEF RemoveFails, Changes
  <2>4. littered => littered'
    BY <1>24 DEF RemoveFails
  <2> HIDE DEF ContribInv
  <2> QED
    BY <2>1, <2>2, <2>3, <2>4, EndsKeeps
<1>25. ASSUME NEW p \in Processes, Dies(p)
      PROVE ContribInv'
  <2>1. Ended(p)
    BY <1>25, EndsEnds DEF Dies, ContribTyped
  <2>3. ContribTyped'
    BY <1>known, <1>25, <2>1, RawsHold DEF Dies, Ended, ContribTyped, OpsTyped,
           Processes, Kinds
  <2>4. OpsApart' /\ TrustedHold'
    BY <1>known, <1>25, <2>1 DEF Dies, Ended, OpsApart, TrustedHold, ContribTyped
  <2>5. InstallsFill' /\ InstallsMeet'
    BY <1>known, <1>25, <2>1 DEF Dies, Ended, InstallsFill, Installs, OpsApart,
           ContribTyped, Placed, InstallsMeet
  <2>6. UnseenApart' /\ UpdatesHold'
    BY <1>known, <1>25, <2>1 DEF Dies, Ended, UnseenApart, Installs, OpsApart,
           TrustedHold, UpdatesHold, Hides
  <2>7. HandInv'
    BY <1>known, <1>25, <2>1 DEF Dies, Ended, HandInv, ContribTyped, Writes
  <2>8. NoHand'
    BY <1>known, <1>25, <2>1 DEF Dies, Ended, NoHand
  <2>9. DroppedIsGone'
    BY <1>known, <1>25, <2>1 DEF Dies, Ended, DroppedIsGone, Clean
  <2>10. LinksHold'
    BY <1>known, <1>25, <2>1 DEF Dies, Ended, LinksHold, OpsFit, Clean, Writes,
           ContribTyped
  <2>11. RootIsRecorded'
    <3>1. Clean' => /\ Clean /\ op[p] = None
                    /\ \A q \in Processes : op'[q] = op[q]
                    /\ \A q \in Processes : op[q] # None => q # p /\ view'[q] = view[q]
      BY <1>known, <1>25, <2>1 DEF Dies, Ended, Clean, ContribTyped
    <3>2. Clean' => \A k \in Ids : InPlace(k) => InPlace(k)'
      BY <3>1 DEF InPlace
    <3> HIDE DEF InPlace
    <3> QED
      BY <1>known, <1>25, <2>1, <3>1, <3>2 DEF RootIsRecorded, Dies
  <2>12. RecordIsTrusted'
    <3>1. Clean' => /\ Clean /\ op[p] = None
                    /\ \A q \in Processes : op'[q] = op[q]
                    /\ \A q \in Processes : op[q] # None => q # p /\ view'[q] = view[q]
      BY <1>known, <1>25, <2>1 DEF Dies, Ended, Clean, ContribTyped
    <3>2. Clean' => \A k \in Ids : Dropping(k) => Dropping(k)'
      BY <3>1 DEF Dropping
    <3> HIDE DEF Dropping
    <3> QED
      BY <1>known, <1>25, <2>1, <3>1, <3>2 DEF RecordIsTrusted, Dies
  <2>13. OpsFit'
    BY <1>known, <1>25, <2>1 DEF Dies, Ended, OpsFit, OpsApart, Clean, ContribTyped
  <2>14. OpsSee'
    <3>1. Clean' => /\ Clean /\ op[p] = None
                    /\ \A q \in Processes : op'[q] = op[q]
                    /\ \A q \in Processes : op[q] # None => q # p /\ view'[q] = view[q]
      BY <1>known, <1>25, <2>1 DEF Dies, Ended, Clean, ContribTyped
    <3> QED
      BY <1>known, <1>25, <2>1, <3>1 DEF OpsSee, Dies
  <2>15. Validated'
    <3>1. Clean' => /\ Clean /\ op[p] = None
                    /\ \A q \in Processes : op'[q] = op[q]
                    /\ \A q \in Processes : op[q] # None => q # p /\ view'[q] = view[q]
      BY <1>known, <1>25, <2>1 DEF Dies, Ended, Clean, ContribTyped
    <3>2. Clean' => \A q \in Processes : op[q] # None => (Hides(q) => Hides(q)')
      BY <3>1 DEF Hides
    <3> HIDE DEF Hides
    <3> QED
      BY <1>known, <1>25, <2>1, <3>1, <3>2 DEF Validated, Dies
  <2> QED
    BY <2>3, <2>4, <2>5, <2>6, <2>7, <2>8, <2>9, <2>10, <2>11, <2>12, <2>13, <2>14,
       <2>15
<1>26. ASSUME GuiSaves
      PROVE ContribInv'
  <2>3. ContribTyped'
    BY <1>known, <1>26, RawsHold DEF GuiSaves, ContribTyped, OpsTyped, Processes,
           Kinds
  <2>4. OpsApart' /\ TrustedHold'
    BY <1>known, <1>26 DEF GuiSaves, OpsApart, TrustedHold, ContribTyped
  <2>5. InstallsFill' /\ InstallsMeet'
    BY <1>known, <1>26 DEF GuiSaves, InstallsFill, Installs, OpsApart, ContribTyped,
           Placed, InstallsMeet
  <2>6. UnseenApart' /\ UpdatesHold'
    BY <1>known, <1>26 DEF GuiSaves, UnseenApart, Installs, OpsApart, TrustedHold,
           UpdatesHold, Hides
  <2>7. /\ HandInv' /\ NoHand' /\ RootIsRecorded' /\ RecordIsTrusted' /\ DroppedIsGone'
        /\ LinksHold'
    BY <1>known, <1>26 DEF GuiSaves, HandInv, ContribTyped, Writes, NoHand,
           RootIsRecorded, InPlace, Placed, Clean, Processes, RecordIsTrusted,
           Dropping, DroppedIsGone, LinksHold, OpsFit
  <2>8. OpsFit' /\ OpsSee'
    BY <1>known, <1>26 DEF GuiSaves, OpsFit, OpsApart, Clean, ContribTyped, OpsSee,
           Late
  <2>9. Validated'
    BY <1>known, <1>26 DEF GuiSaves, Validated, OpsFit, OpsApart, Clean, Writes,
           Hides, LinkMap, ContribTyped
  <2> QED
    BY <2>3, <2>4, <2>5, <2>6, <2>7, <2>8, <2>9
<1>27. ASSUME NEW i \in Ids, NEW raw \in Manifests(i) \cup {None}, SourceMoves(i, raw)
      PROVE ContribInv'
  <2>3. ContribTyped'
    BY <1>known, <1>27, RawsHold DEF SourceMoves, Linking, ContribTyped, OpsTyped,
           Processes, Kinds
  <2>4. OpsApart' /\ TrustedHold'
    BY <1>known, <1>27 DEF SourceMoves, Linking, OpsApart, TrustedHold, ContribTyped
  <2>5. InstallsFill' /\ InstallsMeet'
    BY <1>known, <1>27 DEF SourceMoves, Linking, InstallsFill, Installs, OpsApart,
           ContribTyped, Placed, InstallsMeet
  <2>6. UnseenApart' /\ UpdatesHold'
    BY <1>known, <1>27 DEF SourceMoves, Linking, UnseenApart, Installs, OpsApart,
           TrustedHold, UpdatesHold, Hides
  <2>7. HandInv'
    BY <1>known, <1>27 DEF SourceMoves, Linking, HandInv, ContribTyped, Writes
  <2>8. NoHand'
    BY <1>known, <1>27 DEF SourceMoves, Linking, NoHand
  <2>9. RecordIsTrusted'
    BY <1>known, <1>27 DEF SourceMoves, Linking, RecordIsTrusted, Dropping, Writes,
           Clean, Processes
  <2>10. DroppedIsGone'
    BY <1>known, <1>27 DEF SourceMoves, Linking, DroppedIsGone, Clean
  <2>11. LinksHold'
    BY <1>known, <1>27 DEF SourceMoves, Linking, LinksHold, OpsFit, Clean, Writes,
           ContribTyped
  <2>12. RootIsRecorded'
    <3>1. \A k \in Ids : InPlace(k) => InPlace(k)'
      BY <1>27 DEF InPlace, SourceMoves
    <3> HIDE DEF InPlace
    <3> QED
      BY <1>27, <3>1 DEF RootIsRecorded, Clean, SourceMoves
  <2>13. OpsFit' /\ OpsSee'
    BY <1>known, <1>27 DEF SourceMoves, Linking, OpsFit, OpsApart, Clean,
           ContribTyped, OpsSee, Late
  <2>14. Validated'
    <3>1. Clean' => /\ Clean /\ disk[i] # "link"
                    /\ \A q \in Processes : view[q][i] # "link"
                    /\ \A q \in Processes : op[q] # None /\ op[q].kind = "link" =>
                           op[q].id # i
      BY <1>27 DEF SourceMoves, Linking, Clean
    <3>2. /\ \A k \in Ids : k # i => source'[k] = source[k]
          /\ UNCHANGED <<root, trusted, disk, view, op>>
          /\ \A q \in Processes : op[q] # None => (Hides(q) => Hides(q)')
      BY <1>27 DEF SourceMoves, ContribTyped, Hides, LinkMap
    <3> HIDE DEF Hides
    <3> QED
      BY <1>known, <3>1, <3>2 DEF Validated
  <2> QED
    BY <2>3, <2>4, <2>5, <2>6, <2>7, <2>8, <2>9, <2>10, <2>11, <2>12, <2>13, <2>14
<1>28. ASSUME NEW i \in Ids, NEW raw \in {Claiming(i), Garbled}, Places(i, raw)
      PROVE ContribInv'
  <2>3. ContribTyped'
    BY <1>known, <1>28, RawsHold DEF Places, Busy, ContribTyped, OpsTyped,
           Processes, Kinds
  <2>4. OpsApart'
    BY <1>known, <1>28 DEF Places, Busy, OpsApart
  <2>5. TrustedHold'
    <3>1. root[i] = None /\ i \notin trusted /\ \A k \in Ids : k # i => root'[k] = root[k]
      BY <1>known, <1>28 DEF Places, TrustedHold, Good, Parses, ContribTyped
    <3>2. UNCHANGED <<trusted, source, fetchHead, disk, view, op>>
      BY <1>known, <1>28 DEF Places
    <3>3. \A q \in Processes : op[q] # None => op[q].id # i
      BY <1>known, <1>28 DEF Places, Busy
    <3> QED
      BY <3>1, <3>2 DEF TrustedHold, ContribTyped
  <2>6. InstallsFill' /\ InstallsMeet'
    BY <1>known, <1>28 DEF Places, Busy, InstallsFill, Installs, OpsApart,
           ContribTyped, Placed, InstallsMeet
  <2>7. UnseenApart'
    <3>1. root[i] = None /\ i \notin trusted /\ \A k \in Ids : k # i => root'[k] = root[k]
      BY <1>known, <1>28 DEF Places, TrustedHold, Good, Parses, ContribTyped
    <3>2. UNCHANGED <<trusted, source, fetchHead, disk, view, op>>
      BY <1>known, <1>28 DEF Places
    <3>3. \A q \in Processes : op[q] # None => op[q].id # i
      BY <1>known, <1>28 DEF Places, Busy
    <3>4. trusted \subseteq Ids
      BY DEF ContribTyped
    <3> QED
      BY <1>known, <3>1, <3>2, <3>3, <3>4 DEF UnseenApart, Installs
  <2>8. UpdatesHold'
    <3>1. root[i] = None /\ i \notin trusted /\ \A k \in Ids : k # i => root'[k] = root[k]
      BY <1>known, <1>28 DEF Places, TrustedHold, Good, Parses, ContribTyped
    <3>2. UNCHANGED <<trusted, source, fetchHead, disk, view, op>>
      BY <1>known, <1>28 DEF Places
    <3>3. \A q \in Processes : op[q] # None => op[q].id # i
      BY <1>known, <1>28 DEF Places, Busy
    <3>4. trusted \subseteq Ids /\ \A q \in Processes : op[q] # None => (Hides(q) =>
              Hides(q)')
      BY <3>2 DEF ContribTyped, Hides
    <3> HIDE DEF Hides
    <3> QED
      BY <1>known, <3>1, <3>2, <3>3, <3>4 DEF UpdatesHold
  <2>9. NoHand' /\ RootIsRecorded' /\ RecordIsTrusted' /\ DroppedIsGone' /\ LinksHold'
    BY <1>known, <1>28 DEF Places, Busy, NoHand, RootIsRecorded, InPlace, Writes,
           Placed, Clean, Processes, RecordIsTrusted, Dropping, DroppedIsGone,
           LinksHold, OpsFit, ContribTyped
  <2>10. HandInv'
    <3>1. root[i] = None /\ i \notin trusted /\ \A k \in Ids : k # i => root'[k] = root[k]
      BY <1>known, <1>28 DEF Places, TrustedHold, Good, Parses, ContribTyped
    <3>2. UNCHANGED <<trusted, source, fetchHead, disk, view, op>>
      BY <1>known, <1>28 DEF Places
    <3>3. \A q \in Processes : op[q] # None => op[q].id # i
      BY <1>known, <1>28 DEF Places, Busy
    <3>4. /\ ~Writes(disk[i]) /\ hand'[i] = root'[i] /\ (~stale' => ~stale)
          /\ \A k \in Ids : k # i => hand'[k] = hand[k]
      BY <1>known, <1>28 DEF Places, ContribTyped, Writes, ContributionsAssumption
    <3> QED
      BY <1>known, <3>1, <3>2, <3>3, <3>4 DEF HandInv
  <2>11. OpsFit' /\ OpsSee'
    BY <1>known, <1>28 DEF Places, Busy, OpsFit, OpsApart, Clean, ContribTyped,
           OpsSee, Late
  <2>12. Validated'
    BY <1>known, <1>28 DEF Places, Busy, Validated, OpsFit, OpsApart, Clean, Writes,
           Hides, LinkMap, ContribTyped
  <2> QED
    BY <2>3, <2>4, <2>5, <2>6, <2>7, <2>8, <2>9, <2>10, <2>11, <2>12
<1>29. ASSUME NEW i \in Ids, TakesAway(i)
      PROVE ContribInv'
  <2>3. ContribTyped'
    BY <1>known, <1>29, RawsHold DEF TakesAway, Busy, ContribTyped, OpsTyped,
           Processes, Kinds
  <2>4. OpsApart' /\ TrustedHold'
    BY <1>known, <1>29 DEF TakesAway, Busy, OpsApart, TrustedHold, ContribTyped
  <2>5. InstallsFill' /\ InstallsMeet'
    BY <1>known, <1>29 DEF TakesAway, Busy, InstallsFill, Installs, OpsApart,
           ContribTyped, Placed, InstallsMeet
  <2>6. UnseenApart' /\ UpdatesHold'
    BY <1>known, <1>29 DEF TakesAway, Busy, UnseenApart, Installs, OpsApart,
           TrustedHold, UpdatesHold, Hides
  <2>7. HandInv' /\ NoHand' /\ RootIsRecorded' /\ DroppedIsGone' /\ LinksHold'
    BY <1>known, <1>29 DEF TakesAway, Busy, HandInv, ContribTyped, Writes, NoHand,
           RootIsRecorded, InPlace, Placed, Clean, Processes, DroppedIsGone,
           LinksHold, OpsFit
  <2>8. RecordIsTrusted'
    <3>1. Clean => ~Writes(disk[i])
      BY <1>known, <1>29 DEF TakesAway, HandInv, Clean
    <3>2. \A k \in Ids : Dropping(k) => Dropping(k)'
      BY <1>known, <1>29 DEF Dropping, TakesAway
    <3> HIDE DEF Dropping
    <3> QED
      BY <1>known, <1>29, <3>1, <3>2 DEF RecordIsTrusted, Clean, TakesAway
  <2>9. OpsFit' /\ OpsSee'
    BY <1>known, <1>29 DEF TakesAway, Busy, OpsFit, OpsApart, Clean, ContribTyped,
           OpsSee, Late
  <2>10. Validated'
    BY <1>known, <1>29 DEF TakesAway, Busy, Validated, OpsFit, OpsApart, Clean,
           Writes, Hides, LinkMap, ContribTyped
  <2> QED
    BY <2>3, <2>4, <2>5, <2>6, <2>7, <2>8, <2>9, <2>10
<1>30. CASE UNCHANGED contributionVars
  BY <1>30 DEF contributionVars, Clean, ContribTyped, DroppedIsGone, Dropping,
         HandInv, Hides, InPlace, Installs, InstallsFill, InstallsMeet, Kinds, Late,
         LinkMap, LinksHold, NoHand, OpsApart, OpsFit, OpsSee, OpsTyped, Placed,
         Processes, RecordIsTrusted, RootIsRecorded, TrustedHold, UnseenApart,
         UpdatesHold, Validated, Writes
<1> QED
  BY <1>1, <1>2, <1>3, <1>4, <1>5, <1>6, <1>7, <1>8, <1>9, <1>10, <1>11, <1>12,
     <1>13, <1>14, <1>15, <1>16, <1>17, <1>18, <1>19, <1>20, <1>21, <1>22, <1>23,
     <1>24, <1>25, <1>26, <1>27, <1>28, <1>29, <1>30
  DEF ContributionsNext

-----------------------------------------------------------------------------
(* The theorems.                                                             *)

(* The invariant holds at the start, where nothing is placed and nothing runs. *)
LEMMA ContribInvInit ==
  ASSUME ContributionsAssumption, ContributionsInit
  PROVE  ContribInv
<1>1. \A i \in Ids : source[i] \in {Claiming(i), Plain(i)}
  BY DEF ContributionsInit
<1>2. \A i \in Ids : {Claiming(i), Plain(i)} \subseteq Manifests(i)
  BY DEF Manifests
<1>3. \A i \in Ids : source[i] \in Raws /\ source[i] # None
  BY <1>1, <1>2 DEF Raws, ContributionsAssumption
<1>4. source = [i \in Ids |-> source[i]]
  BY DEF ContributionsInit
<1>5. source \in [Ids -> Raws]
  BY <1>3, <1>4
<1>6. \A p \in Processes : op[p] = None
  BY DEF ContributionsInit
<1>7. \A i \in Ids : root[i] = None /\ hand[i] = None /\ disk[i] = None
  BY DEF ContributionsInit
<1>8. trusted = {} /\ ~Writes(None) /\ None # "link"
  BY DEF ContributionsInit, ContributionsAssumption, Writes
<1>9. ContribTyped
  BY <1>3, <1>5, <1>6 DEF ContribTyped, OpsTyped, ContributionsInit, Raws, Kinds
<1>10. /\ OpsApart /\ TrustedHold /\ InstallsFill /\ InstallsMeet /\ UnseenApart
       /\ UpdatesHold
  BY <1>6, <1>8
     DEF OpsApart, TrustedHold, InstallsFill, InstallsMeet, UnseenApart, UpdatesHold,
         Installs
<1>11. HandInv /\ NoHand /\ RootIsRecorded /\ RecordIsTrusted /\ LinksHold
  BY <1>6, <1>7, <1>8 DEF HandInv, NoHand, RootIsRecorded, RecordIsTrusted, LinksHold
<1>12. OpsFit /\ OpsSee /\ Validated /\ DroppedIsGone
  BY <1>6 DEF OpsFit, OpsSee, Validated, DroppedIsGone
<1> QED
  BY <1>9, <1>10, <1>11, <1>12 DEF ContribInv

(* Between operations that had each extension to themselves, whatever is listed is in *)
(* order, and no two list the same contribution.                             *)
LEMMA ListedAreGood ==
  ASSUME ContributionsAssumption, ContribInv, Clean, \A p \in Processes : op[p] = None
  PROVE  /\ \A i \in Ids : root[i] # None <=> Writes(disk[i])
         /\ \A i \in Names \cup LinkMap(disk) : i \in Ids /\ Good(i, Raw(i, disk))
         /\ \A i, j \in Names \cup LinkMap(disk) :
              i # j => Disjoint(Raw(i, disk), Raw(j, disk))
<1>1. \A i \in Ids : ~InPlace(i) /\ ~Dropping(i)
  BY DEF InPlace, Dropping
<1>2. \A i \in Ids : root[i] # None => Writes(disk[i])
  BY <1>1 DEF ContribInv, RootIsRecorded
<1>3. \A i \in Ids : Writes(disk[i]) => i \in trusted
  BY <1>1 DEF ContribInv, RecordIsTrusted
<1>4. \A i \in Ids : Writes(disk[i]) => root[i] # None /\ Good(i, root[i])
  BY <1>3 DEF ContribInv, TrustedHold, Good, Parses
<1>5. \A i \in LinkMap(disk) : i \in Ids /\ disk[i] = "link" /\ Raw(i, disk) = source[i]
  BY DEF LinkMap, Raw
<1>6. \A i \in Names \ LinkMap(disk) :
        i \in Ids /\ Raw(i, disk) = root[i] /\ i \in trusted /\ Writes(disk[i])
  BY <1>2, <1>3 DEF Raw, Names
<1>7. \A i \in Names \cup LinkMap(disk) : i \in Ids /\ Good(i, Raw(i, disk))
  BY <1>4, <1>5, <1>6 DEF ContribInv, LinksHold
<1>8. \A i, j \in Names \cup LinkMap(disk) : i # j => Disjoint(Raw(i, disk), Raw(j, disk))
  <2> SUFFICES ASSUME NEW i \in Names \cup LinkMap(disk),
                      NEW j \in Names \cup LinkMap(disk), i # j
               PROVE  Disjoint(Raw(i, disk), Raw(j, disk))
    OBVIOUS
  <2>1. CASE i \in LinkMap(disk) /\ j \in LinkMap(disk)
    BY <1>5, <2>1 DEF ContribInv, LinksHold
  <2>2. CASE i \in LinkMap(disk) /\ j \notin LinkMap(disk)
    BY <1>5, <1>6, <2>2 DEF ContribInv, LinksHold
  <2>3. CASE i \notin LinkMap(disk) /\ j \in LinkMap(disk)
    <3>1. Disjoint(Raw(j, disk), Raw(i, disk))
      BY <1>5, <1>6, <2>3 DEF ContribInv, LinksHold
    <3> QED
      BY <3>1 DEF Disjoint
  <2>4. CASE i \notin LinkMap(disk) /\ j \notin LinkMap(disk)
    BY <1>6, <2>4 DEF ContribInv, TrustedHold
  <2> QED
    BY <2>1, <2>2, <2>3, <2>4
<1> QED
  BY <1>2, <1>4, <1>7, <1>8

(* The registry is in order whenever its property asks it to be.             *)
LEMMA RegistryInOrder ==
  ASSUME ContributionsAssumption, ContribInv
  PROVE  RegistryServes
<1> SUFFICES ASSUME \A p \in Processes : op[p] = None, Clean
             PROVE  /\ RegistryLists(disk)
                    /\ \A i \in Ids : disk[i] # None => Rows(disk)[i] = "readable"
                    /\ \A i \in Ids : root[i] # None => disk[i] \in {"git", "copy"}
  BY DEF RegistryServes, Clean
<1>1. /\ \A i \in Ids : root[i] # None <=> Writes(disk[i])
      /\ \A i \in Names \cup LinkMap(disk) : i \in Ids /\ Good(i, Raw(i, disk))
      /\ \A i, j \in Names \cup LinkMap(disk) :
           i # j => Disjoint(Raw(i, disk), Raw(j, disk))
  BY ListedAreGood
<1>2. \A i \in Names \cup LinkMap(disk) : Raw(i, disk) \notin {None, Empty, Garbled}
  BY <1>1 DEF Good, Parses, Empty, Garbled, Manifest
<1>3. Entries(Names, disk) = Names \cup LinkMap(disk)
  BY <1>2 DEF Entries
<1>4. RegistryLists(disk)
  BY <1>1, <1>2, <1>3 DEF RegistryLists, Listable, Good, Disjoint
<1>5. ASSUME NEW i \in Ids, disk[i] # None  PROVE Rows(disk)[i] = "readable"
  <2>1. i \in Names \cup LinkMap(disk)
    BY <1>1, <1>5 DEF ContribInv, ContribTyped, Kinds, Names, LinkMap, Writes
  <2> QED
    BY <1>3, <1>5, <2>1 DEF Rows
<1> QED
  BY <1>1, <1>4, <1>5 DEF Writes

(* What the invariant was built for.                                         *)
LEMMA ContribInvSound ==
  ASSUME ContributionsAssumption, ContribInv
  PROVE  ContributionsAreSound
<1>1. NoSharedContribution
  BY DEF ContribInv, TrustedHold, Good, Disjoint, NoSharedContribution
<1>2. HandPlacedStays
  BY DEF ContribInv, HandInv, HandPlacedStays
<1> QED
  BY <1>1, <1>2, RegistryInOrder DEF ContributionsAreSound

(* However the operations of the two processes interleave, every reachable state of the *)
(* plugin root satisfies the invariant.                                      *)
THEOREM ContributionsAreAccountedFor ==
  ASSUME ContributionsAssumption
  PROVE  ContributionsSpec => []ContribInv
<1>1. ContributionsInit => ContribInv
  BY ContribInvInit
<1>2. ContribInv /\ [ContributionsNext]_contributionVars => ContribInv'
  BY ContribInvInductive
<1> QED
  BY <1>1, <1>2, PTL DEF ContributionsSpec

(* Two installs never both get through with one contribution id, a directory the user *)
(* placed stays as it is, and the registry lists between operations: installer.ts, for *)
(* any extensions, installs, edits and failures.                             *)
THEOREM ContributionsKeepSound ==
  ASSUME ContributionsAssumption
  PROVE  ContributionsSpec => []ContributionsAreSound
<1>1. ContribInv => ContributionsAreSound
  BY ContribInvSound
<1> QED
  BY <1>1, ContributionsAreAccountedFor, PTL
=============================================================================

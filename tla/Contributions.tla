---------------------------- MODULE Contributions ----------------------------
(***************************************************************************)
(* What extensions contribute and where their files lie: the application and a  *)
(* `spectrum plugin` command install, update and remove them at the same time,    *)
(* each from its own view of the configuration, under one plugin root that the     *)
(* user can also fill by hand (extensions: installer, plan, file source, git,       *)
(* manifest, registry; cli: plugin-command.ts).                                *)
(*                                                                         *)
(* An extension has one source, a repository or a folder of the user's, and a     *)
(* manifest that may claim the one contribution id there is.                    *)
(***************************************************************************)
EXTENDS Naturals, Sequences, FiniteSets

CONSTANTS
  None,
  Ids,              (* extension ids                                          *)
  Git,              (* those whose source is a repository                       *)
  MaxInstalls,      (* bound: installs, updates and removals                    *)
  MaxPlaced,        (* bound: changes the user, or upstream, makes               *)
  MaxFailures       (* bound: deletions and saves that fail, processes that die    *)

VARIABLES
  root,             (* id -> the manifest in the directory of that name under the   *)
                    (* plugin root, or Empty; None when there is no directory       *)
  source,           (* id -> the manifest upstream, or in the folder; or None       *)
  fetchHead,        (* id -> the manifest in the clone's FETCH_HEAD, or None         *)
  disk,             (* id -> the kind of source it is recorded with, or None         *)
  view,             (* process -> its configuration, as last loaded or saved         *)
  op,               (* process -> the operation under way, or None               *)
  hand,             (* id -> the manifest of the directory the user placed, or None  *)
  trusted,          (* history: directories whose content is as it was validated, by an *)
                    (* install that had its extension to itself                   *)
  meddled,          (* history: the user changed what is installed                *)
  crossed,          (* history: a link or an update overlapped another operation, or    *)
                    (* two operations on one extension did                       *)
  stale,            (* history: a process acted on a configuration since changed     *)
  littered,         (* history: a process died, a deletion or a save failed           *)
  ops, edits, faults

Processes == {"gui", "cli"}
tree == <<root, hand, trusted>>
marks == <<meddled, crossed, stale, littered>>
contributionVars == <<tree, source, fetchHead, disk, view, op, marks, ops, edits, faults>>

-----------------------------------------------------------------------------
(* Manifests.                                                                *)

Manifest(i, api, providers, tokens) ==
  [id |-> i, api |-> api, providers |-> providers, tokens |-> tokens]
Claiming(i) == Manifest(i, "known", <<"acme">>, {"port"})
Plain(i) == Manifest(i, "known", << >>, {})
Doubled(i) == Manifest(i, "known", <<"acme", "acme">>, {})
NewerApi(i) == Manifest(i, "newer", << >>, {})
Mistaken(i) == Manifest(i, "known", <<"acme">>, {"port", "unheard"})
Foreign(i) == Claiming(CHOOSE j \in Ids : j # i)
Manifests(i) == {Claiming(i), Plain(i), Doubled(i), NewerApi(i), Mistaken(i), Foreign(i)}

(* A directory without manifest, and one with a file of that name that is no JSON.       *)
Empty == Manifest(None, "empty", << >>, {})
Garbled == Manifest(None, "garbled", << >>, {})

Claims(raw) == {raw.providers[n] : n \in DOMAIN raw.providers}

(* parseManifest: the version first, then the shape, where no id is claimed twice.    *)
Parses(raw) ==
  /\ raw # None
  /\ raw.api = "known"
  /\ Cardinality(Claims(raw)) = Len(raw.providers)
RuntimeTokens == {"port", "host", "baseUrl", "hostToken"}
TemplatesHold(raw) == raw.tokens \subseteq RuntimeTokens

-----------------------------------------------------------------------------
(* The file source: a directory of the root is an extension, unless the            *)
(* configuration links that id to a folder; what has no manifest is passed over.     *)

LinkMap(config) == {i \in Ids : config[i] = "link"}
Raw(i, config) == IF i \in LinkMap(config) THEN source[i] ELSE root[i]
Listable(names, config) ==
  \A i \in names \cup LinkMap(config) : Raw(i, config) # Garbled
Entries(names, config) ==
  {i \in names \cup LinkMap(config) : Raw(i, config) \notin {None, Empty}}
Names == {i \in Ids : root[i] # None}

(* The registry: anything amiss in one of them fails the whole list.                 *)
RegistryLists(config) ==
  LET listed == Entries(Names, config) IN
  /\ Listable(Names, config)
  /\ \A i \in listed :
       /\ Parses(Raw(i, config))
       /\ Raw(i, config).id = i
       /\ TemplatesHold(Raw(i, config))
  /\ \A i, j \in listed : i # j => Claims(Raw(i, config)) \cap Claims(Raw(j, config)) = {}

(* `plugin list`: a row for what the registry lists, one that says the source is       *)
(* unreadable for a record it does not.                                       *)
Rows(config) ==
  [i \in {j \in Ids : config[j] # None} \cup Entries(Names, config) |->
     IF i \in Entries(Names, config) THEN "readable" ELSE "unreadable"]

RecordedClaims(names, config, except) ==         \* mutant: asks the records only
  UNION {Claims(Raw(i, config)) : i \in {j \in Entries(names, config) \ {except} :
            config[j] # None /\ Parses(Raw(j, config))}}
(* collectClaimedContributionIds: a broken neighbour claims nothing.                 *)
Claimed(names, config, except) ==
  UNION {Claims(Raw(i, config)) : i \in {j \in Entries(names, config) \ {except} :
            Parses(Raw(j, config))}}

ShapeOnly(i, raw, names, config) == Parses(raw) /\ raw.id = i    \* mutant: ids not compared
(* validateManifest.                                                        *)
Valid(i, raw, names, config) ==
  /\ Parses(raw)
  /\ raw.id = i
  /\ TemplatesHold(raw)
  /\ Listable(names, config)
  /\ Claims(raw) \cap Claimed(names, config, i) = {}

-----------------------------------------------------------------------------
(* planInstall: the forms a source is given in, and what it is taken for.             *)

GitForms == {"https", "ssh", "scp"}
RefusedForms == {"parent segment", "password", "relative"}
SourceForms == GitForms \cup RefusedForms \cup {"absolute", "inside root"}
PlanOf(form, linked) ==
  CASE form \in GitForms -> "git"
    [] form = "absolute" -> IF linked THEN "link" ELSE "copy"
    [] form = "inside root" /\ ~linked -> "copy"
    [] OTHER -> "refused"

-----------------------------------------------------------------------------
ContributionsInit ==
  /\ root = [i \in Ids |-> None] /\ hand = [i \in Ids |-> None] /\ trusted = {}
  /\ source \in {s \in [Ids -> UNION {Manifests(i) : i \in Ids}] :
                   \A i \in Ids : s[i] \in {Claiming(i), Plain(i)}}
  /\ fetchHead = [i \in Ids |-> None]
  /\ disk = [i \in Ids |-> None] /\ view = [p \in Processes |-> disk]
  /\ op = [p \in Processes |-> None]
  /\ meddled = FALSE /\ crossed = FALSE /\ stale = FALSE /\ littered = FALSE
  /\ ops = 0 /\ edits = 0 /\ faults = 0

Busy(i) == \E p \in Processes : op[p] # None /\ op[p].id = i
At(p, kinds, pc) == op[p] # None /\ op[p].kind \in kinds /\ op[p].pc = pc
Goes(p, pc) == op' = [op EXCEPT ![p].pc = pc]
Ends(p) == op' = [op EXCEPT ![p] = None]
Changes(i, raw) == root' = [root EXCEPT ![i] = raw] /\ trusted' = trusted \ {i}
Fault == faults < MaxFailures /\ faults' = faults + 1

(* A command is a process of its own and reads the file; the application has its       *)
(* configuration cached.                                                     *)
Loaded(p) == IF p = "cli" THEN disk ELSE view[p]
Begins(p, kind, i, pc) ==
  /\ op[p] = None /\ ops < MaxInstalls
  /\ ops' = ops + 1
  /\ view' = [view EXCEPT ![p] = Loaded(p)]
  /\ stale' = (stale \/ Loaded(p) # disk)
  /\ crossed' = (crossed \/ Busy(i))
  /\ LET alone == \A q \in Processes : op[q] = None
         begun == [kind |-> kind, id |-> i, pc |-> pc, seen |-> {}, candidate |-> None,
                   alone |-> alone, sole |-> ~Busy(i)]
     IN op' = [q \in Processes |-> IF q = p THEN begun
                                   ELSE IF op[q] = None THEN None
                                   ELSE [op[q] EXCEPT !.alone = FALSE,
                                                      !.sole = @ /\ op[q].id # i]]
  /\ UNCHANGED <<tree, source, fetchHead, disk, meddled, littered, edits, faults>>

InstallBegins(p, i, form, linked) ==
  /\ PlanOf(form, linked) \in (IF i \in Git THEN {"git"} ELSE {"copy", "link"})
  /\ Loaded(p)[i] = None
  /\ Begins(p, PlanOf(form, linked), i, "placing")

(* git clone makes the directory, then fills it; what it cannot finish it removes.      *)
CloneBegins(p) ==
  /\ At(p, {"git"}, "placing") /\ root[op[p].id] = None
  /\ Changes(op[p].id, Empty)
  /\ Goes(p, "cloning")
  /\ UNCHANGED <<hand, source, fetchHead, disk, view, marks, ops, edits, faults>>
Cloned(p) ==
  /\ At(p, {"git"}, "cloning")
  /\ Changes(op[p].id, source[op[p].id])
  /\ Goes(p, "listing")
  /\ UNCHANGED <<hand, source, fetchHead, disk, view, marks, ops, edits, faults>>
CloneFails(p) ==
  /\ \/ At(p, {"git"}, "placing") /\ UNCHANGED <<root, trusted>>
     \/ At(p, {"git"}, "cloning") /\ Changes(op[p].id, None)
  /\ Ends(p)
  /\ UNCHANGED <<hand, source, fetchHead, disk, view, marks, ops, edits, faults>>

AnyDestination(i) == TRUE                        \* mutant: copies over what is there
(* The destination must be free: a directory without record may be the user's.         *)
Free(i) == root[i] = None
CopyBegins(p) ==
  /\ At(p, {"copy"}, "placing")
  /\ IF source[op[p].id] # None /\ Free(op[p].id) THEN Goes(p, "copying") ELSE Ends(p)
  /\ UNCHANGED <<tree, source, fetchHead, disk, view, marks, ops, edits, faults>>
Copied(p) ==
  /\ At(p, {"copy"}, "copying") /\ source[op[p].id] # None
  /\ Changes(op[p].id, source[op[p].id])
  /\ Goes(p, "listing")
  /\ UNCHANGED <<hand, source, fetchHead, disk, view, marks, ops, edits, faults>>
CopyFails(p) ==
  /\ At(p, {"copy"}, "copying")
  /\ Changes(op[p].id, None)
  /\ Ends(p)
  /\ UNCHANGED <<hand, source, fetchHead, disk, view, marks, ops, edits, faults>>
Links(p) ==
  /\ At(p, {"link"}, "placing")
  /\ IF source[op[p].id] # None THEN Goes(p, "listing") ELSE Ends(p)
  /\ UNCHANGED <<tree, source, fetchHead, disk, view, marks, ops, edits, faults>>

-----------------------------------------------------------------------------
(* Validation: the names under the root are read, then one manifest after another.      *)

Lists(p) ==
  /\ op[p] # None /\ op[p].pc = "listing"
  /\ op' = [op EXCEPT ![p].seen = Names, ![p].pc = "validating"]
  /\ UNCHANGED <<tree, source, fetchHead, disk, view, marks, ops, edits, faults>>

Offered(p) == CASE op[p].kind = "link" -> source[op[p].id]
                [] op[p].kind = "update" -> op[p].candidate
                [] OTHER -> root[op[p].id]
Accepted(p) == Valid(op[p].id, Offered(p), op[p].seen, view[p])

(* A link of the same name hides a directory of the root.                           *)
Hides(p) == op[p].seen \cap LinkMap(view[p]) # {}

(* While the other process worked on the same extension, the directory may be its.       *)
InstallValidates(p) ==
  /\ At(p, {"git", "copy", "link"}, "validating") /\ Accepted(p)
  /\ trusted' = IF op[p].kind # "link" /\ op[p].sole /\ ~Hides(p)
                THEN trusted \cup {op[p].id} ELSE trusted
  /\ Goes(p, "recording")
  /\ UNCHANGED <<root, hand, source, fetchHead, disk, view, marks, ops, edits, faults>>

LeavesFiles(i, kind) == UNCHANGED <<root, trusted>>        \* mutant: nothing is cleaned up
(* cleanupAfterFailure: what was written is removed, a linked folder is not touched.     *)
CleansUp(i, kind) ==
  IF kind = "link" THEN UNCHANGED <<root, trusted>> ELSE Changes(i, None)
InstallRefused(p) ==
  /\ At(p, {"git", "copy", "link"}, "validating") /\ ~Accepted(p)
  /\ \/ CleansUp(op[p].id, op[p].kind) /\ UNCHANGED <<littered, faults>>
     \/ op[p].kind # "link" /\ Fault /\ littered' = TRUE /\ UNCHANGED <<root, trusted>>
  /\ Ends(p)
  /\ UNCHANGED <<hand, source, fetchHead, disk, view, meddled, crossed, stale, ops, edits>>

(* The record is added to the configuration as the process knows it.                *)
Saves(p, i, kind) ==
  LET next == [view[p] EXCEPT ![i] = kind] IN
  /\ disk' = next /\ view' = [view EXCEPT ![p] = next]
  /\ stale' = (stale \/ view[p] # disk)
InstallRecorded(p) ==
  /\ At(p, {"git", "copy", "link"}, "recording")
  /\ Saves(p, op[p].id, op[p].kind)
  /\ crossed' = (crossed \/ (op[p].kind = "link" /\ ~op[p].alone))
  /\ Ends(p)
  /\ UNCHANGED <<tree, source, fetchHead, meddled, littered, ops, edits, faults>>
InstallUnrecorded(p) ==
  /\ At(p, {"git", "copy", "link"}, "recording") /\ Fault
  /\ CleansUp(op[p].id, op[p].kind)
  /\ Ends(p)
  /\ UNCHANGED <<hand, source, fetchHead, disk, view, marks, ops, edits>>

-----------------------------------------------------------------------------
(* An update: the candidate is fetched and validated before it is checked out.           *)

UpdateBegins(p, i) ==
  /\ Loaded(p)[i] = "git"
  /\ Begins(p, "update", i, "fetching")
IsClone(i) == root[i] # None /\ hand[i] = None
Fetched(p) ==
  /\ At(p, {"update"}, "fetching") /\ IsClone(op[p].id)
  /\ fetchHead' = [fetchHead EXCEPT ![op[p].id] = source[op[p].id]]
  /\ Goes(p, "showing")
  /\ UNCHANGED <<tree, source, disk, view, marks, ops, edits, faults>>
Shown(p) ==
  /\ At(p, {"update"}, "showing") /\ IsClone(op[p].id)
  /\ op' = [op EXCEPT ![p].candidate = fetchHead[op[p].id], ![p].pc = "listing"]
  /\ UNCHANGED <<tree, source, fetchHead, disk, view, marks, ops, edits, faults>>
UpdateValidates(p) ==
  /\ At(p, {"update"}, "validating") /\ Accepted(p)
  /\ Goes(p, "adopting")
  /\ UNCHANGED <<tree, source, fetchHead, disk, view, marks, ops, edits, faults>>
ChecksOut(p) ==
  /\ At(p, {"update"}, "adopting") /\ IsClone(op[p].id)
  /\ root' = [root EXCEPT ![op[p].id] = fetchHead[op[p].id]]
  /\ trusted' = IF op[p].alone /\ ~Hides(p) THEN trusted \cup {op[p].id} ELSE trusted \ {op[p].id}
  /\ crossed' = (crossed \/ ~op[p].alone)
  /\ Goes(p, "recording")
  /\ UNCHANGED <<hand, source, fetchHead, disk, view, meddled, stale, littered, ops, edits, faults>>
UpdateRecorded(p) ==
  /\ At(p, {"update"}, "recording")
  /\ Saves(p, op[p].id, "git")
  /\ Ends(p)
  /\ UNCHANGED <<tree, source, fetchHead, meddled, crossed, littered, ops, edits, faults>>
(* git fails, the candidate is refused, or the new commit is not recorded.            *)
UpdateFails(p) ==
  /\ \/ \E pc \in {"fetching", "showing", "adopting", "recording"} : At(p, {"update"}, pc)
     \/ At(p, {"update"}, "validating") /\ ~Accepted(p)
  /\ Ends(p)
  /\ UNCHANGED <<tree, source, fetchHead, disk, view, marks, ops, edits, faults>>

-----------------------------------------------------------------------------
(* A removal deletes what an install wrote, then drops the record.                    *)

RemoveBegins(p, i) ==
  /\ Loaded(p)[i] # None
  /\ Begins(p, "remove", i, "deleting")
DeletesAlways(kind) == TRUE                      \* mutant: deletes for links too
WroteIntoRoot(kind) == kind \in {"git", "copy"}
Deletes(p) ==
  /\ At(p, {"remove"}, "deleting")
  /\ IF WroteIntoRoot(view[p][op[p].id]) THEN Changes(op[p].id, None)
     ELSE UNCHANGED <<root, trusted>>
  /\ Goes(p, "dropping")
  /\ UNCHANGED <<hand, source, fetchHead, disk, view, marks, ops, edits, faults>>
Dropped(p) ==
  /\ At(p, {"remove"}, "dropping")
  /\ Saves(p, op[p].id, None)
  /\ Ends(p)
  /\ UNCHANGED <<tree, source, fetchHead, meddled, crossed, littered, ops, edits, faults>>
RemoveFails(p) ==
  /\ At(p, {"remove"}, "deleting") \/ At(p, {"remove"}, "dropping")
  /\ Fault /\ littered' = TRUE
  /\ Ends(p)
  /\ UNCHANGED <<tree, source, fetchHead, disk, view, meddled, crossed, stale, ops, edits>>

-----------------------------------------------------------------------------
(* A process dies, whatever it was at; the application comes back with the file's         *)
(* configuration.  Meanwhile any other save of the application writes all it knows.         *)
Dies(p) ==
  /\ Fault
  /\ littered' = (littered \/ op[p] # None)
  /\ Ends(p)
  /\ view' = [view EXCEPT ![p] = disk]
  /\ UNCHANGED <<tree, source, fetchHead, disk, meddled, crossed, stale, ops, edits>>
GuiSaves ==
  /\ view["gui"] # disk
  /\ disk' = view["gui"] /\ stale' = TRUE
  /\ UNCHANGED <<tree, source, fetchHead, view, op, meddled, crossed, littered, ops, edits, faults>>

(* Upstream moves; the user edits or deletes a folder, which is meddling when it is        *)
(* linked; the user places a directory under the root, or takes it away again.              *)
Linking(i) ==
  \/ \E c \in {disk} \cup {view[p] : p \in Processes} : c[i] = "link"
  \/ \E p \in Processes : op[p] # None /\ op[p].kind = "link" /\ op[p].id = i
SourceMoves(i, raw) ==
  /\ edits < MaxPlaced /\ raw # source[i]
  /\ raw # None \/ i \notin Git
  /\ edits' = edits + 1
  /\ source' = [source EXCEPT ![i] = raw]
  /\ meddled' = (meddled \/ Linking(i))
  /\ UNCHANGED <<tree, fetchHead, disk, view, op, crossed, stale, littered, ops, faults>>
Places(i, raw) ==
  /\ edits < MaxPlaced /\ root[i] = None /\ disk[i] = None /\ ~Busy(i)
  /\ edits' = edits + 1
  /\ root' = [root EXCEPT ![i] = raw] /\ hand' = [hand EXCEPT ![i] = raw]
  /\ meddled' = TRUE
  /\ UNCHANGED <<trusted, source, fetchHead, disk, view, op, crossed, stale, littered, ops, faults>>
TakesAway(i) ==
  /\ edits < MaxPlaced /\ hand[i] # None /\ ~Busy(i)
  /\ edits' = edits + 1
  /\ root' = [root EXCEPT ![i] = None] /\ hand' = [hand EXCEPT ![i] = None]
  /\ trusted' = trusted \ {i}
  /\ UNCHANGED <<source, fetchHead, disk, view, op, marks, ops, faults>>

ContributionsNext ==
  \/ \E p \in Processes :
       \/ \E i \in Ids, form \in SourceForms, linked \in BOOLEAN : InstallBegins(p, i, form, linked)
       \/ CloneBegins(p) \/ Cloned(p) \/ CloneFails(p)
       \/ CopyBegins(p) \/ Copied(p) \/ CopyFails(p) \/ Links(p)
       \/ Lists(p) \/ InstallValidates(p) \/ InstallRefused(p)
       \/ InstallRecorded(p) \/ InstallUnrecorded(p)
       \/ \E i \in Ids : UpdateBegins(p, i)
       \/ Fetched(p) \/ Shown(p) \/ UpdateValidates(p) \/ ChecksOut(p)
       \/ UpdateRecorded(p) \/ UpdateFails(p)
       \/ \E i \in Ids : RemoveBegins(p, i)
       \/ Deletes(p) \/ Dropped(p) \/ RemoveFails(p) \/ Dies(p)
  \/ GuiSaves
  \/ \E i \in Ids :
       \/ \E raw \in Manifests(i) \cup {None} : SourceMoves(i, raw)
       \/ \E raw \in {Claiming(i), Garbled} : Places(i, raw)
       \/ TakesAway(i)

ContributionsSpec == ContributionsInit /\ [][ContributionsNext]_contributionVars

-----------------------------------------------------------------------------
Kinds == {"git", "copy", "link", None}
Raws == (UNION {Manifests(i) : i \in Ids}) \cup {None, Empty, Garbled}
Undertakings ==
  [kind : {"git", "copy", "link", "update", "remove"}, id : Ids,
   pc : {"placing", "cloning", "copying", "listing", "validating", "recording",
         "fetching", "showing", "adopting", "deleting", "dropping"},
   seen : SUBSET Ids, candidate : Raws, alone : BOOLEAN, sole : BOOLEAN]

(* None is none of what it stands in for: the run's module states it of its constants.    *)
ContributionsAssumption ==
  /\ None \notin Undertakings
  /\ None \notin {"git", "copy", "link"}
  /\ \A i \in Ids : None \notin Manifests(i)

ContributionsTypeOK ==
  /\ op \in [Processes -> Undertakings \cup {None}]
  /\ root \in [Ids -> Raws] /\ hand \in [Ids -> Raws]
  /\ source \in [Ids -> Raws] /\ fetchHead \in [Ids -> Raws]
  /\ disk \in [Ids -> Kinds] /\ view \in [Processes -> [Ids -> Kinds]]
  /\ trusted \subseteq Names
  /\ ops \in 0..MaxInstalls /\ edits \in 0..MaxPlaced /\ faults \in 0..MaxFailures

\* Two installs at the same time never both get through with the same contribution id:
\* each has its files in place before it looks at the others' (installer.ts install and
\* collectClaimedContributionIds), and what an update adopts is what it validated; but for a
\* directory that a link of the same name hides, and for one that the other process was
\* installing, updating or removing too, as no lock keeps the two apart.
NoSharedContribution ==
  /\ \A i \in trusted : Parses(root[i]) /\ root[i].id = i /\ TemplatesHold(root[i])
  /\ \A i, j \in trusted : i # j => Claims(root[i]) \cap Claims(root[j]) = {}

\* A directory the user placed under the plugin root is neither overwritten nor deleted,
\* by a failing install of that id or by the removal of a link of that name
\* (installer.ts:271-285, 483-493), unless a process acts on a stale configuration.
HandPlacedStays ==
  ~stale => \A i \in Ids : hand[i] # None => root[i] = hand[i]

\* The operations of the application and of the command line never bring the registry,
\* which fails as a whole on one bad extension, into that state: between operations it
\* lists, with a readable row for every record, unless the user changed what is
\* installed, a link or an update overlapped another operation, a process acted on a stale
\* configuration, or a deletion, a save or a process failed midway.
RegistryServes ==
  (\A p \in Processes : op[p] = None) /\ ~(meddled \/ crossed \/ stale \/ littered) =>
     /\ RegistryLists(disk)
     /\ \A i \in Ids : disk[i] # None => Rows(disk)[i] = "readable"
     /\ \A i \in Ids : root[i] # None => disk[i] \in {"git", "copy"}

ContributionsAreSound == NoSharedContribution /\ HandPlacedStays /\ RegistryServes
=============================================================================

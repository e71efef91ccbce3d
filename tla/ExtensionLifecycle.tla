------------------------- MODULE ExtensionLifecycle -------------------------
(***************************************************************************)
(* Extensions from the disk to the children they run: the administration     *)
(* (runtime-core/src/extension-admin.ts) over the installer (extensions), the    *)
(* configuration file behind its cache (config), the refresh that swaps the     *)
(* live view (create-app-context.ts), and the requests that start a child.      *)
(* Another writer of the configuration (handlers.ts) is at work meanwhile.      *)
(*                                                                         *)
(* An extension id stands for the extension, its one provider contribution and   *)
(* the key of its supervised child; a provider record is the id it refers to.   *)
(***************************************************************************)
EXTENDS Naturals, FiniteSets

CONSTANTS
  None,
  Ids,          (* extensions                                               *)
  Linked,       (* those installed as a link to a directory of the user's       *)
  MaxOps,       (* bound: operations of the administration                     *)
  MaxEdits,     (* bound: edits by the other writer                           *)
  MaxFaults     (* bound: writes that fail, manifests broken by hand             *)

VARIABLES
  files,        (* id -> "none", "good" or "bad": the directory's manifest       *)
  disk, cache,  (* the configuration: in the file; in the cache (and liveConfig)  *)
  tmp,          (* the contents of <path>.tmp, or None                         *)
  good,         (* haveGoodExtensionState                                     *)
  enabledCell, supervisedCell, owners,        (* the live view               *)
  children,     (* the supervised children that run                            *)
  op,           (* the operation in progress: [kind, id, pc, next], or None      *)
  edit,         (* the other writer: [pc, next], or None                       *)
  asked, done,  (* refreshes asked for, and completed                          *)
  refreshing,   (* the configuration the current refresh has read, or None        *)
  request,      (* a proxied request: [id, after], or None                      *)
  ops, edits, faults,
  overlapped,   (* history: a write was made from a configuration since changed,   *)
                (* or while another write was under way                       *)
  dangling,     (* history: removals whose last write failed                    *)
  broken,       (* history: manifests the user broke                           *)
  leftBehind    (* history: what an install left when its clean-up failed too    *)

cells == <<good, enabledCell, supervisedCell, owners>>
refreshes == <<asked, done, refreshing>>
counts == <<ops, edits, faults>>
history == <<overlapped, dangling, broken, leftBehind>>
extVars == <<files, disk, cache, tmp, cells, children, op, edit, refreshes, request, counts,
             history>>

(* A configuration: the installed extensions, which are enabled, and the          *)
(* extensions that a provider record refers to.                              *)
Configs == [plugins : SUBSET Ids, enabled : SUBSET Ids, providers : SUBSET Ids]
Empty == [plugins |-> {}, enabled |-> {}, providers |-> {}]

ExtInit ==
  /\ files = [i \in Ids |-> "none"]
  /\ disk = Empty /\ cache = Empty /\ tmp = None
  /\ good = FALSE /\ enabledCell = {} /\ supervisedCell = {} /\ owners = {}
  /\ children = {}
  /\ op = None /\ edit = None /\ request = None
  /\ asked = 1 /\ done = 0 /\ refreshing = None
  /\ ops = 0 /\ edits = 0 /\ faults = 0
  /\ overlapped = FALSE /\ dangling = {} /\ broken = {} /\ leftBehind = {}

-----------------------------------------------------------------------------
(* The configuration file.  A write goes to the one temporary file, then renames   *)
(* it; the cache is set when the write is through, to what the writer meant.        *)

Writing == {w \in {"op", "edit"} :
              IF w = "op" THEN op # None /\ op.pc = "saving"
              ELSE edit # None /\ edit.pc = "saving"}

Present == {i \in Ids : files[i] # "none"}

(* retainConfiguredInstances: the children of configured providers of enabled        *)
(* extensions stay, the others stop.                                          *)
Retain(cfg) == children' = {i \in children : i \in cfg.providers \cap cfg.enabled \cap owners'}

BeginsFrom(base, next) ==
  /\ tmp' = next
  /\ overlapped' = (overlapped \/ base # cache \/ Writing # {})
Written(next) ==
  /\ tmp # None
  /\ disk' = tmp /\ tmp' = None
  /\ cache' = next
  /\ UNCHANGED owners
  /\ Retain(next)
WriteFails ==
  /\ tmp = None \/ faults < MaxFaults
  /\ faults' = IF tmp = None THEN faults ELSE faults + 1
  /\ tmp' = None
  /\ UNCHANGED <<disk, cache, children, owners>>

-----------------------------------------------------------------------------
(* The administration: one operation at a time.                                *)

Starts(kind, i, pc, next) ==
  /\ op = None /\ ops < MaxOps
  /\ ops' = ops + 1
  /\ op' = [kind |-> kind, id |-> i, pc |-> pc, next |-> next]
At(kind, pc) == op # None /\ op.kind = kind /\ op.pc = pc
Goes(pc) == op' = [op EXCEPT !.pc = pc]
Saves(pc, next) == op' = [op EXCEPT !.pc = pc, !.next = next]

(* planInstall refuses an id with a record; the copier, and git, a directory in        *)
(* the way.                                                                   *)
InstallStarts(i) ==
  /\ i \notin cache.plugins
  /\ i \in Linked \/ files[i] = "none"
  /\ Starts("install", i, "fetching", None)
  /\ UNCHANGED <<files, disk, cache, tmp, cells, children, edit, refreshes, request, edits, faults,
                 history>>

(* The directory is there, then it is validated: what fails is removed.            *)
InstallFetches(valid) ==
  /\ At("install", "fetching")
  /\ files' = [files EXCEPT ![op.id] = IF valid THEN "good" ELSE "bad"]
  /\ Goes("validating")
  /\ UNCHANGED <<disk, cache, tmp, cells, children, edit, refreshes, request, counts, history>>
(* The clean-up can fail as well: what was written, whole or in part, stays.  A link      *)
(* wrote nothing.                                                             *)
InstallFails(cleaned) ==
  /\ At("install", "fetching") \/ (At("install", "validating") /\ files[op.id] = "bad")
  /\ IF cleaned
     THEN files' = [files EXCEPT ![op.id] = "none"] /\ UNCHANGED <<faults, leftBehind>>
     ELSE /\ op.id \notin Linked /\ faults < MaxFaults
          /\ faults' = faults + 1
          /\ files' = [files EXCEPT ![op.id] = "bad"]
          /\ leftBehind' = leftBehind \cup {op.id}
  /\ op' = None
  /\ UNCHANGED <<disk, cache, tmp, cells, children, edit, refreshes, request, ops, edits,
                 overlapped, dangling, broken>>
InstallRecords ==
  /\ At("install", "validating") /\ files[op.id] = "good"
  /\ LET next == [cache EXCEPT !.plugins = @ \cup {op.id}, !.enabled = @ \cup {op.id}]
     IN BeginsFrom(cache, next) /\ Saves("saving", next)
  /\ UNCHANGED <<files, disk, cache, cells, children, edit, refreshes, request, counts, dangling,
                 broken, leftBehind>>

SetsEnabled(i, enabled) ==
  /\ i \in cache.plugins
  /\ LET next == [cache EXCEPT !.enabled = IF enabled THEN @ \cup {i} ELSE @ \ {i}]
     IN Starts("enable", i, "saving", next) /\ BeginsFrom(cache, next)
  /\ UNCHANGED <<files, disk, cache, cells, children, edit, refreshes, request, edits, faults,
                 dangling, broken, leftBehind>>

(* update validates the candidate out of FETCH_HEAD before it checks it out.           *)
Updates(i) ==
  /\ i \in cache.plugins \ Linked
  /\ Starts("update", i, "fetching", None)
  /\ UNCHANGED <<files, disk, cache, tmp, cells, children, edit, refreshes, request, edits, faults,
                 history>>
ChecksOutUnvalidated(valid) ==                   \* mutant: checks out, then validates
  /\ At("update", "fetching")
  /\ files' = [files EXCEPT ![op.id] = IF valid THEN "good" ELSE "bad"]
  /\ op' = None
  /\ UNCHANGED <<disk, cache, tmp, cells, children, edit, refreshes, request, counts, history>>
ChecksOut(valid) ==
  /\ At("update", "fetching")
  /\ IF valid
     THEN /\ files' = [files EXCEPT ![op.id] = "good"]
          /\ BeginsFrom(cache, cache) /\ Saves("saving", cache)
     ELSE op' = None /\ UNCHANGED <<files, tmp, overlapped>>
  /\ UNCHANGED <<disk, cache, cells, children, edit, refreshes, request, counts, dangling, broken,
                 leftBehind>>

(* What fails after the checkout leaves the new tree with the old record.               *)
UpdateFails ==
  /\ At("update", "fetching") /\ faults < MaxFaults
  /\ faults' = faults + 1
  /\ files' = [files EXCEPT ![op.id] = "good"]
  /\ op' = None
  /\ UNCHANGED <<disk, cache, tmp, cells, children, edit, refreshes, request, ops, edits, history>>

(* remove: the listing, the check against the configuration, and the check again         *)
(* before anything is destroyed.  Without a listing it stops every child.               *)
Listed == good /\ \A i \in Present : files[i] = "good"
RemoveStarts(i) ==
  /\ i \in cache.plugins
  /\ Starts("remove", i, "listing", cache.providers)
  /\ UNCHANGED <<files, disk, cache, tmp, cells, children, edit, refreshes, request, edits, faults,
                 history>>
RemoveChecks ==
  /\ At("remove", "listing")
  /\ IF Listed /\ op.id \in op.next \cup cache.providers
     THEN op' = None /\ UNCHANGED children
     ELSE /\ Goes("deleting")
          /\ children' = IF Listed THEN children \ {op.id} ELSE {}
  /\ UNCHANGED <<files, disk, cache, tmp, cells, edit, refreshes, request, counts, history>>
RemoveDeletes ==
  /\ At("remove", "deleting")
  /\ files' = IF op.id \in Linked THEN files ELSE [files EXCEPT ![op.id] = "none"]
  /\ Goes("recording")
  /\ UNCHANGED <<disk, cache, tmp, cells, children, edit, refreshes, request, counts, history>>
RemoveFails ==
  /\ At("remove", "deleting") /\ op.id \notin Linked /\ faults < MaxFaults
  /\ faults' = faults + 1
  /\ op' = None
  /\ UNCHANGED <<files, disk, cache, tmp, cells, children, edit, refreshes, request, ops, edits,
                 history>>
(* The third load: from the first one, an edit made meanwhile would be lost.             *)
RemoveRecords ==
  /\ At("remove", "recording")
  /\ LET next == [cache EXCEPT !.plugins = @ \ {op.id}, !.enabled = @ \ {op.id}]
     IN BeginsFrom(cache, next) /\ Saves("saving", next)
  /\ UNCHANGED <<files, disk, cache, cells, children, edit, refreshes, request, counts, dangling,
                 broken, leftBehind>>

(* A linked directory leaves the listing with its record: nothing is deleted.            *)
Unlink == files' = IF op.kind = "remove" /\ op.id \in Linked
                   THEN [files EXCEPT ![op.id] = "none"] ELSE files

OpSaved ==
  /\ op # None /\ op.pc = "saving"
  /\ Written(op.next)
  /\ Unlink
  /\ asked' = asked + 1
  /\ op' = [op EXCEPT !.pc = "refreshing", !.next = asked + 1]
  /\ UNCHANGED <<good, enabledCell, supervisedCell, edit, done, refreshing, request, counts,
                 history>>
(* A failed write: an install is rolled back, unless the removal fails too (a link has    *)
(* nothing to remove).                                                        *)
OpFailsKeeping(rolledBack) ==                     \* mutant: no rollback
  /\ op # None /\ op.pc = "saving"
  /\ WriteFails
  /\ op' = None
  /\ rolledBack
  /\ UNCHANGED <<files, good, enabledCell, supervisedCell, edit, refreshes, request, ops, edits,
                 history>>
RollsBack == files' = [files EXCEPT ![op.id] = "none"]
OpFails(rolledBack) ==
  /\ op # None /\ op.pc = "saving"
  /\ WriteFails
  /\ IF rolledBack
     THEN /\ IF op.kind = "install" THEN RollsBack ELSE UNCHANGED files
          /\ UNCHANGED leftBehind
     ELSE /\ op.kind = "install" /\ op.id \notin Linked
          /\ UNCHANGED files
          /\ leftBehind' = leftBehind \cup {op.id}
  /\ dangling' = IF op.kind = "remove" THEN dangling \cup {op.id} ELSE dangling
  /\ op' = None
  /\ UNCHANGED <<good, enabledCell, supervisedCell, edit, refreshes, request, ops, edits,
                 overlapped, broken>>
OpEnds ==
  /\ op # None /\ op.pc = "refreshing" /\ done >= op.next
  /\ op' = None
  /\ UNCHANGED <<files, disk, cache, tmp, cells, children, edit, refreshes, request, counts, history>>

-----------------------------------------------------------------------------
(* The other writer: addProvider loads, writes secrets to the keychain, and saves        *)
(* what it loaded with its change; deleteProvider saves at once.                     *)

EditLoads(i) ==
  /\ edit = None /\ edits < MaxEdits
  /\ edits' = edits + 1
  /\ i \in supervisedCell                          \* validateProviderConfig knows the key
  /\ edit' = [pc |-> "secrets", base |-> cache,
              next |-> [cache EXCEPT !.providers = @ \cup {i}]]
  /\ UNCHANGED <<files, disk, cache, tmp, cells, children, op, refreshes, request, ops, faults,
                 history>>
EditSaves ==
  /\ edit # None /\ edit.pc = "secrets"
  /\ edit' = [edit EXCEPT !.pc = "saving"]
  /\ BeginsFrom(edit.base, edit.next)
  /\ UNCHANGED <<files, disk, cache, cells, children, op, refreshes, request, counts, dangling,
                 broken, leftBehind>>
EditDeletes(i) ==
  /\ edit = None /\ edits < MaxEdits
  /\ edits' = edits + 1
  /\ i \in cache.providers
  /\ LET next == [cache EXCEPT !.providers = @ \ {i}]
     IN edit' = [pc |-> "saving", base |-> cache, next |-> next] /\ BeginsFrom(cache, next)
  /\ UNCHANGED <<files, disk, cache, cells, children, op, refreshes, request, ops, faults, dangling,
                 broken, leftBehind>>
EditEnds(written) ==
  /\ edit # None /\ edit.pc = "saving"
  /\ IF written THEN Written(edit.next) /\ UNCHANGED faults ELSE WriteFails
  /\ edit' = None
  /\ UNCHANGED <<files, good, enabledCell, supervisedCell, op, refreshes, request, ops, edits,
                 history>>

UserBreaks(i) ==
  /\ files[i] = "good" /\ faults < MaxFaults
  /\ faults' = faults + 1
  /\ files' = [files EXCEPT ![i] = "bad"]
  /\ broken' = broken \cup {i}
  /\ UNCHANGED <<disk, cache, tmp, cells, children, op, edit, refreshes, request, ops, edits,
                 overlapped, dangling, leftBehind>>

-----------------------------------------------------------------------------
(* runRefresh, one at a time, in the order they were asked for.                       *)

RefreshStarts ==
  /\ refreshing = None /\ done < asked
  /\ refreshing' = cache
  /\ UNCHANGED <<files, disk, cache, tmp, cells, children, op, edit, asked, done, request, counts,
                 history>>
(* One bad manifest fails the listing: the last good view is kept.                      *)
RefreshEnds ==
  /\ refreshing # None
  /\ refreshing' = None /\ done' = done + 1
  /\ IF \A i \in Present : files[i] = "good"
     THEN /\ good' = TRUE
          /\ enabledCell' = refreshing.enabled
          /\ supervisedCell' = Present \cap refreshing.enabled
          /\ owners' = Present
          /\ Retain(refreshing)
     ELSE UNCHANGED <<cells, children>>
  /\ UNCHANGED <<files, disk, cache, tmp, op, edit, asked, request, counts, history>>

(* A proxied request finds its provider in liveConfig and waits for the refresh that       *)
(* is the last one now; then resolveBaseUrl starts the child if it is supervised.         *)
Requests(i) ==
  /\ request = None /\ i \in cache.providers
  /\ request' = [id |-> i, after |-> asked]
  /\ UNCHANGED <<files, disk, cache, tmp, cells, children, op, edit, refreshes, counts, history>>
RequestResolves ==
  /\ request # None /\ done >= request.after
  /\ children' = IF request.id \in supervisedCell /\ request.id \in enabledCell
                 THEN children \cup {request.id} ELSE children
  /\ request' = None
  /\ UNCHANGED <<files, disk, cache, tmp, cells, op, edit, refreshes, counts, history>>

ExtNext ==
  \/ \E i \in Ids : \/ InstallStarts(i) \/ Updates(i) \/ RemoveStarts(i)
                    \/ EditLoads(i) \/ EditDeletes(i) \/ UserBreaks(i) \/ Requests(i)
                    \/ \E enabled \in BOOLEAN : SetsEnabled(i, enabled)
  \/ \E valid \in BOOLEAN : InstallFetches(valid) \/ ChecksOut(valid)
  \/ \E cleaned \in BOOLEAN : InstallFails(cleaned) \/ OpFails(cleaned)
  \/ InstallRecords
  \/ UpdateFails
  \/ RemoveChecks \/ RemoveDeletes \/ RemoveFails \/ RemoveRecords
  \/ OpSaved \/ OpEnds
  \/ EditSaves
  \/ \E written \in BOOLEAN : EditEnds(written)
  \/ RefreshStarts \/ RefreshEnds
  \/ RequestResolves

ExtSpec == ExtInit /\ [][ExtNext]_extVars

-----------------------------------------------------------------------------
ExtTypeOK ==
  /\ files \in [Ids -> {"none", "good", "bad"}]
  /\ disk \in Configs /\ cache \in Configs /\ tmp \in Configs \cup {None}
  /\ good \in BOOLEAN /\ enabledCell \subseteq Ids /\ supervisedCell \subseteq Ids
  /\ owners \subseteq Ids /\ children \subseteq Ids
  /\ done <= asked

Settled == op = None /\ edit = None /\ request = None /\ done = asked

(* A disabled extension is inert: when all is settled it runs no child, unless a       *)
(* write was made from a configuration that had changed meanwhile, or a manifest      *)
(* broken by hand, or left broken by an install that could not clean up, made a         *)
(* refresh keep the view in which it was enabled.                              *)
InertWhenDisabled ==
  Settled /\ ~overlapped /\ broken \cup leftBehind = {} => children \subseteq cache.enabled

(* The records and the directories agree.  An install that failed leaves nothing, unless  *)
(* removing what it wrote failed as well; only a removal that could not write its last   *)
(* step leaves a record without files; and no manifest that would fail every listing is   *)
(* on the disk but one broken by hand or left by such an install: an update leaves none.  *)
FilesMatchRecords ==
  /\ Settled /\ ~overlapped =>
       /\ Present \subseteq cache.plugins \cup leftBehind
       /\ cache.plugins \ Present \subseteq dangling
  /\ op = None => \A i \in Ids : files[i] = "bad" => i \in broken \cup leftBehind
===============================================================================

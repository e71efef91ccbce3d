---------------------------- MODULE ConfigRecords ----------------------------
(***************************************************************************)
(* The providers, models and preferences of the configuration: the handlers  *)
(* that edit them for the window (handlers.ts), the command line that edits   *)
(* them from a process of its own (mutate-command.ts), the cache and the      *)
(* schema between them and the file (packages/config), and the lists that      *)
(* the settings pages keep (resource.ts, providersStore.ts, modelsStore.ts)   *)
(* over calls that may time out (ipc-client.ts).                            *)
(*                                                                         *)
(* A handler loads the whole configuration, may wait (for the keychain, for   *)
(* the registry of harnesses), and saves the whole of it.  A load that finds  *)
(* nothing cached waits for the file before it caches what it read, and a      *)
(* save for the file before it caches what it wrote.                          *)
(***************************************************************************)
EXTENDS Naturals, FiniteSets

CONSTANTS
  None,
  Newer,        (* the contents of a file that a later version has written     *)
  MaxProviders, (* bound: providers ever added                               *)
  MaxModels,    (* bound: models ever added                                   *)
  MaxAsked,     (* bound: edits asked for by the window                        *)
  MaxLoads,     (* bound: lists asked for                                     *)
  MaxAside      (* bound: edits by the command line and restarts, in all        *)

Providers == 1..MaxProviders
Models == 1..MaxModels
Resources == {"providers", "models"}

VARIABLES
  disk,       (* the file, or Newer                                         *)
  cached,     (* createCachedConfigStore: the application's copy, or None       *)
  calls,      (* edits of the window under way                               *)
  command,    (* the edit of a command under way, or None                       *)
  shown,      (* the list of each resource, or None                           *)
  gen,        (* createResource: the generation of its newest load               *)
  loads,      (* loads on their way: [of, gen, data, doc], doc until it is cached *)
  minted, asked, commands, loaded, starts,
  truth,      (* history: every edit that was acknowledged, in the order of saves  *)
  secrets,    (* history: providers given a secret                             *)
  crossed,    (* history: an edit began while another was under way; what was        *)
              (* acknowledged is not followed any more                              *)
  foreign,    (* history: a command saved behind the application's cache            *)
  overread,   (* history: a load cached what it had read before a save              *)
  unheard     (* history: a call or a load of the window timed out or failed        *)

files == <<disk, cached>>
lists == <<shown, gen, loads, loaded>>
counts == <<minted, asked, commands, starts>>
configHistory == <<truth, secrets, crossed, foreign, overread, unheard>>
configVars == <<files, calls, command, lists, counts, configHistory>>

(* ConfigSchema, as far as the edits tell it apart: a model names its provider,     *)
(* and the preferences of the harness a model, or that it goes without.               *)
Direct == 0
Empty == [providers |-> {}, keyed |-> {}, models |-> [m \in Models |-> None],
          chosen |-> None, settings |-> "default"]
Readable(c) == c # Newer

ConfigInit ==
  /\ disk \in {Empty, Newer} /\ cached = None
  /\ calls = {} /\ command = None
  /\ shown = [r \in Resources |-> None] /\ gen = [r \in Resources |-> 0] /\ loads = {}
  /\ minted = [r \in Resources |-> 0]
  /\ asked = 0 /\ commands = 0 /\ loaded = 0 /\ starts = 0
  /\ truth = disk /\ secrets = {} /\ crossed = FALSE /\ foreign = FALSE
  /\ overread = FALSE /\ unheard = FALSE

-----------------------------------------------------------------------------
(* What each edit makes of the configuration it loaded.                          *)

AddProvider(c, p, keyed) ==
  [c EXCEPT !.providers = @ \cup {p}, !.keyed = IF keyed THEN @ \cup {p} ELSE @]
UpdateDropsSecrets(c, p) ==                       \* mutant: the record is written anew
  IF p \in c.providers THEN [c EXCEPT !.keyed = @ \ {p}] ELSE c
(* The secrets of the existing record are kept.                                  *)
UpdateProvider(c, p) == c
DeleteProvider(c, p) == [c EXCEPT !.providers = @ \ {p}, !.keyed = @ \ {p}]
SetProviderSecret(c, p) == [c EXCEPT !.keyed = @ \cup {p}]
(* Nothing checks that the provider of a model is there.                           *)
AddModel(c, m, p) == [c EXCEPT !.models[m] = p]
UpdateModel(c, m, p) == IF c.models[m] = None THEN c ELSE [c EXCEPT !.models[m] = p]
DeleteModel(c, m) == [c EXCEPT !.models[m] = None]
UpdatePrefs(c, m) == [c EXCEPT !.chosen = m]
(* The other settings, which are not told apart: each edit merges its own.             *)
ChangeSettings(c) == [c EXCEPT !.settings = "changed"]

Edited(e, c) ==
  CASE e.kind = "addProvider"    -> AddProvider(c, e.p, e.keyed)
    [] e.kind = "updateProvider" -> UpdateProvider(c, e.p)
    [] e.kind = "deleteProvider" -> DeleteProvider(c, e.p)
    [] e.kind = "setSecret"      -> SetProviderSecret(c, e.p)
    [] e.kind = "addModel"       -> AddModel(c, e.m, e.p)
    [] e.kind = "updateModel"    -> UpdateModel(c, e.m, e.p)
    [] e.kind = "deleteModel"    -> DeleteModel(c, e.m)
    [] e.kind = "prefs"          -> UpdatePrefs(c, e.m)
    [] OTHER                      -> ChangeSettings(c)

(* The edits that look the provider up first.                                      *)
Refused(e) == e.kind \in {"updateProvider", "setSecret"} /\ e.p \notin e.base.providers

Secretly(e, s) ==
  CASE e.kind = "addProvider" /\ e.keyed -> s \cup {e.p}
    [] e.kind = "setSecret"              -> s \cup {e.p}
    [] e.kind = "deleteProvider"         -> s \ {e.p}
    [] OTHER                             -> s

(* What was acknowledged, while no edits cross.                                    *)
Crosses(other) ==
  /\ crossed' = (crossed \/ other)
  /\ truth' = IF crossed' THEN None ELSE truth
  /\ secrets' = IF crossed' THEN {} ELSE secrets
Remembered(e) ==
  /\ truth' = IF crossed THEN None ELSE Edited(e, truth)
  /\ secrets' = IF crossed THEN {} ELSE Secretly(e, secrets)

-----------------------------------------------------------------------------
(* The application.                                                          *)

(* load: the cache, or the file, read when the call is made; then what was read is       *)
(* cached, if it is a configuration, whatever was saved or cached meanwhile.              *)
Cold == cached = None
Loaded == IF Cold THEN disk ELSE cached
Caches(d) ==
  /\ cached' = IF Readable(d) THEN d ELSE cached
  /\ overread' = (overread \/ (Readable(d) /\ d # disk))
UnderWay(c) == c.answer \in {"reading", "pending", "written"}

(* A call reaches its handler, which loads the configuration.                             *)
Asks(e) ==
  /\ asked < MaxAsked /\ asked' = asked + 1
  /\ calls' = calls \cup {[id |-> asked + 1, kind |-> e.kind, p |-> e.p, m |-> e.m,
                           keyed |-> e.keyed, base |-> Loaded,
                           answer |-> IF Cold THEN "reading" ELSE "pending"]}
  /\ Crosses(command # None \/ \E c \in calls : UnderWay(c))
  /\ UNCHANGED <<files, command, lists, commands, starts, foreign, overread, unheard>>

(* The file has been read; without a configuration the call fails.                       *)
HasRead(c) ==
  /\ c \in calls /\ c.answer = "reading" /\ Caches(c.base)
  /\ calls' = (calls \ {c}) \cup
              {[c EXCEPT !.answer = IF Readable(c.base) THEN "pending" ELSE "failed"]}
  /\ UNCHANGED <<disk, command, lists, counts, truth, secrets, crossed, foreign, unheard>>

Call(kind, p, m, keyed) == [kind |-> kind, p |-> p, m |-> m, keyed |-> keyed]
Listed(r) == IF shown[r] = None THEN {} ELSE {x[2] : x \in shown[r]}

(* ProvidersPage: the forms of a new provider, of its secrets and of its fields.         *)
SubmitsProvider(keyed) ==
  /\ minted["providers"] < MaxProviders
  /\ minted' = [minted EXCEPT !["providers"] = @ + 1]
  /\ Asks(Call("addProvider", minted["providers"] + 1, None, keyed))
SubmitsSecret(p) ==
  p \in Listed("providers") /\ Asks(Call("setSecret", p, None, TRUE)) /\ UNCHANGED minted
SubmitsEdit(p) ==
  p \in Listed("providers") /\ Asks(Call("updateProvider", p, None, FALSE)) /\ UNCHANGED minted
(* The store can remove one too.                                                *)
RemovesProvider(p) ==
  p \in Listed("providers") /\ Asks(Call("deleteProvider", p, None, FALSE)) /\ UNCHANGED minted

(* ModelsPage: the draft of a model, new or edited, and its deletion.                  *)
SubmitsModel(p) ==
  /\ p \in Listed("providers") /\ minted["models"] < MaxModels
  /\ minted' = [minted EXCEPT !["models"] = @ + 1]
  /\ Asks(Call("addModel", p, minted["models"] + 1, FALSE))
SubmitsDraft(m, p) ==
  /\ m \in Listed("models") /\ p \in Listed("providers")
  /\ Asks(Call("updateModel", p, m, FALSE)) /\ UNCHANGED minted
RemovesModel(m) ==
  m \in Listed("models") /\ Asks(Call("deleteModel", None, m, FALSE)) /\ UNCHANGED minted

(* The composer remembers the model of the harness, or that it goes without.            *)
PicksModel(m) ==
  m \in Listed("models") \cup {Direct} /\ Asks(Call("prefs", None, m, FALSE)) /\ UNCHANGED minted
(* A launch saves what it loaded before it minted a key and started the agent.             *)
Launches == Asks(Call("settings", None, None, FALSE)) /\ UNCHANGED minted
ChangesSettings == Asks(Call("settings", None, None, FALSE)) /\ UNCHANGED minted
ChangesUpdates == Asks(Call("settings", None, None, FALSE)) /\ UNCHANGED minted
(* flush, when the window has been still for a while: no call of the window's.                *)
BoundsSettle == Asks(Call("bounds", None, None, FALSE)) /\ UNCHANGED minted

(* The handler saves: the file is replaced, and the cache follows it.  (A chmod that fails   *)
(* after the rename is left out; so is what saves that cross do to the temporary file         *)
(* that they share.)                                                                  *)
Writes(c) ==
  /\ c \in calls /\ c.answer = "pending" /\ ~Refused(c)
  /\ disk' = Edited(c, c.base)
  /\ calls' = (calls \ {c}) \cup {[c EXCEPT !.answer = "written", !.base = Edited(c, c.base)]}
  /\ Remembered(c)
  /\ UNCHANGED <<cached, command, lists, counts, crossed, foreign, overread, unheard>>
SavesUncached(c) ==                               \* mutant: the cache keeps the old one
  /\ c \in calls /\ c.answer = "written"
  /\ calls' = (calls \ {c}) \cup {[c EXCEPT !.answer = "ok", !.base = None]}
  /\ UNCHANGED <<files, command, lists, counts, configHistory>>
Saves(c) ==
  /\ c \in calls /\ c.answer = "written" /\ cached' = c.base
  /\ calls' = (calls \ {c}) \cup {[c EXCEPT !.answer = "ok", !.base = None]}
  /\ UNCHANGED <<disk, command, lists, counts, configHistory>>
(* Or refuses, or the keychain or the file does.                                    *)
SaveFails(c) ==
  /\ c \in calls /\ c.answer = "pending"
  /\ calls' = (calls \ {c}) \cup {[c EXCEPT !.answer = "failed", !.base = None]}
  /\ UNCHANGED <<files, command, lists, counts, configHistory>>

Of(kind) ==
  CASE kind \in {"addProvider", "updateProvider", "deleteProvider", "setSecret"} -> {"providers"}
    [] kind \in {"addModel", "updateModel", "deleteModel"}                       -> {"models"}
    [] OTHER                                                                      -> {}

Snapshot(r, c) ==
  IF r = "providers" THEN {<<r, p, p \in c.keyed>> : p \in c.providers}
  ELSE {<<r, m, c.models[m]>> : m \in {n \in Models : c.models[n] # None}}

(* load: a new generation; its request reads what is configured at the moment.             *)
Load(rs) ==
  /\ gen' = [r \in Resources |-> IF r \in rs THEN gen[r] + 1 ELSE gen[r]]
  /\ loads' = loads \cup {[of |-> r, gen |-> gen[r] + 1,
                           data |-> IF Readable(Loaded) THEN Snapshot(r, Loaded) ELSE None,
                           doc |-> IF Cold THEN disk ELSE None] : r \in rs}
  /\ loaded' = loaded + Cardinality(rs)

(* The reply: the store invalidates its resource if the edit was made, unless it has given    *)
(* the call up meanwhile (createElectrobunTransport); its handler went on all the same.        *)
Replies(c, heard) ==
  /\ c \in calls /\ ~UnderWay(c) /\ calls' = calls \ {c}
  /\ Load(IF heard /\ c.answer = "ok" THEN Of(c.kind) ELSE {})
  /\ loaded' <= MaxLoads
  /\ unheard' = (unheard \/ (~heard /\ c.kind # "bounds"))
  /\ UNCHANGED <<files, command, shown, counts, truth, secrets, crossed, foreign, overread>>

(* fetch, when a page mounts: unless there is data, or a load is on its way.                *)
Fetches(r) ==
  /\ shown[r] = None /\ ~\E l \in loads : l.of = r /\ l.gen = gen[r]
  /\ loaded < MaxLoads /\ Load({r})
  /\ UNCHANGED <<files, calls, command, shown, counts, configHistory>>

(* Its handler has read the file.                                                     *)
ListRead(l) ==
  /\ l \in loads /\ l.doc # None /\ Caches(l.doc)
  /\ loads' = (loads \ {l}) \cup {[l EXCEPT !.doc = None]}
  /\ UNCHANGED <<disk, calls, command, shown, gen, loaded, counts, truth, secrets, crossed,
                 foreign, unheard>>

ArrivesAnyway(l) ==                               \* mutant: of any generation
  /\ l \in loads /\ l.doc = None /\ loads' = loads \ {l}
  /\ shown' = IF l.data # None THEN [shown EXCEPT ![l.of] = l.data] ELSE shown
  /\ unheard' = (unheard \/ l.data = None)
  /\ UNCHANGED <<files, calls, command, gen, loaded, counts, truth, secrets, crossed,
                 foreign, overread>>
(* Only the newest load of a resource is taken; a failed one leaves the data alone.           *)
Arrives(l) ==
  /\ l \in loads /\ l.doc = None /\ loads' = loads \ {l}
  /\ shown' = IF l.gen = gen[l.of] /\ l.data # None THEN [shown EXCEPT ![l.of] = l.data] ELSE shown
  /\ unheard' = (unheard \/ l.data = None)
  /\ UNCHANGED <<files, calls, command, gen, loaded, counts, truth, secrets, crossed,
                 foreign, overread>>

-----------------------------------------------------------------------------
(* The command line: a process that loads the file, edits and saves.                        *)

CommandLoads(e) ==
  /\ command = None /\ commands + starts < MaxAside /\ commands' = commands + 1
  /\ Readable(disk)
  /\ command' = [kind |-> e.kind, p |-> e.p, m |-> e.m, keyed |-> FALSE, base |-> disk]
  /\ Crosses(\E c \in calls : UnderWay(c))
  /\ UNCHANGED <<files, calls, lists, asked, starts, foreign, overread, unheard>>
(* It refuses a provider that exists, and to remove what is not there.                        *)
CommandAdds(p) ==
  /\ minted["providers"] = p - 1 /\ minted' = [minted EXCEPT !["providers"] = p]
  /\ CommandLoads(Call("addProvider", p, None, FALSE))
CommandAddsModel(m, p) ==
  /\ minted["models"] = m - 1 /\ minted' = [minted EXCEPT !["models"] = m]
  /\ CommandLoads(Call("addModel", p, m, FALSE))
CommandRemoves(p) ==
  /\ Readable(disk) /\ p \in disk.providers
  /\ CommandLoads(Call("deleteProvider", p, None, FALSE)) /\ UNCHANGED minted
CommandRemovesModel(m) ==
  /\ Readable(disk) /\ disk.models[m] # None
  /\ CommandLoads(Call("deleteModel", None, m, FALSE)) /\ UNCHANGED minted
CommandSaves ==
  /\ command # None /\ command' = None
  /\ disk' = Edited(command, command.base)
  /\ Remembered(command)
  /\ foreign' = (foreign \/ cached # None)
  /\ UNCHANGED <<cached, calls, lists, counts, crossed, overread, unheard>>

(* The application is started again, window and cache with it; saves are atomic.                *)
StartsAgain ==
  /\ commands + starts < MaxAside /\ starts' = starts + 1
  /\ cached' = None /\ calls' = {} /\ loads' = {}
  /\ shown' = [r \in Resources |-> None] /\ gen' = [r \in Resources |-> 0]
  /\ UNCHANGED <<disk, command, loaded, minted, asked, commands, configHistory>>

ConfigNext ==
  \/ \E keyed \in BOOLEAN : SubmitsProvider(keyed)
  \/ \E p \in Providers : SubmitsSecret(p) \/ SubmitsEdit(p) \/ RemovesProvider(p)
                          \/ SubmitsModel(p) \/ CommandAdds(p) \/ CommandRemoves(p)
  \/ \E m \in Models : RemovesModel(m) \/ CommandRemovesModel(m)
  \/ \E m \in Models, p \in Providers : SubmitsDraft(m, p) \/ CommandAddsModel(m, p)
  \/ \E m \in Models \cup {Direct} : PicksModel(m)
  \/ \E c \in calls : HasRead(c) \/ Writes(c) \/ Saves(c) \/ SaveFails(c)
  \/ \E c \in calls, heard \in BOOLEAN : Replies(c, heard)
  \/ \E r \in Resources : Fetches(r)
  \/ \E l \in loads : ListRead(l) \/ Arrives(l)
  \/ Launches \/ ChangesSettings \/ ChangesUpdates \/ BoundsSettle \/ CommandSaves \/ StartsAgain

ConfigSpec == ConfigInit /\ [][ConfigNext]_configVars

-----------------------------------------------------------------------------
Configs == [providers : SUBSET Providers, keyed : SUBSET Providers,
            models : [Models -> Providers \cup {None}], chosen : Models \cup {None, Direct},
            settings : {"default", "changed"}]

ConfigTypeOK ==
  /\ disk \in Configs \cup {Newer} /\ cached \in Configs \cup {None}
  /\ asked \in 0..MaxAsked /\ commands + starts \in 0..MaxAside /\ loaded \in 0..MaxLoads
  /\ \A c \in calls : c.answer \in {"reading", "pending", "written", "ok", "failed"}
  /\ \A l \in loads : l.gen \in 1..gen[l.of]

(* Four cases are left out: edits that cross; a command that saved behind the cache; a save      *)
(* that overtook a load of the file, which then caches the old document (cached-store.ts:16-17);  *)
(* and, of the pages, a call that timed out.                                                *)
Followed == ~crossed /\ ~foreign /\ ~overread

(* An edit that was acknowledged is in the file, whatever the next ones edit, but for these;     *)
(* and a file of a later version is never written over.                                      *)
EditsStick == Followed => disk = truth

(* The application works on what the file holds, or is about to cache what it wrote.             *)
CacheFollowsFile ==
  Followed => cached \in {None, disk} \/ \E c \in calls : c.answer = "written"

(* So is a secret, through edits of its provider.                                           *)
SecretsStick == Followed /\ Readable(disk) => secrets \subseteq disk.keyed

(* When nothing is under way the pages show what is configured.                                *)
PagesAreCurrent ==
  calls = {} /\ loads = {} /\ Followed /\ ~unheard /\ Readable(disk)
    => \A r \in Resources : shown[r] # None => shown[r] = Snapshot(r, disk)

ConfigIsSound == EditsStick /\ CacheFollowsFile /\ SecretsStick /\ PagesAreCurrent
=============================================================================

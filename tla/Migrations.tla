----------------------------- MODULE Migrations -----------------------------
(***************************************************************************)
(* The configuration document of an earlier version is brought forward step   *)
(* by step and then validated by the strict schema of the current one          *)
(* (packages/config: migrations.ts, schema.ts; load and importConfig both       *)
(* come here).                                                            *)
(*                                                                         *)
(* A document has at most one provider and some model routes; None is a key    *)
(* that it does not have. What is not migrated is left out.                    *)
(***************************************************************************)
EXTENDS Naturals

CONSTANTS
  None,
  Routes,      (* names of model routes                                        *)
  Harnesses

CurrentVersion == 13

VARIABLES
  written,     (* the document in the file                                     *)
  doc,         (* what it has become                                          *)
  at,          (* the version it has reached                                   *)
  outcome      (* what load answers, or None while it works                     *)

migrationVars == <<written, doc, at, outcome>>

-----------------------------------------------------------------------------
(* The documents that the versions of the application have written. Up to v3 routes   *)
(* were aliases, v1 kept the key of a provider inline and had no settings, up to v8    *)
(* "ollama" was a local server, up to v7 the settings remembered one model, from v7     *)
(* on one for each harness.                                                    *)
Choices == [Harnesses -> Routes \cup {None}]
Unset == ""                \* an empty preference
Chosen(v, harness, model, byHarness) ==
  [harness |-> harness, model |-> IF v <= 7 THEN model ELSE None,
   byHarness |-> IF v >= 7 THEN byHarness ELSE None]
SettingsOf(v) ==
  IF v = 1 THEN {None}
  ELSE {Chosen(v, h, m, b) : h \in Harnesses \cup {Unset}, m \in Routes \cup {None, Unset},
                             b \in Choices}
SdkOf(v) ==
  {[sdk |-> "openai", baseUrl |-> None, serverUrl |-> None]}
    \cup IF v <= 8
         THEN {[sdk |-> "ollama", baseUrl |-> u, serverUrl |-> None] : u \in {None, "host", "host/v1"}}
         ELSE {[sdk |-> "ollama", baseUrl |-> None, serverUrl |-> None],
               [sdk |-> "custom", baseUrl |-> None, serverUrl |-> "host/v1"]}
KeysOf(v) ==
  IF v = 1 THEN {[apiKey |-> b, secrets |-> None] : b \in BOOLEAN}
  ELSE {[apiKey |-> FALSE, secrets |-> s] : s \in {"empty", "references"}}
Documents(v) ==
  {[version   |-> v, sdk |-> k, key |-> a,
    aliases   |-> IF v <= 3 THEN r ELSE None,
    models    |-> IF v <= 3 THEN None ELSE r,
    profiles  |-> IF v \in 2..4 THEN p ELSE None,
    settings  |-> s] :
      k \in SdkOf(v), a \in KeysOf(v), r \in SUBSET Routes, p \in {None, "some"},
      s \in SettingsOf(v)}
(* A later version's, and one whose version is no number or before the first.            *)
Unknown == {[d EXCEPT !.version = v] : d \in Documents(CurrentVersion),
                                       v \in {0, CurrentVersion + 1, None}}

MigrationInit ==
  /\ written \in Unknown \cup UNION {Documents(v) : v \in 1..CurrentVersion}
  /\ doc = written /\ at = written.version /\ outcome = None

-----------------------------------------------------------------------------
(* v1 to v2: the inline key goes, references take its place; settings appear.            *)
DefaultSettings == [harness |-> Unset, model |-> None, byHarness |-> None]
V1ToV2(d) ==
  [d EXCEPT !.key = [apiKey |-> FALSE, secrets |-> "empty"],
            !.settings = IF @ = None THEN DefaultSettings ELSE @]
V2ToV3(d) == [d EXCEPT !.profiles = IF @ = None THEN "none" ELSE @]
V3KeepsAliases(d) ==                              \* mutant: the old key is not dropped
  [d EXCEPT !.models = IF d.aliases = None THEN {} ELSE d.aliases]
(* v3 to v4: each alias becomes a route by its name; profiles follow.                    *)
V3ToV4(d) == [d EXCEPT !.models = IF d.aliases = None THEN {} ELSE d.aliases, !.aliases = None,
                       !.profiles = IF @ = None THEN "none" ELSE @]
V4ToV5(d) == [d EXCEPT !.profiles = None]
(* Versions that only added keys with defaults.                                      *)
Stamped(d) == d

Remembers(s) == s.harness # Unset /\ s.model \notin {None, Unset}
ByHarness(s) == IF s.byHarness = None THEN [h \in Harnesses |-> None] ELSE s.byHarness
V7Forgets(d) ==                                   \* mutant: the remembered model is only dropped
  [d EXCEPT !.settings.model = None, !.settings.byHarness = ByHarness(d.settings)]
(* v7 to v8: the model remembered last becomes that of the harness launched last.          *)
V7ToV8(d) ==
  LET s == d.settings IN
  [d EXCEPT !.settings.model = None,
            !.settings.byHarness =
              IF Remembers(s) THEN [ByHarness(s) EXCEPT ![s.harness] = s.model] ELSE ByHarness(s)]

(* v8 to v9: a local ollama is a custom server now, under /v1.                          *)
ServerUrl(base) == IF base = None THEN "local/v1" ELSE "host/v1"
V8ToV9(d) ==
  IF d.sdk.sdk # "ollama" THEN d
  ELSE [d EXCEPT !.sdk = [sdk |-> "custom", baseUrl |-> None, serverUrl |-> ServerUrl(@.baseUrl)]]

Migrated(v, d) ==
  CASE v = 1 -> V1ToV2(d) [] v = 2 -> V2ToV3(d) [] v = 3 -> V3ToV4(d) [] v = 4 -> V4ToV5(d)
    [] v = 7 -> V7ToV8(d) [] v = 8 -> V8ToV9(d) [] OTHER -> Stamped(d)

(* ConfigSchema: strict, so nothing of an earlier version may be left; what has a          *)
(* default may be missing.                                                        *)
Valid(d) ==
  /\ ~d.key.apiKey /\ d.key.secrets # None
  /\ d.aliases = None /\ d.profiles = None /\ d.models # None
  /\ d.settings # None /\ d.settings.model = None

Refuses ==
  /\ outcome = None /\ at \notin 1..CurrentVersion
  /\ outcome' = "failed" /\ UNCHANGED <<written, doc, at>>
Migrates ==
  /\ outcome = None /\ at \in 1..(CurrentVersion - 1)
  /\ doc' = [Migrated(at, doc) EXCEPT !.version = at + 1]
  /\ at' = at + 1 /\ UNCHANGED <<written, outcome>>
Validates ==
  /\ outcome = None /\ at = CurrentVersion
  /\ outcome' = IF Valid(doc) THEN "loaded" ELSE "failed"
  /\ UNCHANGED <<written, doc, at>>

MigrationNext == Refuses \/ Migrates \/ Validates
MigrationSpec == MigrationInit /\ [][MigrationNext]_migrationVars

-----------------------------------------------------------------------------
MigrationTypeOK ==
  /\ outcome \in {None, "loaded", "failed"} /\ at \in 0..(CurrentVersion + 1) \cup {None}
  /\ doc.version = at

Supported(d) == d.version \in 1..CurrentVersion

(* Every document that a version has written can be read by this one, and no other.          *)
EarlierLoad ==
  outcome # None => (outcome = "loaded") = Supported(written)

(* What the user had chosen is still there: the routes, a server that answers, the model of   *)
(* each harness, and the secrets, but for the inline key of v1: it is dropped with nothing      *)
(* in its stead, though migrations.ts:25 has its reference "re-established later".             *)
Keyed(k) == k.apiKey \/ k.secrets = "references"
LastModel(s, h) ==
  IF Remembers(s) /\ s.harness = h THEN s.model ELSE ByHarness(s)[h]
OnlyV1LosesItsKey ==
  outcome = "loaded" =>
    /\ doc.models = IF written.version <= 3 THEN written.aliases ELSE written.models
    /\ Keyed(written.key) /\ ~Keyed(doc.key) => written.version = 1
    /\ written.version <= 8 /\ written.sdk.sdk = "ollama" =>
         doc.sdk.sdk = "custom" /\ doc.sdk.serverUrl # None
    /\ written.version >= 9 => doc.sdk = written.sdk
    /\ written.settings # None =>
         \A h \in Harnesses : ByHarness(doc.settings)[h] = LastModel(written.settings, h)

MigrationIsSound == EarlierLoad /\ OnlyV1LosesItsKey
=============================================================================

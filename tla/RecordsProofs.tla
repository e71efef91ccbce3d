---------------------------- MODULE RecordsProofs ----------------------------
(***************************************************************************)
(* Proofs about what the application keeps: documents of earlier versions, the     *)
(* library of sessions, the directories of its data and the configuration, as       *)
(* MCDesktop puts them side by side, for any bounds.  Each has an inductive          *)
(* invariant of its own, and the last section puts them together.                 *)
(***************************************************************************)
EXTENDS MCDesktop, Sequences, SequenceTheorems, TLAPS

-----------------------------------------------------------------------------
(***************************************************************************)
(* A document of an earlier version.                                          *)
(***************************************************************************)

Sdks == [sdk : {"openai", "ollama", "custom"}, baseUrl : {None, "host", "host/v1"},
         serverUrl : {None, "host/v1", "local/v1"}]
Keys == [apiKey : BOOLEAN, secrets : {None, "empty", "references"}]
Named == Harnesses \cup {Documents!Unset}
Remembered == Routes \cup {None, Documents!Unset}
Preferences == [harness : Named, model : Remembered, byHarness : Documents!Choices \cup {None}]
AnyDocument ==
  [version : Nat \cup {None}, sdk : Sdks, key : Keys, aliases : (SUBSET Routes) \cup {None},
   models : (SUBSET Routes) \cup {None}, profiles : {None, "none", "some"},
   settings : Preferences \cup {None}]

(* What a version may have written.                                             *)
AsWritten(d) ==
  LET v == d.version IN
  /\ v <= 3 => d.aliases \in SUBSET Routes /\ d.models = None
  /\ v > 3 => d.aliases = None /\ d.models \in SUBSET Routes
  /\ v > 4 => d.profiles = None
  /\ v = 1 => d.settings = None /\ d.key.secrets = None
  /\ v > 1 => ~d.key.apiKey /\ d.key.secrets # None /\ d.settings # None
  /\ v > 7 => d.settings.model = None

(* What the document has become, part by part, at the version it has reached.           *)
KeyNow == IF at > 1 /\ written.version = 1 THEN [apiKey |-> FALSE, secrets |-> "empty"]
          ELSE written.key
ModelsNow == IF at > 3 /\ written.version <= 3 THEN written.aliases ELSE written.models
SettingsBefore == IF at > 1 /\ written.settings = None THEN Documents!DefaultSettings
                  ELSE written.settings
SettingsNow(s) ==
  IF at > 7 /\ written.version <= 7
  THEN [s EXCEPT !.model = None,
                 !.byHarness = IF Documents!Remembers(s)
                               THEN [Documents!ByHarness(s) EXCEPT ![s.harness] = s.model]
                               ELSE Documents!ByHarness(s)]
  ELSE s
SdkNow ==
  IF at > 8 /\ written.version <= 8 /\ written.sdk.sdk = "ollama"
  THEN [sdk |-> "custom", baseUrl |-> None,
        serverUrl |-> Documents!ServerUrl(written.sdk.baseUrl)]
  ELSE written.sdk

BroughtForward ==
  /\ AsWritten(written)
  /\ at \in 1..Documents!CurrentVersion /\ written.version \in 1..at
  /\ doc.key = KeyNow
  /\ doc.aliases = IF at > 3 THEN None ELSE written.aliases
  /\ doc.models = ModelsNow
  /\ at > 4 => doc.profiles = None
  /\ doc.settings = SettingsNow(SettingsBefore)
  /\ doc.sdk = SdkNow

MigrationInv ==
  /\ written \in AnyDocument /\ doc \in AnyDocument /\ doc.version = at
  /\ at \in Nat \cup {None}
  /\ outcome \in {None, "loaded", "failed"}
  /\ IF Documents!Supported(written) THEN BroughtForward
     ELSE at \notin 1..Documents!CurrentVersion
  /\ Documents!EarlierLoad
  /\ outcome = "loaded" => at = Documents!CurrentVersion

(* None is apart from what it stands in for.                                   *)
LEMMA NoneApart ==
  /\ None # "host/v1" /\ None # "local/v1"
  /\ None # "loaded" /\ None # "failed" /\ None # "empty" /\ None # "references"
  /\ None \notin SUBSET Routes /\ None \notin Documents!Choices /\ None \notin Preferences
BY RecordsAssumption, Zenon DEF Preferences, Named, Remembered

(* Every version's documents are such.                                         *)
LEMMA WrittenAre ==
  ASSUME NEW v \in 1..Documents!CurrentVersion, NEW d \in Documents!Documents(v)
  PROVE  d \in AnyDocument /\ d.version = v /\ AsWritten(d)
<1>v. v \in Nat /\ v >= 1 /\ v <= 13
  BY DEF Documents!CurrentVersion
<1>1. PICK k \in Documents!SdkOf(v), a \in Documents!KeysOf(v), r \in SUBSET Routes,
           p \in {None, "some"}, s \in Documents!SettingsOf(v) :
        d = [version |-> v, sdk |-> k, key |-> a,
             aliases |-> IF v <= 3 THEN r ELSE None,
             models |-> IF v <= 3 THEN None ELSE r,
             profiles |-> IF v \in 2..4 THEN p ELSE None,
             settings |-> s]
  BY DEF Documents!Documents
<1>2. k \in Sdks
  <2>1. CASE v <= 8
    BY <2>1, <1>v DEF Documents!SdkOf, Sdks
  <2>2. CASE ~(v <= 8)
    BY <2>2, <1>v DEF Documents!SdkOf, Sdks
  <2> QED
    BY <2>1, <2>2
<1>3. a \in Keys /\ (v = 1 => a.secrets = None) /\ (v > 1 => ~a.apiKey /\ a.secrets # None)
  <2>1. CASE v = 1
    <3>1. PICK b \in BOOLEAN : a = [apiKey |-> b, secrets |-> None]
      BY <2>1 DEF Documents!KeysOf
    <3>2. a \in Keys
      BY <3>1 DEF Keys
    <3> QED
      BY <2>1, <3>1, <3>2
  <2>2. CASE v # 1
    <3>1. PICK e \in {"empty", "references"} : a = [apiKey |-> FALSE, secrets |-> e]
      BY <2>2, <1>v DEF Documents!KeysOf
    <3>2. e # None
      BY <3>1, NoneApart
    <3> QED
      BY <2>2, <3>1, <3>2 DEF Keys
  <2> QED
    BY <2>1, <2>2
<1>4. /\ v = 1 => s = None
      /\ v > 1 => s \in Preferences /\ s # None
      /\ v > 7 => s.model = None
      /\ s \in Preferences \cup {None}
  <2>1. CASE v = 1
    BY <2>1, <1>v DEF Documents!SettingsOf
  <2>2. CASE v # 1
    <3>1. PICK h, m, b : /\ s = Documents!Chosen(v, h, m, b)
                         /\ h \in Named /\ m \in Remembered /\ b \in Documents!Choices
      BY <2>2 DEF Documents!SettingsOf, Named, Remembered
    <3>n. None \in Remembered
      BY Zenon DEF Remembered
    <3>2. PICK mm \in Remembered, bb \in Documents!Choices \cup {None} :
            s = [harness |-> h, model |-> mm, byHarness |-> bb] /\ (v > 7 => mm = None)
      <4>1. CASE v <= 7 /\ v >= 7
        BY <3>1, <3>n, <4>1 DEF Documents!Chosen
      <4>2. CASE v <= 7 /\ ~(v >= 7)
        BY <3>1, <3>n, <4>2 DEF Documents!Chosen
      <4>3. CASE ~(v <= 7)
        <5>1. v >= 7
          BY <4>3, <1>v
        <5> QED
          BY <3>1, <3>n, <4>3, <5>1 DEF Documents!Chosen
      <4>4. v <= 7 /\ v >= 7 => ~(v > 7)
        BY <1>v
      <4>5. v <= 7 /\ ~(v >= 7) => ~(v > 7)
        BY <1>v
      <4> QED
        BY <4>1, <4>2, <4>3, <4>4, <4>5
    <3>3. s \in Preferences
      BY <3>1, <3>2 DEF Preferences
    <3>4. v > 7 => s.model = None
      BY <3>2
    <3>5. None \notin Preferences
      BY NoneApart
    <3> QED
      BY <2>2, <1>v, <3>3, <3>4, <3>5
  <2> QED
    BY <2>1, <2>2
<1>5. d.version = v /\ d.key = a /\ d.settings = s
  BY <1>1
<1>6. d \in AnyDocument
  <2>1. /\ (IF v <= 3 THEN r ELSE None) \in (SUBSET Routes) \cup {None}
        /\ (IF v <= 3 THEN None ELSE r) \in (SUBSET Routes) \cup {None}
        /\ (IF v \in 2..4 THEN p ELSE None) \in {None, "none", "some"}
    OBVIOUS
  <2> QED
    BY <1>1, <1>2, <1>3, <1>4, <1>v, <2>1 DEF AnyDocument
<1>7. AsWritten(d)
  BY <1>1, <1>3, <1>4, <1>5, <1>v DEF AsWritten
<1> QED
  BY <1>5, <1>6, <1>7

(* The versions that are not supported.                                        *)
LEMMA UnknownAre ==
  ASSUME NEW d \in Documents!Unknown
  PROVE  /\ d \in AnyDocument /\ d.version \in Nat \cup {None}
         /\ d.version \notin 1..Documents!CurrentVersion
<1>1. PICK e \in Documents!Documents(Documents!CurrentVersion),
           v \in {0, Documents!CurrentVersion + 1, None} : d = [e EXCEPT !.version = v]
  BY DEF Documents!Unknown
<1>2. e \in AnyDocument
  BY WrittenAre DEF Documents!CurrentVersion
<1>3. d \in AnyDocument /\ d.version = v
  BY <1>1, <1>2 DEF AnyDocument, Documents!CurrentVersion
<1>4. v \notin 1..Documents!CurrentVersion /\ v \in Nat \cup {None}
  <2>1. None \notin 1..13
    BY DesktopAssumption
  <2> QED
    BY <2>1 DEF Documents!CurrentVersion
<1> QED
  BY <1>3, <1>4

(* The invariant holds at the start.                                          *)
LEMMA MigrationInvInit == Documents!MigrationInit => MigrationInv
<1> SUFFICES ASSUME Documents!MigrationInit PROVE MigrationInv
  OBVIOUS
<1>0. doc = written /\ at = written.version /\ outcome = None /\ outcome # "loaded"
  BY NoneApart DEF Documents!MigrationInit
<1>1. CASE written \in Documents!Unknown
  <2>1. /\ written \in AnyDocument /\ written.version \in Nat \cup {None}
        /\ written.version \notin 1..Documents!CurrentVersion
    BY <1>1, UnknownAre
  <2> QED
    BY <1>0, <2>1 DEF MigrationInv, Documents!Supported, Documents!EarlierLoad
<1>2. ASSUME NEW v \in 1..Documents!CurrentVersion, written \in Documents!Documents(v)
      PROVE  MigrationInv
  <2>1. written \in AnyDocument /\ written.version = v /\ AsWritten(written)
    BY <1>2, WrittenAre
  <2>v. v \in Nat /\ v >= 1 /\ v <= 13
    BY DEF Documents!CurrentVersion
  <2>2. /\ KeyNow = written.key /\ ModelsNow = written.models
        /\ SettingsBefore = written.settings /\ SdkNow = written.sdk
    BY <2>1, <2>v, <1>0 DEF KeyNow, ModelsNow, SettingsBefore, SdkNow, AsWritten
  <2>3. SettingsNow(written.settings) = written.settings
    BY <2>1, <2>v, <1>0 DEF SettingsNow
  <2>4. /\ written.aliases = IF at > 3 THEN None ELSE written.aliases
        /\ at > 4 => written.profiles = None
    BY <2>1, <2>v, <1>0 DEF AsWritten
  <2>5. BroughtForward
    BY <2>1, <2>2, <2>3, <2>4, <2>v, <1>0 DEF BroughtForward, Documents!CurrentVersion
  <2> QED
    BY <2>1, <2>5, <2>v, <1>0 DEF MigrationInv, Documents!Supported,
       Documents!EarlierLoad, Documents!CurrentVersion
<1>3. \/ written \in Documents!Unknown
      \/ \E v \in 1..Documents!CurrentVersion : written \in Documents!Documents(v)
  BY DEF Documents!MigrationInit
<1> QED
  BY <1>1, <1>2, <1>3

(* The choices that a preference stands for.                                    *)
LEMMA ChoicesOf ==
  ASSUME NEW s \in Preferences
  PROVE  /\ Documents!ByHarness(s) \in Documents!Choices
         /\ Documents!Remembers(s) => s.harness \in Harnesses /\ s.model \in Routes
         /\ [Documents!ByHarness(s) EXCEPT ![s.harness] = s.model] \in Documents!Choices
              \/ ~Documents!Remembers(s)
<1>1. Documents!ByHarness(s) \in [Harnesses -> Routes \cup {None}]
  <2>1. CASE s.byHarness = None
    BY <2>1 DEF Documents!ByHarness
  <2>2. CASE s.byHarness # None
    BY <2>2 DEF Documents!ByHarness, Preferences, Documents!Choices
  <2> QED
    BY <2>1, <2>2
<1>2. Documents!Remembers(s) => s.harness \in Harnesses /\ s.model \in Routes
  BY DEF Documents!Remembers, Preferences, Named, Remembered
<1> QED
  BY <1>1, <1>2 DEF Documents!Choices

(* What becomes of the settings of a document at v7.                             *)
Moved(s) ==
  [s EXCEPT !.model = None,
            !.byHarness = IF Documents!Remembers(s)
                          THEN [Documents!ByHarness(s) EXCEPT ![s.harness] = s.model]
                          ELSE Documents!ByHarness(s)]

(* The settings of a later document are preferences too, and hold the same   *)
(* choices.                                                                  *)
LEMMA MovedIs ==
  ASSUME NEW s \in Preferences
  PROVE  /\ Moved(s) \in Preferences /\ Moved(s).model = None /\ Moved(s) # None
         /\ \A h \in Harnesses : Documents!ByHarness(Moved(s))[h] = Documents!LastModel(s, h)
<1> DEFINE b == IF Documents!Remembers(s)
                THEN [Documents!ByHarness(s) EXCEPT ![s.harness] = s.model]
                ELSE Documents!ByHarness(s)
<1>1. b \in Documents!Choices
  BY ChoicesOf
<1>2. Moved(s) = [s EXCEPT !.model = None, !.byHarness = b]
  BY DEF Moved
<1>3. \A h \in Harnesses : b[h] = Documents!LastModel(s, h)
  <2> SUFFICES ASSUME NEW h \in Harnesses PROVE b[h] = Documents!LastModel(s, h)
    OBVIOUS
  <2>1. CASE Documents!Remembers(s)
    <3>1. Documents!ByHarness(s) \in [Harnesses -> Routes \cup {None}]
      BY ChoicesOf DEF Documents!Choices
    <3> QED
      BY <2>1, <3>1, ChoicesOf DEF Documents!LastModel
  <2>2. CASE ~Documents!Remembers(s)
    BY <2>2 DEF Documents!LastModel
  <2> QED
    BY <2>1, <2>2
<1> HIDE DEF b
<1>4. None \in Remembered
  BY DEF Remembered
<1>5. /\ Moved(s) \in Preferences /\ Moved(s).model = None /\ Moved(s).byHarness = b
  BY <1>1, <1>2, <1>4 DEF Preferences
<1>6. Documents!ByHarness(Moved(s)) = b
  BY <1>1, <1>5, NoneApart DEF Documents!ByHarness
<1> QED
  BY <1>3, <1>5, <1>6, NoneApart

(* The steps from version to version, part by part.                               *)
Stepped(v, d, m) ==
  /\ DOMAIN m = DOMAIN d
  /\ v = 1 => m.key = [apiKey |-> FALSE, secrets |-> "empty"]
  /\ v # 1 => m.key = d.key
  /\ v = 3 => m.aliases = None
  /\ v # 3 => m.aliases = d.aliases
  /\ v = 3 => m.models = IF d.aliases = None THEN {} ELSE d.aliases
  /\ v # 3 => m.models = d.models
  /\ v = 4 => m.profiles = None
  /\ v > 4 => m.profiles = d.profiles
  /\ v = 1 => m.settings = IF d.settings = None THEN Documents!DefaultSettings ELSE d.settings
  /\ v = 7 /\ d.settings # None => m.settings = Moved(d.settings)
  /\ v \notin {1, 7} => m.settings = d.settings
  /\ v = 8 /\ d.sdk.sdk = "ollama" =>
       m.sdk = [sdk |-> "custom", baseUrl |-> None,
                serverUrl |-> Documents!ServerUrl(d.sdk.baseUrl)]
  /\ ~(v = 8 /\ d.sdk.sdk = "ollama") => m.sdk = d.sdk
  /\ (v = 7 => d.settings # None) => m \in AnyDocument

(* Each migration is one of these steps (migrations.ts).                     *)
LEMMA StepsAre ==
  ASSUME NEW d \in AnyDocument, NEW v \in 1..12
  PROVE  Stepped(v, d, Documents!Migrated(v, d))
<1>0. v \in Nat /\ v >= 1 /\ v <= 12
  OBVIOUS
<1>1. CASE v = 1
  <2> DEFINE k == [apiKey |-> FALSE, secrets |-> "empty"]
             s == IF d.settings = None THEN Documents!DefaultSettings ELSE d.settings
  <2>1. Documents!Migrated(v, d) = [d EXCEPT !.key = k, !.settings = s]
    BY <1>1 DEF Documents!Migrated, Documents!V1ToV2, AnyDocument
  <2>2. k \in Keys
    BY DEF Keys
  <2>3. s \in Preferences \cup {None}
    BY DEF Documents!DefaultSettings, Preferences, Named, Remembered, AnyDocument
  <2> HIDE DEF k, s
  <2>4. Documents!Migrated(v, d).key = k /\ Documents!Migrated(v, d).settings = s
    BY <2>1 DEF AnyDocument
  <2>5. /\ DOMAIN Documents!Migrated(v, d) = DOMAIN d /\ Documents!Migrated(v, d) \in AnyDocument
        /\ Documents!Migrated(v, d).aliases = d.aliases
        /\ Documents!Migrated(v, d).models = d.models
        /\ Documents!Migrated(v, d).sdk = d.sdk
    BY <2>1, <2>2, <2>3 DEF AnyDocument
  <2> QED
    BY <1>1, <2>4, <2>5 DEF k, s, Stepped
<1>2. CASE v = 2
  <2> DEFINE p == IF d.profiles = None THEN "none" ELSE d.profiles
  <2>1. Documents!Migrated(v, d) = [d EXCEPT !.profiles = p]
    BY <1>2 DEF Documents!Migrated, Documents!V2ToV3, AnyDocument
  <2>2. p \in {None, "none", "some"}
    BY DEF AnyDocument
  <2> HIDE DEF p
  <2> QED
    BY <1>2, <2>1, <2>2 DEF AnyDocument, Stepped
<1>3. CASE v = 3
  <2> DEFINE p == IF d.profiles = None THEN "none" ELSE d.profiles
             r == IF d.aliases = None THEN {} ELSE d.aliases
  <2>1. Documents!Migrated(v, d) = [d EXCEPT !.models = r, !.aliases = None, !.profiles = p]
    BY <1>3 DEF Documents!Migrated, Documents!V3ToV4, AnyDocument
  <2>2. p \in {None, "none", "some"} /\ r \in SUBSET Routes
    BY DEF AnyDocument
  <2> HIDE DEF p, r
  <2>3. Documents!Migrated(v, d).models = r
    BY <2>1 DEF AnyDocument
  <2>4. /\ DOMAIN Documents!Migrated(v, d) = DOMAIN d /\ Documents!Migrated(v, d) \in AnyDocument
        /\ Documents!Migrated(v, d).aliases = None
        /\ Documents!Migrated(v, d).key = d.key
        /\ Documents!Migrated(v, d).settings = d.settings
        /\ Documents!Migrated(v, d).sdk = d.sdk
    BY <2>1, <2>2 DEF AnyDocument
  <2> QED
    BY <1>3, <2>3, <2>4 DEF r, Stepped
<1>4. CASE v = 4
  <2>1. Documents!Migrated(v, d) = [d EXCEPT !.profiles = None]
    BY <1>4 DEF Documents!Migrated, Documents!V4ToV5
  <2> QED
    BY <1>4, <2>1 DEF AnyDocument, Stepped
<1>7. CASE v = 7
  <2> DEFINE m == Documents!Migrated(v, d)
             b == IF Documents!Remembers(d.settings)
                  THEN [Documents!ByHarness(d.settings) EXCEPT ![d.settings.harness] = d.settings.model]
                  ELSE Documents!ByHarness(d.settings)
  <2>1. m = [d EXCEPT !.settings.model = None, !.settings.byHarness = b]
    BY <1>7 DEF Documents!Migrated, Documents!V7ToV8
  <2>4. Moved(d.settings) = [d.settings EXCEPT !.model = None, !.byHarness = b]
    BY DEF Moved
  <2> HIDE DEF b, m
  <2>2. /\ DOMAIN m = DOMAIN d /\ m.key = d.key /\ m.aliases = d.aliases /\ m.models = d.models
        /\ m.profiles = d.profiles /\ m.sdk = d.sdk /\ m.version = d.version
    BY <2>1 DEF AnyDocument
  <2>3. ASSUME d.settings # None PROVE m.settings = Moved(d.settings) /\ m \in AnyDocument
    <3>1. d.settings \in Preferences
      BY <2>3 DEF AnyDocument
    <3>2. m.settings = Moved(d.settings)
      BY <2>1, <2>4, <3>1 DEF AnyDocument, Preferences
    <3>3. Moved(d.settings) \in Preferences
      BY <3>1, MovedIs
    <3>4. m = [d EXCEPT !.settings = Moved(d.settings)]
      BY <2>1, <3>2 DEF AnyDocument
    <3> QED
      BY <3>2, <3>3, <3>4 DEF AnyDocument
  <2>5. Stepped(v, d, m)
    BY <1>7, <2>2, <2>3 DEF Stepped
  <2> QED
    BY <2>5 DEF m
<1>8. CASE v = 8
  <2>1. CASE d.sdk.sdk # "ollama"
    <3>1. Documents!Migrated(v, d) = d
      BY <1>8, <2>1 DEF Documents!Migrated, Documents!V8ToV9
    <3> QED
      BY <1>8, <2>1, <3>1 DEF Stepped
  <2>2. CASE d.sdk.sdk = "ollama"
    <3> DEFINE k == [sdk |-> "custom", baseUrl |-> None,
                     serverUrl |-> Documents!ServerUrl(d.sdk.baseUrl)]
    <3>1. Documents!Migrated(v, d) = [d EXCEPT !.sdk = k]
      BY <1>8, <2>2 DEF Documents!Migrated, Documents!V8ToV9, AnyDocument
    <3>2. k \in Sdks
      BY DEF Documents!ServerUrl, Sdks
    <3> HIDE DEF k
    <3>3. Documents!Migrated(v, d).sdk = k
      BY <3>1 DEF AnyDocument
    <3> DEFINE m == Documents!Migrated(v, d)
    <3> HIDE DEF m
    <3>5. Stepped(v, d, m)
      BY <1>8, <2>2, <3>1, <3>2, <3>3 DEF Stepped, k, m, AnyDocument
    <3> QED
      BY <3>5 DEF m
  <2> QED
    BY <2>1, <2>2
<1>9. CASE v \notin {1, 2, 3, 4, 7, 8}
  <2>1. Documents!Migrated(v, d) = d
    BY <1>9 DEF Documents!Migrated, Documents!Stamped
  <2> QED
    BY <1>9, <2>1 DEF Stepped
<1> QED
  BY <1>1, <1>2, <1>3, <1>4, <1>7, <1>8, <1>9

(* The invariant is kept by every step.                                         *)
LEMMA MigrationInvInductive ==
  MigrationInv /\ [Documents!MigrationNext]_migrationVars => MigrationInv'
<1> SUFFICES ASSUME MigrationInv, [Documents!MigrationNext]_migrationVars
             PROVE  MigrationInv'
  OBVIOUS
<1>0. Documents!Supported(written) => BroughtForward /\ at \in 1..13
  BY DEF MigrationInv, BroughtForward, Documents!CurrentVersion
<1>1. CASE Documents!Refuses
  <2>1. at \notin 1..Documents!CurrentVersion /\ ~Documents!Supported(written)
    BY <1>0, <1>1 DEF Documents!Refuses, Documents!CurrentVersion
  <2>2. /\ written' = written /\ doc' = doc /\ at' = at /\ outcome' = "failed"
    BY <1>1 DEF Documents!Refuses
  <2>3. MigrationInv' <=>
          /\ written \in AnyDocument /\ doc \in AnyDocument /\ doc.version = at
          /\ at \in Nat \cup {None} /\ "failed" \in {None, "loaded", "failed"}
          /\ (IF Documents!Supported(written) THEN BroughtForward'
              ELSE at \notin 1..Documents!CurrentVersion)
          /\ Documents!EarlierLoad' /\ ("failed" = "loaded" => at = Documents!CurrentVersion)
    BY <2>2 DEF MigrationInv, Documents!Supported
  <2>4. Documents!EarlierLoad'
    BY <2>1, <2>2 DEF Documents!EarlierLoad, Documents!Supported
  <2> QED
    BY <2>1, <2>3, <2>4 DEF MigrationInv
<1>2. CASE Documents!Migrates
  <2>0. /\ at \in 1..12 /\ outcome = None /\ at' = at + 1 /\ written' = written /\ outcome' = None
        /\ doc' = [Documents!Migrated(at, doc) EXCEPT !.version = at + 1]
    BY <1>2 DEF Documents!Migrates, Documents!CurrentVersion
  <2>1. Documents!Supported(written) /\ BroughtForward
    BY <2>0 DEF MigrationInv, Documents!CurrentVersion
  <2>w. /\ written \in AnyDocument /\ doc \in AnyDocument /\ doc.version = at
        /\ written.version \in 1..at /\ AsWritten(written)
        /\ written.settings \in Preferences \cup {None}
    BY <2>1 DEF MigrationInv, BroughtForward, AnyDocument
  <2>v. /\ at \in Nat /\ at >= 1 /\ at <= 12 /\ written.version \in Nat
        /\ written.version >= 1 /\ written.version <= at /\ at' \in 1..13 /\ at' > 1
        /\ written.version \in 1..at'
    BY <2>0, <2>w
  <2>d. Documents!DefaultSettings \in Preferences
    BY DEF Documents!DefaultSettings, Preferences, Named, Remembered
  <2>b. at > 1 => SettingsBefore \in Preferences
    BY <2>w, <2>d, <2>v DEF SettingsBefore
  <2>n. SettingsNow(SettingsBefore) =
          IF at > 7 /\ written.version <= 7 THEN Moved(SettingsBefore) ELSE SettingsBefore
    BY DEF SettingsNow, Moved
  <2>7. at = 7 => doc.settings = SettingsBefore /\ doc.settings \in Preferences
                  /\ doc.settings # None
    BY <2>1, <2>b, <2>n, <2>v, NoneApart DEF BroughtForward
  <2>s. Stepped(at, doc, Documents!Migrated(at, doc))
    BY <2>0, <2>w, StepsAre
  <2> DEFINE m == Documents!Migrated(at, doc)
  <2>m. m \in AnyDocument
    BY <2>7, <2>s DEF Stepped
  <2>2. /\ doc' \in AnyDocument /\ doc'.version = at'
        /\ doc'.key = m.key /\ doc'.aliases = m.aliases /\ doc'.models = m.models
        /\ doc'.profiles = m.profiles /\ doc'.settings = m.settings /\ doc'.sdk = m.sdk
    <3> HIDE DEF m
    <3> QED
      BY <2>0, <2>m, <2>v DEF AnyDocument, m
  <2> HIDE DEF m
  <2>st. Stepped(at, doc, m)
    BY <2>s DEF m
  <2>3. doc'.key = KeyNow'
    BY <2>0, <2>1, <2>2, <2>st, <2>v, <2>w DEF Stepped, KeyNow, BroughtForward, AsWritten
  <2>4. doc'.aliases = IF at' > 3 THEN None ELSE written'.aliases
    BY <2>0, <2>1, <2>2, <2>st, <2>v DEF Stepped, BroughtForward
  <2>5. doc'.models = ModelsNow'
    <3>1. CASE at = 3
      <4>1. doc.aliases = written.aliases /\ written.aliases # None
        BY <2>1, <2>v, <2>w, <3>1, NoneApart DEF BroughtForward, AsWritten
      <4> QED
        BY <2>0, <2>2, <2>st, <2>v, <3>1, <4>1 DEF Stepped, ModelsNow
    <3>2. CASE at # 3
      BY <2>0, <2>1, <2>2, <2>st, <2>v, <3>2 DEF Stepped, BroughtForward, ModelsNow
    <3> QED
      BY <3>1, <3>2
  <2>6. at' > 4 => doc'.profiles = None
    BY <2>0, <2>1, <2>2, <2>st, <2>v DEF Stepped, BroughtForward
  <2>8. doc'.settings = SettingsNow(SettingsBefore)'
    <3>1. SettingsNow(SettingsBefore)' =
            IF at' > 7 /\ written.version <= 7 THEN Moved(SettingsBefore') ELSE SettingsBefore'
      BY <2>0 DEF SettingsNow, Moved
    <3>2. CASE at = 1
      <4>1. doc.settings = written.settings
        BY <2>1, <2>n, <2>v, <3>2 DEF BroughtForward, SettingsBefore
      <4>2. SettingsBefore' = IF written.settings = None THEN Documents!DefaultSettings
                                                         ELSE written.settings
        BY <2>0, <2>v DEF SettingsBefore
      <4> QED
        BY <2>0, <2>2, <2>st, <2>v, <3>1, <3>2, <4>1, <4>2 DEF Stepped
    <3>3. at # 1 => SettingsBefore' = SettingsBefore
      BY <2>0, <2>v DEF SettingsBefore
    <3>4. CASE at = 7
      BY <2>0, <2>2, <2>7, <2>st, <2>v, <3>1, <3>3, <3>4 DEF Stepped
    <3>5. CASE at \notin {1, 7}
      BY <2>0, <2>1, <2>2, <2>n, <2>st, <2>v, <3>1, <3>3, <3>5 DEF Stepped, BroughtForward
    <3> QED
      BY <3>2, <3>4, <3>5
  <2>9. doc'.sdk = SdkNow'
    BY <2>0, <2>1, <2>2, <2>st, <2>v DEF Stepped, BroughtForward, SdkNow
  <2>10. BroughtForward'
    BY <2>0, <2>v, <2>w, <2>3, <2>4, <2>5, <2>6, <2>8, <2>9
       DEF BroughtForward, AsWritten, Documents!CurrentVersion
  <2> QED
    BY <2>0, <2>1, <2>2, <2>v, <2>w, <2>10, NoneApart
       DEF MigrationInv, Documents!Supported, Documents!EarlierLoad, Documents!CurrentVersion
<1>3. CASE Documents!Validates
  <2>0. /\ at = 13 /\ outcome' = (IF Documents!Valid(doc) THEN "loaded" ELSE "failed")
        /\ written' = written /\ doc' = doc /\ at' = at
    BY <1>3 DEF Documents!Validates, Documents!CurrentVersion
  <2>1. Documents!Supported(written) /\ BroughtForward
    BY <2>0 DEF MigrationInv, Documents!CurrentVersion
  <2>2. BroughtForward'
    BY <2>0, <2>1 DEF BroughtForward, AsWritten, KeyNow, ModelsNow, SettingsBefore, SettingsNow,
       SdkNow
  <2>w. /\ written \in AnyDocument /\ written.version \in Nat /\ written.version >= 1
        /\ AsWritten(written) /\ written.settings \in Preferences \cup {None}
    BY <2>0, <2>1 DEF MigrationInv, BroughtForward, AnyDocument
  <2>3. ~doc.key.apiKey /\ doc.key.secrets # None
    <3>1. CASE written.version = 1
      BY <2>0, <2>1, <3>1, NoneApart DEF BroughtForward, KeyNow
    <3>2. CASE written.version # 1
      BY <2>0, <2>1, <2>w, <3>2 DEF BroughtForward, KeyNow, AsWritten
    <3> QED
      BY <3>1, <3>2
  <2>4. doc.aliases = None /\ doc.profiles = None /\ doc.models # None
    BY <2>0, <2>1, <2>w, NoneApart DEF BroughtForward, ModelsNow, AsWritten
  <2>5. doc.settings # None /\ doc.settings.model = None
    <3>1. SettingsBefore \in Preferences
      BY <2>0, <2>w DEF SettingsBefore, Documents!DefaultSettings, Preferences, Named, Remembered
    <3>2. doc.settings = IF written.version <= 7 THEN Moved(SettingsBefore) ELSE SettingsBefore
      BY <2>0, <2>1 DEF BroughtForward, SettingsNow, Moved
    <3>3. CASE written.version <= 7
      BY <3>1, <3>2, <3>3, MovedIs
    <3>4. CASE ~(written.version <= 7)
      BY <2>w, <3>1, <3>2, <3>4, NoneApart DEF AsWritten, SettingsBefore
    <3> QED
      BY <3>3, <3>4
  <2>6. outcome' = "loaded"
    BY <2>0, <2>3, <2>4, <2>5 DEF Documents!Valid
  <2> QED
    BY <2>0, <2>1, <2>2, <2>6
       DEF MigrationInv, Documents!Supported, Documents!EarlierLoad, Documents!CurrentVersion
<1>4. CASE UNCHANGED migrationVars
  BY <1>4 DEF migrationVars, MigrationInv, BroughtForward, AsWritten, KeyNow, ModelsNow,
     SettingsBefore, SettingsNow, SdkNow, Documents!Supported, Documents!EarlierLoad
<1> QED
  BY <1>1, <1>2, <1>3, <1>4 DEF Documents!MigrationNext

(* And what it says is what a document of an earlier version is owed.                    *)
LEMMA MigrationInvSound == MigrationInv => Documents!MigrationIsSound
<1> SUFFICES ASSUME MigrationInv PROVE Documents!MigrationIsSound
  OBVIOUS
<1>1. Documents!EarlierLoad
  BY DEF MigrationInv
<1>2. ASSUME outcome = "loaded" PROVE Documents!OnlyV1LosesItsKey
  <2>0. at = 13 /\ BroughtForward /\ written \in AnyDocument
    BY <1>2 DEF MigrationInv, Documents!CurrentVersion
  <2>w. /\ written.version \in Nat /\ written.version >= 1 /\ AsWritten(written)
        /\ written.settings \in Preferences \cup {None}
    BY <2>0 DEF BroughtForward, AnyDocument
  <2>1. doc.models = IF written.version <= 3 THEN written.aliases ELSE written.models
    BY <2>0 DEF BroughtForward, ModelsNow
  <2>2. Documents!Keyed(written.key) /\ ~Documents!Keyed(doc.key) => written.version = 1
    BY <2>0, <2>w DEF BroughtForward, KeyNow
  <2>3. written.version <= 8 /\ written.sdk.sdk = "ollama" =>
          doc.sdk.sdk = "custom" /\ doc.sdk.serverUrl # None
    BY <2>0, <2>w, NoneApart DEF BroughtForward, SdkNow, Documents!ServerUrl
  <2>4. written.version >= 9 => doc.sdk = written.sdk
    BY <2>0, <2>w DEF BroughtForward, SdkNow
  <2>5. ASSUME written.settings # None, NEW h \in Harnesses
        PROVE  Documents!ByHarness(doc.settings)[h] = Documents!LastModel(written.settings, h)
    <3>1. SettingsBefore = written.settings /\ written.settings \in Preferences
      BY <2>5, <2>w DEF SettingsBefore
    <3>2. doc.settings = IF written.version <= 7 THEN Moved(written.settings)
                         ELSE written.settings
      BY <2>0, <3>1 DEF BroughtForward, SettingsNow, Moved
    <3>3. CASE written.version <= 7
      BY <3>1, <3>2, <3>3, MovedIs
    <3>4. CASE ~(written.version <= 7)
      <4>1. ~Documents!Remembers(written.settings)
        BY <2>w, <3>4 DEF AsWritten, Documents!Remembers
      <4> QED
        BY <3>2, <3>4, <4>1 DEF Documents!LastModel
    <3> QED
      BY <3>3, <3>4
  <2> QED
    BY <2>1, <2>2, <2>3, <2>4, <2>5 DEF Documents!OnlyV1LosesItsKey
<1> QED
  BY <1>1, <1>2 DEF Documents!MigrationIsSound, Documents!OnlyV1LosesItsKey
-----------------------------------------------------------------------------
(***************************************************************************)
(* The library of sessions.                                                   *)
(***************************************************************************)

LibraryTypes ==
  /\ rows \in [Library!SessionIds -> {"none", "open", "ended"}]
  /\ title \in [Library!SessionIds -> Library!Titles \cup {None}]
  /\ run \in [Library!SessionIds -> {"none", "live", "resuming"}]
  /\ hadName \in [Library!SessionIds -> BOOLEAN]
  /\ nameSource \in [Library!SessionIds -> {"unset", "none", "auto", "user"}]
  /\ refinement \in [Library!SessionIds -> {"none", "asked", "aborted"}]
  /\ project \in BOOLEAN /\ listsCrossed \in BOOLEAN
  /\ launches \in Nat /\ launches <= MaxSessions

(* A session that the user named is known as such by the manager, or will be when it is   *)
(* resumed; and a model is asked for a name only for a run that goes on.               *)
NamesHeld ==
  /\ named \subseteq 1..launches
  /\ \A s \in named \ overtaken :
       /\ title[s] = "user" /\ nameSource[s] \in {"unset", "user"}
       /\ run[s] = "live" => nameSource[s] = "user"
       /\ run[s] = "resuming" => hadName[s]
  /\ \A s \in Library!SessionIds :
       /\ run[s] = "live" => nameSource[s] # "unset"
       /\ refinement[s] = "asked" => run[s] = "live"
  /\ lateNames = {}

(* What is on its way to the window brings its page to what the rows say.                 *)
Last(i) == \A j \in (i + 1)..Len(frames) : frames[j][1] # frames[i][1]
Coming(s) ==
  \/ \E i \in 1..Len(frames) : frames[i][1] = s
  \/ Library!Reply("renamed", {Library!Row(s, "user")}) \in replies
FramesFollow ==
  \A i \in 1..Len(frames) :
    Last(i) /\ rows[frames[i][1]] # "none" => frames[i][2] = title[frames[i][1]]
RepliesFollow ==
  \A r \in replies :
    /\ r.kind = "sessions" => r.page = Library!Query
    /\ r.kind = "renamed" =>
         \E s \in Library!SessionIds :
           /\ r = Library!Reply("renamed", {Library!Row(s, "user")})
           /\ rows[s] # "none" /\ title[s] = "user"
PageFollows ==
  /\ \A s \in Library!SessionIds : rows[s] # "none" <=> \E x \in sessionPage : x.id = s
  /\ \A x \in sessionPage :
       /\ x.id \in Library!SessionIds /\ x = Library!Row(x.id, x.name)
       /\ x.name = title[x.id] \/ Coming(x.id)
PagesHeld ==
  /\ frames \in Seq((1..launches) \X Library!Titles)
  /\ \A s \in Library!SessionIds : rows[s] # "none" => project /\ s \in 1..launches
  /\ ~listsCrossed => FramesFollow /\ RepliesFollow
  /\ ~listsCrossed /\ ~untold /\ sessionPage # None /\ (\A r \in replies : r.kind # "done") =>
       PageFollows

LibraryInv == LibraryTypes /\ NamesHeld /\ PagesHeld

(* A session that has no row yet has no run, and nobody has named it.                       *)
Unlaunched ==
  \A s \in Library!SessionIds : s \notin 1..launches => run[s] = "none" /\ nameSource[s] = "unset"

(* The bound is a number, and None is apart from a name's source.            *)
LEMMA LibraryBounds == MaxSessions \in Nat /\ None # "user"
BY RecordsAssumption, Zenon

(* The invariant holds at the start, and is what the library promises.                 *)
LEMMA LibraryInvInit == Library!LibraryInit => LibraryInv /\ Unlaunched
<1> SUFFICES ASSUME Library!LibraryInit PROVE LibraryInv /\ Unlaunched
  OBVIOUS
<1> USE DEF Library!LibraryInit
<1>1. LibraryTypes
  <2>1. launches \in Nat /\ launches <= MaxSessions
    BY LibraryBounds
  <2>2. /\ rows \in [Library!SessionIds -> {"none", "open", "ended"}]
        /\ title \in [Library!SessionIds -> Library!Titles \cup {None}]
        /\ run \in [Library!SessionIds -> {"none", "live", "resuming"}]
    OBVIOUS
  <2>3. /\ nameSource \in [Library!SessionIds -> {"unset", "none", "auto", "user"}]
        /\ refinement \in [Library!SessionIds -> {"none", "asked", "aborted"}]
    OBVIOUS
  <2>4. hadName \in [Library!SessionIds -> BOOLEAN] /\ project \in BOOLEAN /\ listsCrossed \in BOOLEAN
    OBVIOUS
  <2> QED
    BY <2>1, <2>2, <2>3, <2>4 DEF LibraryTypes
<1>2. NamesHeld
  BY DEF NamesHeld
<1>3. PagesHeld
  BY DEF PagesHeld, FramesFollow, RepliesFollow
<1>4. Unlaunched
  BY DEF Unlaunched
<1> QED
  BY <1>1, <1>2, <1>3, <1>4 DEF LibraryInv

(* What the invariant says is what the library promises.                     *)
LEMMA LibraryInvSound == LibraryInv => Library!LibraryIsSound
<1> SUFFICES ASSUME LibraryInv PROVE Library!LibraryIsSound
  OBVIOUS
<1>1. Library!UserNameSticks /\ Library!NoLateName
  BY DEF LibraryInv, NamesHeld, Library!UserNameSticks, Library!NoLateName
<1>2. Library!Listed # {} => project
  BY DEF LibraryInv, PagesHeld, Library!Listed
<1>3. ASSUME replies = {}, frames = <<>>, sessionPage # None, ~listsCrossed, ~untold
      PROVE  sessionPage = Library!Query
  <2>1. PageFollows
    BY <1>3 DEF LibraryInv, PagesHeld
  <2>2. \A s : ~Coming(s)
    BY <1>3 DEF Coming
  <2>3. ASSUME NEW x \in sessionPage PROVE x \in Library!Query
    BY <2>1, <2>2 DEF PageFollows, Library!Query, Library!Listed
  <2>4. ASSUME NEW x \in Library!Query PROVE x \in sessionPage
    <3>1. PICK s \in Library!SessionIds : rows[s] # "none" /\ x = Library!Row(s, title[s])
      BY <2>4 DEF Library!Query, Library!Listed
    <3>2. PICK y \in sessionPage : y.id = s
      BY <2>1, <3>1 DEF PageFollows
    <3> QED
      BY <2>1, <2>2, <3>1, <3>2 DEF PageFollows
  <2>5. \A x : x \in sessionPage <=> x \in Library!Query
    BY <2>3, <2>4
  <2>6. sessionPage = {Library!Row(x.id, x.name) : x \in sessionPage}
    BY <2>1 DEF PageFollows
  <2> QED
    BY <2>5, <2>6 DEF Library!Query
<1> QED
  BY <1>1, <1>2, <1>3 DEF Library!LibraryIsSound, Library!ListsAreCurrent

(* What a list carries depends on the rows and the names only.                          *)
LEMMA QueryStays ==
  ASSUME title' = title,
         \A s \in Library!SessionIds : rows'[s] # "none" <=> rows[s] # "none"
  PROVE  Library!Query' = Library!Query
<1>1. Library!Listed' = Library!Listed
  BY DEF Library!Listed
<1> QED
  BY <1>1 DEF Library!Query

(* A step that changes neither the names nor what is on its way.                          *)
LEMMA PagesStay ==
  ASSUME LibraryTypes, PagesHeld,
         \A s \in Library!SessionIds : rows'[s] # "none" <=> rows[s] # "none",
         UNCHANGED <<title, frames, replies, sessionPage, launches, listsCrossed, project, untold>>
  PROVE  PagesHeld'
<1>1. Library!Query' = Library!Query
  BY QueryStays
<1>2. \A i : Last(i)' = Last(i)
  BY DEF Last
<1>3. \A s : Coming(s)' = Coming(s)
  BY DEF Coming, Library!Reply, Library!Row
<1>4. FramesFollow => FramesFollow'
  <2> SUFFICES ASSUME FramesFollow, NEW i \in 1..Len(frames), Last(i), rows'[frames[i][1]] # "none"
               PROVE  frames[i][2] = title[frames[i][1]]
    BY <1>2 DEF FramesFollow
  <2>1. frames[i] \in (1..launches) \X Library!Titles
    BY DEF PagesHeld
  <2>2. frames[i][1] \in Library!SessionIds
    BY <2>1, LibraryBounds DEF LibraryTypes, Library!SessionIds
  <2> QED
    BY <2>2 DEF FramesFollow
<1>5. RepliesFollow => RepliesFollow'
  BY <1>1 DEF RepliesFollow, Library!Reply, Library!Row
<1>6. PageFollows => PageFollows'
  BY <1>3 DEF PageFollows, Library!Row
<1> QED
  BY <1>4, <1>5, <1>6 DEF PagesHeld

(* The manager names a session whose row is there: the row and the frames agree again.       *)
LEMMA NamesAre ==
  ASSUME LibraryTypes, PagesHeld, NEW s \in Library!SessionIds, NEW by \in Library!Titles, NEW then,
         rows[s] # "none", Library!Names(s, by, then),
         UNCHANGED <<rows, replies, sessionPage, launches, project, untold>>
  PROVE  PagesHeld'
<1>0. /\ title' = [title EXCEPT ![s] = by] /\ frames' = Append(frames, <<s, by>>)
      /\ listsCrossed' = (listsCrossed \/ \E r \in replies : r.kind \in {"sessions", "renamed"})
  BY DEF Library!Names, Library!Changed
<1>1. frames' \in Seq((1..launches) \X Library!Titles)
  BY <1>0 DEF PagesHeld
<1>l. /\ Len(frames) \in Nat /\ Len(frames') = Len(frames) + 1
      /\ \A i \in 1..Len(frames) : frames'[i] = frames[i]
      /\ frames'[Len(frames) + 1] = <<s, by>>
      /\ \A i \in 1..Len(frames) : frames[i] \in (1..launches) \X Library!Titles
  BY <1>0 DEF PagesHeld
<1> DEFINE n == Len(frames)
<1> HIDE DEF n
<1>m. /\ n \in Nat /\ Len(frames') = n + 1 /\ Len(frames) = n
      /\ \A i \in 1..n : frames'[i] = frames[i]
      /\ frames'[n + 1] = <<s, by>>
      /\ \A i \in 1..n : frames[i][1] \in Library!SessionIds
  <2>1. \A i \in 1..launches : i \in Library!SessionIds
    BY LibraryBounds DEF LibraryTypes, Library!SessionIds
  <2> QED
    BY <1>l, <2>1 DEF n
<1>2. ASSUME ~listsCrossed' PROVE FramesFollow'
  <2> SUFFICES ASSUME NEW i \in 1..(n + 1), Last(i)', rows[frames'[i][1]] # "none"
               PROVE  frames'[i][2] = title'[frames'[i][1]]
    BY <1>m DEF FramesFollow
  <2>1. CASE i = n + 1
    BY <1>0, <1>m, <2>1 DEF LibraryTypes
  <2>2. CASE i # n + 1
    <3>1. i \in 1..n
      BY <1>m, <2>2
    <3>2. frames'[n + 1][1] # frames'[i][1]
      BY <1>m, <3>1 DEF Last
    <3>3. frames[i][1] # s
      BY <1>m, <3>1, <3>2
    <3>4. Last(i)
      <4> SUFFICES ASSUME NEW j \in (i + 1)..n PROVE frames[j][1] # frames[i][1]
        BY <1>m DEF Last
      <4>1. j \in (i + 1)..(n + 1) /\ j \in 1..n
        BY <1>m, <3>1
      <4> QED
        BY <1>m, <3>1, <4>1 DEF Last
    <3>5. FramesFollow
      BY <1>0, <1>2 DEF PagesHeld
    <3>6. frames[i][2] = title[frames[i][1]]
      BY <1>m, <3>1, <3>4, <3>5 DEF FramesFollow
    <3> QED
      BY <1>0, <1>m, <3>1, <3>3, <3>6 DEF LibraryTypes
  <2> QED
    BY <2>1, <2>2
<1>3. ASSUME ~listsCrossed' PROVE RepliesFollow'
  BY <1>0, <1>3 DEF RepliesFollow
<1>4. ASSUME ~listsCrossed', PageFollows PROVE PageFollows'
  <2>1. \A x : Coming(x) => Coming(x)'
    <3> SUFFICES ASSUME NEW x, NEW i \in 1..n, frames[i][1] = x PROVE \E j \in 1..(n + 1) : frames'[j][1] = x
      BY <1>m DEF Coming, Library!Reply, Library!Row
    <3> QED
      BY <1>m
  <2>2. Coming(s)'
    BY <1>m DEF Coming
  <2>3. \A x \in Library!SessionIds : x # s => title'[x] = title[x]
    BY <1>0 DEF LibraryTypes
  <2> QED
    BY <1>4, <2>1, <2>2, <2>3 DEF PageFollows, Library!Row
<1> QED
  BY <1>0, <1>1, <1>2, <1>3, <1>4 DEF PagesHeld

(* Rows that are deleted: everything is asked for again.                                *)
LEMMA DeletesAre ==
  ASSUME LibraryTypes, NamesHeld, PagesHeld, NEW ss \in SUBSET Library!SessionIds,
         NEW whole \in BOOLEAN, whole => ss = Library!Listed, Library!Deletes(ss, whole)
  PROVE  LibraryTypes' /\ NamesHeld' /\ PagesHeld'
<1>0. /\ rows' = [s \in Library!SessionIds |-> IF s \in ss THEN "none" ELSE rows[s]]
      /\ title' = [s \in Library!SessionIds |-> IF s \in ss THEN None ELSE title[s]]
      /\ project' = (project /\ ~whole) /\ named' = named \ ss
      /\ replies' = replies \cup {Library!Reply("done", {})}
      /\ listsCrossed' = (listsCrossed \/ \E r \in replies : r.kind \in {"sessions", "renamed"})
      /\ UNCHANGED <<run, nameSource, refinement, hadName, projects, sessionPage, frames, launches,
                     overtaken, lateNames, untold>>
  BY DEF Library!Deletes, Library!Changed, Library!naming, Library!lists
<1>1. LibraryTypes'
  <2>1. project' \in BOOLEAN /\ listsCrossed' \in BOOLEAN
    BY <1>0 DEF LibraryTypes
  <2> QED
    BY <1>0, <2>1 DEF LibraryTypes
<1>2. NamesHeld'
  <2>1. \A s \in named : s \in Library!SessionIds
    BY LibraryBounds DEF LibraryTypes, NamesHeld, Library!SessionIds
  <2> QED
    BY <1>0, <2>1 DEF NamesHeld
<1>3. \A i : Last(i)' = Last(i)
  BY <1>0 DEF Last
<1>d. Library!Reply("done", {}) \in replies' /\ Library!Reply("done", {}).kind = "done"
  BY <1>0 DEF Library!Reply
<1>4. ASSUME ~listsCrossed' PROVE FramesFollow' /\ RepliesFollow'
  <2>1. FramesFollow
    BY <1>0, <1>4 DEF PagesHeld
  <2>2. RepliesFollow'
    BY <1>0, <1>4, <1>d DEF RepliesFollow
  <2>3. FramesFollow'
    <3> SUFFICES ASSUME NEW i \in 1..Len(frames), Last(i), rows'[frames[i][1]] # "none"
                 PROVE  frames[i][2] = title'[frames[i][1]]
      BY <1>0, <1>3 DEF FramesFollow
    <3>1. frames[i] \in (1..launches) \X Library!Titles
      BY DEF PagesHeld
    <3>2. frames[i][1] \in Library!SessionIds
      BY <3>1, LibraryBounds DEF LibraryTypes, Library!SessionIds
    <3> QED
      BY <1>0, <2>1, <3>2 DEF FramesFollow
  <2> QED
    BY <2>2, <2>3
<1>5. \A s \in Library!SessionIds : rows'[s] # "none" => project' /\ s \in 1..launches'
  BY <1>0 DEF PagesHeld, Library!Listed
<1>6. frames' \in Seq((1..launches') \X Library!Titles)
  BY <1>0 DEF PagesHeld
<1>7. PagesHeld'
  BY <1>4, <1>5, <1>6, <1>d DEF PagesHeld
<1> QED
  BY <1>1, <1>2, <1>7

(* The invariant is kept by every step.  A row that is made belongs to a run, of which the     *)
(* window hears, or to none it hears of.                                        *)
Begun(s, byUser) ==
  /\ run' = [run EXCEPT ![s] = "live"]
  /\ nameSource' = [nameSource EXCEPT ![s] = IF byUser THEN "user" ELSE "none"]
  /\ replies' = replies \cup {Library!Reply("done", {})}
Unbegun == UNCHANGED <<run, nameSource, replies>> /\ untold' = TRUE

LEMMA RowsAreMade ==
  ASSUME LibraryInv, Unlaunched, NEW byUser \in BOOLEAN, NEW as \in {"open", "ended"},
         Library!NewRow(launches + 1, byUser, as), Begun(launches + 1, byUser) \/ Unbegun,
         UNCHANGED <<refinement, hadName, sessionPage, frames, overtaken, lateNames>>
  PROVE  LibraryInv'
<1> DEFINE s == launches + 1
<1>s. s \in Library!SessionIds /\ s \notin 1..launches /\ launches \in Nat
  BY LibraryBounds DEF LibraryInv, LibraryTypes, Library!SessionIds, Library!NewRow
<1>0. /\ launches' = s /\ rows' = [rows EXCEPT ![s] = as]
      /\ title' = [title EXCEPT ![s] = IF byUser THEN "user" ELSE None]
      /\ named' = (IF byUser THEN named \cup {s} ELSE named)
      /\ project' = TRUE
      /\ listsCrossed' = (listsCrossed \/ \E r \in replies : r.kind \in {"sessions", "renamed"})
  BY DEF Library!NewRow, Library!Changed
<1>m. launches < MaxSessions
  BY DEF Library!NewRow
<1>b. Begun(s, byUser) \/ Unbegun
  OBVIOUS
<1> HIDE DEF s
<1>u. run[s] = "none" /\ nameSource[s] = "unset"
  BY <1>s DEF Unlaunched
<1>r. /\ run' \in [Library!SessionIds -> {"none", "live", "resuming"}]
      /\ nameSource' \in [Library!SessionIds -> {"unset", "none", "auto", "user"}]
      /\ \A x \in Library!SessionIds : x # s => run'[x] = run[x] /\ nameSource'[x] = nameSource[x]
      /\ byUser => nameSource'[s] \in {"unset", "user"} /\ run'[s] # "resuming"
                   /\ (run'[s] = "live" => nameSource'[s] = "user")
      /\ run'[s] = "live" => nameSource'[s] # "unset"
  <2>1. CASE Begun(s, byUser)
    BY <1>s, <2>1 DEF LibraryInv, LibraryTypes, Begun
  <2>2. CASE Unbegun
    BY <1>u, <2>2 DEF LibraryInv, LibraryTypes, Unbegun
  <2> QED
    BY <1>b, <2>1, <2>2
<1>p. /\ \A r \in replies' : r \in replies \/ r.kind = "done"
      /\ untold' \/ \E r \in replies' : r.kind = "done"
  <2>1. CASE Begun(s, byUser)
    <3>1. Library!Reply("done", {}).kind = "done"
      BY DEF Library!Reply
    <3> QED
      BY <2>1, <3>1 DEF Begun
  <2>2. CASE Unbegun
    BY <2>2 DEF Unbegun
  <2> QED
    BY <1>b, <2>1, <2>2
<1>1. LibraryTypes'
  <2>1. launches' \in Nat /\ launches' <= MaxSessions
    BY <1>0, <1>m, <1>s, LibraryBounds DEF s
  <2>2. title' \in [Library!SessionIds -> Library!Titles \cup {None}]
    BY <1>0, <1>s DEF LibraryInv, LibraryTypes, Library!Titles
  <2>3. rows' \in [Library!SessionIds -> {"none", "open", "ended"}]
    BY <1>0, <1>s DEF LibraryInv, LibraryTypes
  <2>5. project' \in BOOLEAN /\ listsCrossed' \in BOOLEAN
    BY <1>0 DEF LibraryInv, LibraryTypes
  <2> QED
    BY <1>0, <1>r, <2>1, <2>2, <2>3, <2>5 DEF LibraryInv, LibraryTypes
<1>2. NamesHeld'
  <2>1. named' \subseteq 1..launches'
    <3>1. \A x \in 1..launches : x \in 1..launches'
      BY <1>0, <1>s DEF s
    <3>2. s \in 1..launches'
      BY <1>0, <1>s DEF s
    <3> QED
      BY <1>0, <3>1, <3>2 DEF LibraryInv, NamesHeld
  <2>2. ASSUME NEW x \in named' \ overtaken'
        PROVE  /\ title'[x] = "user" /\ nameSource'[x] \in {"unset", "user"}
               /\ run'[x] = "live" => nameSource'[x] = "user"
               /\ run'[x] = "resuming" => hadName'[x]
    <3>1. CASE x = s
      <4>1. byUser
        BY <1>0, <1>s, <3>1 DEF LibraryInv, NamesHeld
      <4>2. title'[s] = "user"
        BY <1>0, <1>s, <4>1 DEF LibraryInv, LibraryTypes
      <4> QED
        BY <1>r, <3>1, <4>1, <4>2
    <3>2. CASE x # s
      <4>1. x \in named \ overtaken /\ x \in Library!SessionIds
        BY <1>0, <1>s, <2>2, <3>2, LibraryBounds DEF LibraryInv, LibraryTypes, NamesHeld, Library!SessionIds
      <4>2. title'[x] = title[x]
        BY <1>0, <3>2, <4>1 DEF LibraryInv, LibraryTypes
      <4> QED
        BY <1>r, <3>2, <4>1, <4>2 DEF LibraryInv, NamesHeld
    <3> QED
      BY <3>1, <3>2
  <2>3. \A x \in Library!SessionIds :
          /\ run'[x] = "live" => nameSource'[x] # "unset"
          /\ refinement'[x] = "asked" => run'[x] = "live"
    BY <1>r, <1>u DEF LibraryInv, LibraryTypes, NamesHeld
  <2> QED
    BY <1>0, <2>1, <2>2, <2>3 DEF LibraryInv, NamesHeld
<1>3. \A i : Last(i)' = Last(i)
  BY DEF Last
<1>i. /\ \A i \in 1..Len(frames) : frames[i][1] \in 1..launches /\ frames[i][1] \in Library!SessionIds
      /\ frames' \in Seq((1..launches') \X Library!Titles)
  <2>1. \A x \in 1..launches : x \in 1..launches' /\ x \in Library!SessionIds
    BY <1>0, <1>s, LibraryBounds DEF LibraryInv, LibraryTypes, Library!SessionIds, s
  <2>2. \A i \in 1..Len(frames) : frames[i] \in (1..launches) \X Library!Titles
    BY DEF LibraryInv, PagesHeld
  <2>3. \A i \in 1..Len(frames) : frames[i] \in (1..launches') \X Library!Titles
    BY <2>1, <2>2
  <2>4. frames \in Seq((1..launches') \X Library!Titles)
    <3>1. frames = [i \in 1..Len(frames) |-> frames[i]] /\ Len(frames) \in Nat
      BY DEF LibraryInv, PagesHeld
    <3> QED
      BY <2>3, <3>1
  <2> QED
    BY <1>0, <2>1, <2>2, <2>4
<1>4. ASSUME ~listsCrossed' PROVE FramesFollow' /\ RepliesFollow'
  <2>1. FramesFollow
    BY <1>0, <1>4 DEF LibraryInv, PagesHeld
  <2>2. RepliesFollow'
    BY <1>0, <1>4, <1>p DEF RepliesFollow
  <2>3. \A i \in 1..Len(frames) : frames[i][1] # s
    BY <1>i, <1>s
  <2>4. FramesFollow'
    <3> SUFFICES ASSUME NEW i \in 1..Len(frames), Last(i), rows'[frames[i][1]] # "none"
                 PROVE  frames[i][2] = title'[frames[i][1]]
      BY <1>0, <1>3 DEF FramesFollow
    <3> QED
      BY <1>0, <1>i, <2>1, <2>3 DEF FramesFollow, LibraryInv, LibraryTypes
  <2> QED
    BY <2>2, <2>4
<1>5. \A x \in Library!SessionIds : rows'[x] # "none" => project' /\ x \in 1..launches'
  <2>1. \A x \in 1..launches : x \in 1..launches'
    BY <1>0, <1>s DEF s
  <2>2. s \in 1..launches'
    BY <1>0, <1>s DEF s
  <2> QED
    BY <1>0, <1>s, <2>1, <2>2 DEF LibraryInv, LibraryTypes, PagesHeld
<1>6. PagesHeld'
  BY <1>4, <1>5, <1>p, <1>i DEF PagesHeld
<1> QED
  BY <1>1, <1>2, <1>6 DEF LibraryInv

(* What the manager does, and the command line.                                   *)
LEMMA LibraryLaunches ==
  ASSUME LibraryInv, Unlaunched, NEW byUser \in BOOLEAN,
         \/ Library!Launches(byUser) \/ Library!LaunchRefused(byUser)
         \/ Library!CommandLaunches(byUser)
  PROVE  LibraryInv'
<1>1. CASE Library!Launches(byUser)
  <2>1. /\ Library!NewRow(launches + 1, byUser, "open") /\ Begun(launches + 1, byUser)
        /\ UNCHANGED <<refinement, hadName, sessionPage, frames, overtaken, lateNames>>
    BY <1>1 DEF Library!Launches, Begun, Library!lists
  <2> QED
    BY <2>1, RowsAreMade
<1>2. ASSUME NEW as \in {"open", "ended"}, Library!NewRow(launches + 1, byUser, as), untold' = TRUE,
             UNCHANGED <<run, nameSource, refinement, hadName, sessionPage, replies, frames,
                         overtaken, lateNames>>
      PROVE  LibraryInv'
  BY <1>2, RowsAreMade DEF Unbegun
<1>3. CASE Library!LaunchRefused(byUser)
  BY <1>2, <1>3 DEF Library!LaunchRefused, Library!naming, Library!lists, Library!wires
<1>4. CASE Library!CommandLaunches(byUser)
  BY <1>2, <1>4 DEF Library!CommandLaunches, Library!naming, Library!lists, Library!wires
<1> QED
  BY <1>1, <1>3, <1>4

(* A name of the manager's own, for a session of which nobody knows a name of the user's. *)
LEMMA LibraryNames ==
  ASSUME LibraryInv, NEW s \in Library!SessionIds, NEW by \in Library!Titles,
         NEW then \in {"none", "asked", "aborted"}, Library!Names(s, by, then),
         UNCHANGED <<project, rows, run, hadName, replies, sessionPage, launches, overtaken,
                     lateNames, untold>>,
         nameSource[s] # "user", run[s] = "live" \/ nameSource[s] = "auto",
         then = "asked" => run[s] = "live"
  PROVE  LibraryInv'
<1>1. CASE rows[s] = "none"
  <2>1. UNCHANGED <<title, frames, nameSource, refinement, listsCrossed, named>>
    BY <1>1 DEF Library!Names
  <2>2. LibraryTypes' /\ NamesHeld'
    BY <2>1 DEF LibraryInv, LibraryTypes, NamesHeld
  <2>3. PagesHeld'
    BY <2>1, PagesStay DEF LibraryInv
  <2> QED
    BY <2>2, <2>3 DEF LibraryInv
<1>2. CASE rows[s] # "none"
  <2>0. /\ title' = [title EXCEPT ![s] = by] /\ nameSource' = [nameSource EXCEPT ![s] = "auto"]
        /\ refinement' = [refinement EXCEPT ![s] = then] /\ named' = named
        /\ listsCrossed' \in BOOLEAN
    BY <1>2 DEF Library!Names, Library!Changed, LibraryInv, LibraryTypes
  <2>1. LibraryTypes'
    BY <2>0 DEF LibraryInv, LibraryTypes
  <2>2. NamesHeld'
    <3>1. s \notin named \ overtaken
      BY DEF LibraryInv, NamesHeld
    <3>2. \A x \in named : x \in Library!SessionIds
      BY LibraryBounds DEF LibraryInv, LibraryTypes, NamesHeld, Library!SessionIds
    <3>3. \A x \in Library!SessionIds :
            /\ run'[x] = "live" => nameSource'[x] # "unset"
            /\ refinement'[x] = "asked" => run'[x] = "live"
      BY <2>0 DEF LibraryInv, LibraryTypes, NamesHeld
    <3> QED
      BY <2>0, <3>1, <3>2, <3>3 DEF LibraryInv, LibraryTypes, NamesHeld
  <2>3. PagesHeld'
    BY <1>2, NamesAre DEF LibraryInv
  <2> QED
    BY <2>1, <2>2, <2>3 DEF LibraryInv
<1> QED
  BY <1>1, <1>2

(* A session runs: a turn, its names, a resume and the end.                  *)
LEMMA LibraryRuns ==
  ASSUME LibraryInv, NEW s \in Library!SessionIds, NEW b \in BOOLEAN,
         \/ Library!UserTurn(s, b) \/ Library!Refines(s, b) \/ Library!ResumeStarts(s, b)
         \/ Library!HarnessTitle(s) \/ Library!RunEnds(s) \/ Library!ResumeReads(s)
  PROVE  LibraryInv'
<1>0. /\ "first" \in Library!Titles /\ "harness" \in Library!Titles /\ "ai" \in Library!Titles
      /\ refinement[s] \in {"none", "asked", "aborted"}
  BY DEF Library!Titles, LibraryInv, LibraryTypes
<1>n. \A x \in named : x \in Library!SessionIds
  BY LibraryBounds DEF LibraryInv, LibraryTypes, NamesHeld, Library!SessionIds
<1>1. CASE Library!UserTurn(s, b)
  <2> DEFINE then == IF b THEN "asked" ELSE refinement[s]
  <2>1. /\ run[s] = "live" /\ nameSource[s] = "none" /\ Library!Names(s, "first", then)
        /\ UNCHANGED <<project, rows, run, hadName, replies, sessionPage, launches, overtaken,
                       lateNames, untold>>
    BY <1>1 DEF Library!UserTurn, Library!lists, Library!bounds
  <2>2. then \in {"none", "asked", "aborted"}
    BY <1>0
  <2> HIDE DEF then
  <2> QED
    BY <1>0, <2>1, <2>2, LibraryNames
<1>2. CASE Library!HarnessTitle(s)
  <2>1. /\ run[s] = "live" /\ nameSource[s] # "user" /\ Library!Names(s, "harness", refinement[s])
        /\ UNCHANGED <<project, rows, run, hadName, replies, sessionPage, launches, overtaken,
                       lateNames, untold>>
    BY <1>2 DEF Library!HarnessTitle, Library!lists, Library!bounds
  <2> QED
    BY <1>0, <2>1, LibraryNames
<1>3. CASE Library!Refines(s, b)
  <2>0. UNCHANGED <<project, rows, run, hadName, replies, sessionPage, launches, overtaken, untold>>
    BY <1>3 DEF Library!Refines, Library!lists, Library!bounds
  <2>1. CASE b /\ refinement[s] = "asked" /\ nameSource[s] = "auto" /\ rows[s] # "none"
    <3>1. run[s] = "live"
      BY <2>1 DEF LibraryInv, NamesHeld
    <3>2. Library!Names(s, "ai", "none") /\ lateNames' = lateNames
      BY <1>3, <2>1, <3>1 DEF Library!Refines
    <3> QED
      BY <1>0, <2>0, <2>1, <3>1, <3>2, LibraryNames
  <2>2. CASE ~(b /\ refinement[s] = "asked" /\ nameSource[s] = "auto" /\ rows[s] # "none")
    <3>1. /\ refinement' = [refinement EXCEPT ![s] = "none"]
          /\ UNCHANGED <<title, frames, nameSource, named, listsCrossed, lateNames>>
      BY <1>3, <2>2, Zenon DEF Library!Refines
    <3>2. LibraryTypes' /\ NamesHeld'
      BY <2>0, <3>1 DEF LibraryInv, LibraryTypes, NamesHeld
    <3>3. PagesHeld'
      BY <2>0, <3>1, PagesStay DEF LibraryInv
    <3> QED
      BY <3>2, <3>3 DEF LibraryInv
  <2> QED
    BY <2>1, <2>2
<1>4. CASE Library!RunEnds(s)
  <2>0. /\ run' = [run EXCEPT ![s] = "none"]
        /\ rows' = [rows EXCEPT ![s] = IF rows[s] = "none" THEN rows[s] ELSE "ended"]
        /\ refinement' = [refinement EXCEPT ![s] = IF refinement[s] = "none" THEN refinement[s]
                                                   ELSE "aborted"]
        /\ UNCHANGED <<project, title, nameSource, hadName, sessionPage, replies, frames, launches,
                       named, overtaken, lateNames, listsCrossed, untold>>
    BY <1>4 DEF Library!RunEnds, Library!Aborts, Library!lists, Library!wires, Library!bounds,
       Library!libraryHistory, LibraryInv, LibraryTypes
  <2>1. LibraryTypes'
    BY <2>0 DEF LibraryInv, LibraryTypes
  <2>2. NamesHeld'
    BY <1>n, <2>0 DEF LibraryInv, LibraryTypes, NamesHeld
  <2>3. PagesHeld'
    <3>1. \A x \in Library!SessionIds : rows'[x] # "none" <=> rows[x] # "none"
      BY <2>0 DEF LibraryInv, LibraryTypes
    <3> QED
      BY <2>0, <3>1, PagesStay DEF LibraryInv
  <2> QED
    BY <2>1, <2>2, <2>3 DEF LibraryInv
<1>5. CASE Library!ResumeReads(s)
  <2>0. /\ run' = [run EXCEPT ![s] = "resuming"] /\ run[s] = "none" /\ rows[s] # "none"
        /\ rows' = [rows EXCEPT ![s] = "open"]
        /\ hadName' = [hadName EXCEPT ![s] = title[s] # None]
        /\ UNCHANGED <<project, title, nameSource, refinement, sessionPage, replies, frames, launches,
                       named, overtaken, lateNames, listsCrossed, untold>>
    BY <1>5 DEF Library!ResumeReads, Library!lists, Library!wires, Library!libraryHistory
  <2>1. LibraryTypes'
    <3>1. (title[s] # None) \in BOOLEAN
      OBVIOUS
    <3>2. hadName' \in [Library!SessionIds -> BOOLEAN]
      BY <2>0, <3>1 DEF LibraryInv, LibraryTypes
    <3> QED
      BY <2>0, <3>2 DEF LibraryInv, LibraryTypes
  <2>2. NamesHeld'
    <3>1. title[s] = "user" => hadName'[s] = TRUE
      BY <2>0, LibraryBounds DEF LibraryInv, LibraryTypes
    <3>2. \A x \in Library!SessionIds : x # s => hadName'[x] = hadName[x]
      BY <2>0 DEF LibraryInv, LibraryTypes
    <3> QED
      BY <1>n, <2>0, <3>1, <3>2 DEF LibraryInv, LibraryTypes, NamesHeld
  <2>3. PagesHeld'
    <3>1. \A x \in Library!SessionIds : rows'[x] # "none" <=> rows[x] # "none"
      BY <2>0 DEF LibraryInv, LibraryTypes
    <3> QED
      BY <2>0, <3>1, PagesStay DEF LibraryInv
  <2> QED
    BY <2>1, <2>2, <2>3 DEF LibraryInv
<1>6. CASE Library!ResumeStarts(s, b)
  <2>0. /\ run[s] = "resuming"
        /\ hadName' = [hadName EXCEPT ![s] = FALSE]
        /\ UNCHANGED <<project, title, sessionPage, replies, frames, launches,
                       named, overtaken, lateNames, listsCrossed, untold>>
    BY <1>6 DEF Library!ResumeStarts, Library!lists, Library!wires, Library!bounds,
       Library!libraryHistory
  <2>1. CASE b
    <3>0. /\ run' = [run EXCEPT ![s] = "live"]
          /\ nameSource' = [nameSource EXCEPT ![s] = IF hadName[s] THEN "user" ELSE "none"]
          /\ UNCHANGED <<rows, refinement>>
      BY <1>6, <2>1 DEF Library!ResumeStarts
    <3>1. LibraryTypes'
      BY <2>0, <3>0 DEF LibraryInv, LibraryTypes
    <3>2. NamesHeld'
      BY <1>n, <2>0, <3>0 DEF LibraryInv, LibraryTypes, NamesHeld
    <3>3. PagesHeld'
      BY <2>0, <3>0, PagesStay DEF LibraryInv
    <3> QED
      BY <3>1, <3>2, <3>3 DEF LibraryInv
  <2>2. CASE ~b
    <3>0. /\ run' = [run EXCEPT ![s] = "none"] /\ nameSource' = nameSource
          /\ rows' = [rows EXCEPT ![s] = IF rows[s] = "none" THEN rows[s] ELSE "ended"]
          /\ refinement' = [refinement EXCEPT ![s] = IF refinement[s] = "none" THEN refinement[s]
                                                     ELSE "aborted"]
      BY <1>6, <2>2 DEF Library!ResumeStarts, Library!Aborts, LibraryInv, LibraryTypes
    <3>1. LibraryTypes'
      BY <2>0, <3>0 DEF LibraryInv, LibraryTypes
    <3>2. NamesHeld'
      BY <1>n, <2>0, <3>0 DEF LibraryInv, LibraryTypes, NamesHeld
    <3>3. PagesHeld'
      <4>1. \A x \in Library!SessionIds : rows'[x] # "none" <=> rows[x] # "none"
        BY <3>0 DEF LibraryInv, LibraryTypes
      <4> QED
        BY <2>0, <4>1, PagesStay DEF LibraryInv
    <3> QED
      BY <3>1, <3>2, <3>3 DEF LibraryInv
  <2> QED
    BY <2>1, <2>2
<1> QED
  BY <1>1, <1>2, <1>3, <1>4, <1>5, <1>6

(* And what the window does.                                                      *)
LEMMA LibraryAsks ==
  ASSUME LibraryInv, Library!AsksProjects \/ Library!AsksSessions
  PROVE  LibraryInv'
<1>0. /\ UNCHANGED <<project, rows, title, run, nameSource, refinement, hadName, sessionPage,
                     frames, launches, named, overtaken, lateNames, listsCrossed, untold>>
      /\ \/ replies' = replies \cup {Library!Reply("projects", {})}
         \/ replies' = replies \cup {Library!Reply("sessions", Library!Query)}
  BY DEF Library!AsksProjects, Library!AsksSessions, Library!records, Library!naming,
     Library!lists, Library!libraryHistory
<1>1. LibraryTypes' /\ NamesHeld'
  BY <1>0 DEF LibraryInv, LibraryTypes, NamesHeld
<1>2. Library!Query' = Library!Query
  BY <1>0, QueryStays
<1>3. \A i : Last(i)' = Last(i)
  BY <1>0 DEF Last
<1>4. FramesFollow => FramesFollow'
  BY <1>0, <1>3 DEF FramesFollow
<1>r. \A r \in replies' : \/ r \in replies
                          \/ r.kind = "projects"
                          \/ r.kind = "sessions" /\ r.page = Library!Query
  BY <1>0 DEF Library!Reply
<1>5. RepliesFollow => RepliesFollow'
  <2> SUFFICES ASSUME RepliesFollow, NEW r \in replies'
               PROVE  /\ r.kind = "sessions" => r.page = Library!Query
                      /\ r.kind = "renamed" =>
                           \E s \in Library!SessionIds :
                             /\ r = Library!Reply("renamed", {Library!Row(s, "user")})
                             /\ rows[s] # "none" /\ title[s] = "user"
    BY <1>0, <1>2 DEF RepliesFollow, Library!Reply, Library!Row
  <2> QED
    BY <1>r DEF RepliesFollow
<1>6. \A s : Coming(s) => Coming(s)'
  BY <1>0 DEF Coming, Library!Reply, Library!Row
<1>7. PageFollows => PageFollows'
  BY <1>0, <1>6 DEF PageFollows, Library!Row
<1>8. (\A r \in replies' : r.kind # "done") => \A r \in replies : r.kind # "done"
  BY <1>0
<1>9. PagesHeld'
  BY <1>0, <1>4, <1>5, <1>7, <1>8 DEF LibraryInv, PagesHeld
<1> QED
  BY <1>1, <1>9 DEF LibraryInv

(* The user renames a session.                                               *)
LEMMA LibraryRenames ==
  ASSUME LibraryInv, NEW s \in Library!SessionIds, Library!UserRenames(s)
  PROVE  LibraryInv'
<1>0. UNCHANGED <<project, rows, run, refinement, hadName, sessionPage, frames, launches, lateNames,
                  untold>>
  BY DEF Library!UserRenames, Library!lists
<1>1. CASE rows[s] = "none"
  <2>0. UNCHANGED <<title, nameSource, replies, named, overtaken, listsCrossed, untold>>
    BY <1>1 DEF Library!UserRenames
  <2>1. LibraryTypes' /\ NamesHeld'
    BY <1>0, <2>0 DEF LibraryInv, LibraryTypes, NamesHeld
  <2>2. PagesHeld'
    BY <1>0, <2>0, PagesStay DEF LibraryInv
  <2> QED
    BY <2>1, <2>2 DEF LibraryInv
<1>2. CASE rows[s] # "none"
  <2>0. /\ title' = [title EXCEPT ![s] = "user"]
        /\ nameSource' = (IF nameSource[s] = "unset" THEN nameSource
                          ELSE [nameSource EXCEPT ![s] = "user"])
        /\ replies' = replies \cup {Library!Reply("renamed", {Library!Row(s, "user")})}
        /\ named' = named \cup {s}
        /\ overtaken' = (IF run[s] = "resuming" /\ ~hadName[s] THEN overtaken \cup {s}
                         ELSE overtaken)
        /\ listsCrossed' = (listsCrossed \/ frames # <<>>
                              \/ \E r \in replies : r.kind = "sessions")
    BY <1>2 DEF Library!UserRenames
  <2>s. s \in 1..launches
    BY <1>2 DEF LibraryInv, PagesHeld
  <2>n. \A x \in named : x \in Library!SessionIds
    BY LibraryBounds DEF LibraryInv, LibraryTypes, NamesHeld, Library!SessionIds
  <2>1. LibraryTypes'
    <3>1. listsCrossed' \in BOOLEAN
      BY <2>0 DEF LibraryInv, LibraryTypes
    <3>2. /\ title' \in [Library!SessionIds -> Library!Titles \cup {None}]
          /\ nameSource' \in [Library!SessionIds -> {"unset", "none", "auto", "user"}]
      BY <2>0 DEF LibraryInv, LibraryTypes, Library!Titles
    <3> QED
      BY <1>0, <3>1, <3>2 DEF LibraryInv, LibraryTypes
  <2>2. NamesHeld'
    <3>1. named' \subseteq 1..launches'
      BY <1>0, <2>0, <2>s DEF LibraryInv, NamesHeld
    <3>2. \A x \in Library!SessionIds : x # s => nameSource'[x] = nameSource[x]
      BY <2>0 DEF LibraryInv, LibraryTypes
    <3>3. nameSource'[s] = IF nameSource[s] = "unset" THEN "unset" ELSE "user"
      BY <2>0 DEF LibraryInv, LibraryTypes
    <3>4. \A x \in named' \ overtaken' : x # s => x \in named \ overtaken
      BY <2>0
    <3>5. \A x \in Library!SessionIds : x # s => title'[x] = title[x]
      BY <2>0 DEF LibraryInv, LibraryTypes
    <3>6. title'[s] = "user"
      BY <2>0 DEF LibraryInv, LibraryTypes
    <3>7. s \notin overtaken' => (run[s] = "resuming" => hadName[s])
      BY <2>0
    <3>8. ASSUME NEW x \in named' \ overtaken'
          PROVE  /\ title'[x] = "user" /\ nameSource'[x] \in {"unset", "user"}
                 /\ run[x] = "live" => nameSource'[x] = "user"
                 /\ run[x] = "resuming" => hadName[x]
      <4>1. CASE x = s
        BY <3>3, <3>6, <3>7, <3>8, <4>1 DEF LibraryInv, NamesHeld
      <4>2. CASE x # s
        BY <2>n, <3>2, <3>4, <3>5, <3>8, <4>2 DEF LibraryInv, NamesHeld
      <4> QED
        BY <4>1, <4>2
    <3>9. \A x \in Library!SessionIds : run[x] = "live" => nameSource'[x] # "unset"
      BY <3>2, <3>3 DEF LibraryInv, NamesHeld
    <3> QED
      BY <1>0, <3>1, <3>8, <3>9 DEF LibraryInv, NamesHeld
  <2>3. PagesHeld'
    <3>1. ASSUME ~listsCrossed'
          PROVE  FramesFollow' /\ RepliesFollow'
      <4>1. frames' = <<>>
        BY <1>0, <2>0, <3>1
      <4>2. FramesFollow'
        BY <4>1 DEF FramesFollow
      <4>3. RepliesFollow
        BY <2>0, <3>1 DEF LibraryInv, PagesHeld
      <4>4. \A r \in replies : r.kind # "sessions"
        BY <2>0, <3>1
      <4> DEFINE new == Library!Reply("renamed", {Library!Row(s, "user")})
      <4>5. new.kind = "renamed"
        BY DEF Library!Reply
      <4>6. \A x \in Library!SessionIds : title[x] = "user" => title'[x] = "user"
        BY <2>0 DEF LibraryInv, LibraryTypes
      <4>7. title'[s] = "user"
        BY <2>0 DEF LibraryInv, LibraryTypes
      <4>8. RepliesFollow'
        <5> SUFFICES ASSUME NEW r \in replies'
                     PROVE  /\ r.kind # "sessions"
                            /\ r.kind = "renamed" =>
                                 \E x \in Library!SessionIds :
                                   /\ r = Library!Reply("renamed", {Library!Row(x, "user")})
                                   /\ rows[x] # "none" /\ title'[x] = "user"
          BY <1>0 DEF RepliesFollow, Library!Reply, Library!Row
        <5>1. CASE r = new
          <6>1. r = Library!Reply("renamed", {Library!Row(s, "user")})
            BY <5>1
          <6> HIDE DEF new
          <6> QED
            BY <1>2, <4>5, <4>7, <5>1, <6>1
        <5>2. CASE r \in replies
          BY <4>3, <4>4, <4>6, <5>2 DEF RepliesFollow
        <5> QED
          BY <2>0, <5>1, <5>2
      <4> QED
        BY <4>2, <4>8
    <3>2. ASSUME PageFollows PROVE PageFollows'
      <4>1. \A x : Coming(x) => Coming(x)'
        BY <1>0, <2>0 DEF Coming, Library!Reply, Library!Row
      <4>2. Coming(s)'
        BY <2>0 DEF Coming, Library!Reply, Library!Row
      <4>3. \A x \in Library!SessionIds : x # s => title'[x] = title[x]
        BY <2>0 DEF LibraryInv, LibraryTypes
      <4> QED
        BY <1>0, <3>2, <4>1, <4>2, <4>3 DEF PageFollows, Library!Row
    <3>3. (\A r \in replies' : r.kind # "done") => \A r \in replies : r.kind # "done"
      BY <2>0
    <3>4. ~listsCrossed' => ~listsCrossed
      BY <2>0
    <3> QED
      BY <1>0, <3>1, <3>2, <3>3, <3>4 DEF LibraryInv, PagesHeld
  <2> QED
    BY <2>1, <2>2, <2>3 DEF LibraryInv
<1> QED
  BY <1>1, <1>2

(* The user deletes a session, or the project.                               *)
LEMMA LibraryDeletes ==
  ASSUME LibraryInv,
         \/ \E s \in Library!SessionIds : Library!UserDeletes(s)
         \/ Library!UserDeletesProject
  PROVE  LibraryInv'
<1>1. ASSUME NEW s \in Library!SessionIds, Library!UserDeletes(s) PROVE LibraryInv'
  <2>1. Library!Deletes({s}, FALSE)
    BY <1>1 DEF Library!UserDeletes
  <2> QED
    BY <2>1, DeletesAre DEF LibraryInv
<1>2. ASSUME Library!UserDeletesProject PROVE LibraryInv'
  <2>1. Library!Deletes(Library!Listed, TRUE) /\ Library!Listed \in SUBSET Library!SessionIds
    BY <1>2 DEF Library!UserDeletesProject, Library!Listed
  <2> QED
    BY <2>1, DeletesAre DEF LibraryInv
<1> QED
  BY <1>1, <1>2

(* The application starts again; open rows are ended, and the window lists   *)
(* anew.                                                                     *)
LEMMA LibraryRestarts ==
  ASSUME LibraryInv, Library!AppRestarts
  PROVE  LibraryInv'
<1>0. /\ rows' = [s \in Library!SessionIds |-> IF rows[s] = "open" THEN "ended" ELSE rows[s]]
      /\ run' = [s \in Library!SessionIds |-> "none"]
      /\ hadName' = [s \in Library!SessionIds |-> FALSE]
      /\ nameSource' = [s \in Library!SessionIds |-> "unset"]
      /\ refinement' = [s \in Library!SessionIds |-> "none"]
      /\ sessionPage' = None /\ replies' = {} /\ frames' = <<>>
      /\ UNCHANGED <<project, title, launches, named, overtaken, lateNames, listsCrossed>>
  BY DEF Library!AppRestarts
<1>1. LibraryTypes'
  BY <1>0 DEF LibraryInv, LibraryTypes
<1>2. NamesHeld'
  <2>1. \A x \in named : x \in Library!SessionIds
    BY LibraryBounds DEF LibraryInv, LibraryTypes, NamesHeld, Library!SessionIds
  <2> QED
    BY <1>0, <2>1 DEF LibraryInv, NamesHeld
<1>3. FramesFollow' /\ RepliesFollow'
  BY <1>0 DEF FramesFollow, RepliesFollow
<1>4. frames' \in Seq((1..launches') \X Library!Titles)
  BY <1>0
<1>5. PagesHeld'
  BY <1>0, <1>3, <1>4 DEF LibraryInv, LibraryTypes, PagesHeld
<1> QED
  BY <1>1, <1>2, <1>5 DEF LibraryInv

(* A name that arrives is put into its row.                                           *)
LEMMA PatchedIs ==
  ASSUME NEW p, p # None, NEW s, NEW n
  PROVE  Library!Patched(p, s, n) = {IF x.id = s THEN Library!Row(s, n) ELSE x : x \in p}
BY DEF Library!Patched

(* A page in which the name of a session is patched follows the rows, if it  *)
(* is the latest or one is coming.                                           *)
LEMMA PatchKeeps ==
  ASSUME UNCHANGED <<rows, title>>, PageFollows, NEW s \in Library!SessionIds, NEW n,
         sessionPage' = {IF x.id = s THEN Library!Row(s, n) ELSE x : x \in sessionPage},
         rows[s] # "none" => n = title[s] \/ Coming(s)',
         \A y : y # s /\ Coming(y) => Coming(y)'
  PROVE  PageFollows'
<1>1. Library!Row(s, n).id = s /\ Library!Row(s, n).name = n
  BY DEF Library!Row
<1>2. ASSUME NEW y \in Library!SessionIds
      PROVE  rows[y] # "none" <=> \E x \in sessionPage' : x.id = y
  <2>1. ASSUME rows[y] # "none" PROVE \E x \in sessionPage' : x.id = y
    <3>1. PICK x \in sessionPage : x.id = y
      BY <2>1 DEF PageFollows
    <3>2. (IF x.id = s THEN Library!Row(s, n) ELSE x) \in sessionPage'
      OBVIOUS
    <3> QED
      BY <1>1, <3>1, <3>2
  <2>2. ASSUME NEW x \in sessionPage', x.id = y PROVE rows[y] # "none"
    <3>1. PICK z \in sessionPage : x = IF z.id = s THEN Library!Row(s, n) ELSE z
      OBVIOUS
    <3>2. z.id = y
      BY <1>1, <2>2, <3>1
    <3> QED
      BY <3>2 DEF PageFollows
  <2> QED
    BY <2>1, <2>2
<1>3. ASSUME NEW x \in sessionPage'
      PROVE  /\ x.id \in Library!SessionIds /\ x = Library!Row(x.id, x.name)
             /\ x.name = title[x.id] \/ Coming(x.id)'
  <2>1. PICK z \in sessionPage : x = IF z.id = s THEN Library!Row(s, n) ELSE z
    OBVIOUS
  <2>2. CASE z.id = s
    <3>1. rows[s] # "none"
      BY <2>2 DEF PageFollows
    <3> QED
      BY <1>1, <2>1, <2>2, <3>1
  <2>3. CASE z.id # s
    BY <2>1, <2>3 DEF PageFollows
  <2> QED
    BY <2>2, <2>3
<1> QED
  BY <1>2, <1>3 DEF PageFollows, Library!Row

(* A reply to the window arrives.                                            *)
LEMMA LibraryReceives ==
  ASSUME LibraryInv, NEW r \in replies, Library!Receives(r)
  PROVE  LibraryInv'
<1>0. UNCHANGED <<project, rows, title, run, nameSource, refinement, hadName, frames, launches,
                  named, overtaken, lateNames, listsCrossed>>
  BY DEF Library!Receives, Library!records, Library!naming, Library!bounds
<1>1. LibraryTypes' /\ NamesHeld'
  BY <1>0 DEF LibraryInv, LibraryTypes, NamesHeld
<1>2. Library!Query' = Library!Query
  BY <1>0, QueryStays
<1>3. \A i : Last(i)' = Last(i)
  BY <1>0 DEF Last
<1>4. FramesFollow => FramesFollow'
  BY <1>0, <1>3 DEF FramesFollow
<1>5. ASSUME \A x \in replies' : x \in replies \/ x.kind = "projects"
      PROVE  RepliesFollow => RepliesFollow'
  <2> SUFFICES ASSUME RepliesFollow, NEW y \in replies'
               PROVE  /\ y.kind = "sessions" => y.page = Library!Query
                      /\ y.kind = "renamed" =>
                           \E s \in Library!SessionIds :
                             /\ y = Library!Reply("renamed", {Library!Row(s, "user")})
                             /\ rows[s] # "none" /\ title[s] = "user"
    BY <1>0, <1>2 DEF RepliesFollow, Library!Reply, Library!Row
  <2> QED
    BY <1>5 DEF RepliesFollow
<1>6. ASSUME \A x \in replies' : x \in replies \/ x.kind = "projects",
             ~listsCrossed,
             ~untold' /\ sessionPage' # None /\ (\A x \in replies' : x.kind # "done") => PageFollows'
      PROVE  PagesHeld'
  BY <1>0, <1>4, <1>5, <1>6 DEF LibraryInv, PagesHeld
<1>7. ASSUME \A x \in replies' : x \in replies \/ x.kind = "projects",
             listsCrossed \/ sessionPage' = None
      PROVE  PagesHeld'
  BY <1>0, <1>4, <1>5, <1>7 DEF LibraryInv, PagesHeld
<1>8. CASE r.kind = "projects"
  <2>0. sessionPage' = sessionPage /\ replies' = replies \ {r} /\ untold' = untold
    BY <1>8 DEF Library!Receives
  <2>1. \A s : Coming(s) => Coming(s)'
    <3> SUFFICES ASSUME NEW s, Library!Reply("renamed", {Library!Row(s, "user")}) \in replies
                 PROVE  Library!Reply("renamed", {Library!Row(s, "user")}) \in replies'
      BY <1>0 DEF Coming, Library!Reply, Library!Row
    <3> QED
      BY <1>8, <2>0 DEF Library!Reply
  <2>2. PageFollows => PageFollows'
    BY <1>0, <2>0, <2>1 DEF PageFollows, Library!Row
  <2>3. (\A x \in replies' : x.kind # "done") => \A x \in replies : x.kind # "done"
    BY <1>8, <2>0
  <2> QED
    BY <1>1, <1>6, <1>7, <2>0, <2>2, <2>3 DEF LibraryInv, PagesHeld
<1>9. CASE r.kind = "sessions"
  <2>0. sessionPage' = r.page /\ replies' = replies \ {r}
    BY <1>9 DEF Library!Receives
  <2>1. ASSUME ~listsCrossed PROVE PageFollows'
    <3>1. sessionPage' = Library!Query
      BY <1>9, <2>0, <2>1 DEF LibraryInv, PagesHeld, RepliesFollow
    <3>2. \A s \in Library!SessionIds : rows[s] # "none" =>
            Library!Row(s, title[s]) \in sessionPage' /\ Library!Row(s, title[s]).id = s
      BY <3>1 DEF Library!Query, Library!Listed, Library!Row
    <3>3. ASSUME NEW x \in sessionPage'
          PROVE  /\ x.id \in Library!SessionIds /\ rows[x.id] # "none"
                 /\ x = Library!Row(x.id, x.name) /\ x.name = title[x.id]
      <4>1. PICK s \in Library!SessionIds : rows[s] # "none" /\ x = Library!Row(s, title[s])
        BY <3>1 DEF Library!Query, Library!Listed
      <4> QED
        BY <4>1 DEF Library!Row
    <3> QED
      BY <1>0, <3>2, <3>3 DEF PageFollows, Library!Row
  <2> QED
    BY <1>1, <1>6, <1>7, <2>0, <2>1 DEF LibraryInv
<1>10. CASE r.kind = "renamed"
  <2>0. replies' = replies \ {r} /\ untold' = untold
    BY <1>10 DEF Library!Receives
  <2>1. ASSUME ~listsCrossed, ~untold, sessionPage' # None, \A x \in replies' : x.kind # "done"
        PROVE  PageFollows'
    <3>1. PICK s \in Library!SessionIds :
            /\ r = Library!Reply("renamed", {Library!Row(s, "user")})
            /\ rows[s] # "none" /\ title[s] = "user"
      BY <1>10, <2>1 DEF LibraryInv, PagesHeld, RepliesFollow
    <3> DEFINE row == CHOOSE x \in r.page : TRUE
    <3>2. r.page = {Library!Row(s, "user")}
      BY <3>1 DEF Library!Reply
    <3>3. row = Library!Row(s, "user")
      BY <3>2
    <3>4. sessionPage' = Library!Patched(sessionPage, row.id, row.name)
      BY <1>10 DEF Library!Receives
    <3> HIDE DEF row
    <3>5. row.id = s /\ row.name = "user"
      BY <3>3 DEF Library!Row
    <3>6. sessionPage # None
      BY <2>1, <3>4 DEF Library!Patched
    <3>7. sessionPage' = {IF x.id = s THEN Library!Row(s, "user") ELSE x : x \in sessionPage}
      BY <3>4, <3>5, <3>6, PatchedIs
    <3>8. PageFollows
      BY <1>10, <2>0, <2>1, <3>6 DEF LibraryInv, PagesHeld
    <3>9. \A y : y # s /\ Coming(y) => Coming(y)'
      <4> SUFFICES ASSUME NEW y, y # s, Library!Reply("renamed", {Library!Row(y, "user")}) \in replies
                   PROVE  Library!Reply("renamed", {Library!Row(y, "user")}) \in replies'
        BY <1>0 DEF Coming, Library!Reply, Library!Row
      <4>1. Library!Row(y, "user") # Library!Row(s, "user")
        BY DEF Library!Row
      <4>2. Library!Reply("renamed", {Library!Row(y, "user")}).page # r.page
        BY <3>2, <4>1 DEF Library!Reply
      <4> QED
        BY <2>0, <4>2
    <3> QED
      BY <1>0, <3>1, <3>7, <3>8, <3>9, PatchKeeps
  <2> QED
    BY <1>1, <1>6, <1>7, <2>0, <2>1 DEF LibraryInv, PagesHeld
<1>11. CASE r.kind = "done"
  <2>0. sessionPage' = None /\ replies' = (replies \ {r}) \cup {Library!Reply("projects", {})}
    BY <1>11 DEF Library!Receives
  <2>1. \A x \in replies' : x \in replies \/ x.kind = "projects"
    BY <2>0 DEF Library!Reply
  <2> QED
    BY <1>1, <1>7, <2>0, <2>1 DEF LibraryInv
<1> QED
  BY <1>8, <1>9, <1>10, <1>11 DEF Library!Receives

(* One that is given up changes nothing that the window has.                       *)
LEMMA LibraryMisses ==
  ASSUME LibraryInv, NEW r \in replies, Library!Misses(r)
  PROVE  LibraryInv'
<1>0. /\ UNCHANGED <<project, rows, title, run, nameSource, refinement, hadName, sessionPage, frames,
                     launches, named, overtaken, lateNames, listsCrossed>>
      /\ replies' = replies \ {r}
      /\ untold' = (untold \/ r.kind \in {"done", "renamed"})
  BY DEF Library!Misses, Library!records, Library!naming, Library!lists, Library!bounds
<1>1. LibraryTypes' /\ NamesHeld'
  BY <1>0 DEF LibraryInv, LibraryTypes, NamesHeld
<1>2. Library!Query' = Library!Query
  BY <1>0, QueryStays
<1>3. \A i : Last(i)' = Last(i)
  BY <1>0 DEF Last
<1>4. FramesFollow => FramesFollow'
  BY <1>0, <1>3 DEF FramesFollow
<1>5. RepliesFollow => RepliesFollow'
  BY <1>0, <1>2 DEF RepliesFollow, Library!Reply, Library!Row
<1>6. ASSUME ~untold', \A x \in replies' : x.kind # "done", PageFollows PROVE PageFollows'
  <2>1. \A s : Library!Reply("renamed", {Library!Row(s, "user")}).kind = "renamed"
    BY DEF Library!Reply
  <2>2. \A s : Coming(s) => Coming(s)'
    <3> SUFFICES ASSUME NEW s, Library!Reply("renamed", {Library!Row(s, "user")}) \in replies
                 PROVE  Library!Reply("renamed", {Library!Row(s, "user")}) \in replies'
      BY <1>0 DEF Coming, Library!Reply, Library!Row
    <3> QED
      BY <1>0, <1>6, <2>1
  <2> QED
    BY <1>0, <1>6, <2>2 DEF PageFollows, Library!Row
<1>7. ~untold' /\ (\A x \in replies' : x.kind # "done") => \A x \in replies : x.kind # "done"
  BY <1>0
<1>8. ~untold' => ~untold
  BY <1>0
<1>9. PagesHeld'
  BY <1>0, <1>4, <1>5, <1>6, <1>7, <1>8 DEF LibraryInv, PagesHeld
<1> QED
  BY <1>1, <1>9 DEF LibraryInv

(* A frame about a name arrives.                                             *)
LEMMA LibraryFrame ==
  ASSUME LibraryInv, Library!FrameArrives
  PROVE  LibraryInv'
<1>0. /\ frames # <<>> /\ frames' = Tail(frames)
      /\ sessionPage' = Library!Patched(sessionPage, Head(frames)[1], Head(frames)[2])
      /\ UNCHANGED <<project, rows, title, run, nameSource, refinement, hadName, replies, launches,
                     named, overtaken, lateNames, listsCrossed, untold>>
  BY DEF Library!FrameArrives, Library!records, Library!naming, Library!bounds,
     Library!libraryHistory
<1>1. LibraryTypes' /\ NamesHeld'
  BY <1>0 DEF LibraryInv, LibraryTypes, NamesHeld
<1>2. Library!Query' = Library!Query
  BY <1>0, QueryStays
<1>l. /\ frames \in Seq((1..launches) \X Library!Titles)
      /\ frames' \in Seq((1..launches') \X Library!Titles)
      /\ Len(frames) \in Nat /\ Len(frames) >= 1 /\ Len(frames') = Len(frames) - 1
      /\ \A i \in 1..(Len(frames) - 1) : frames'[i] = frames[i + 1]
      /\ Head(frames) = frames[1]
  BY <1>0 DEF LibraryInv, PagesHeld
<1> DEFINE n == Len(frames)
<1> HIDE DEF n
<1>m. /\ n \in Nat /\ n >= 1 /\ Len(frames') = n - 1 /\ Len(frames) = n
      /\ \A i \in 1..(n - 1) : frames'[i] = frames[i + 1]
      /\ \A i \in 1..n : frames[i][1] \in Library!SessionIds /\ frames[i][2] \in Library!Titles
  <2>1. \A i \in 1..launches : i \in Library!SessionIds
    BY LibraryBounds DEF LibraryInv, LibraryTypes, Library!SessionIds
  <2>2. \A i \in 1..Len(frames) : frames[i] \in (1..launches) \X Library!Titles
    BY <1>l
  <2> QED
    BY <1>l, <2>1, <2>2 DEF n
<1>3. ASSUME NEW i \in 1..(n - 1), Last(i)' PROVE Last(i + 1)
  <2> SUFFICES ASSUME NEW j \in (i + 2)..n PROVE frames[j][1] # frames[i + 1][1]
    BY <1>m DEF Last
  <2>1. j - 1 \in (i + 1)..(n - 1) /\ j - 1 \in 1..(n - 1) /\ (j - 1) + 1 = j
    BY <1>m
  <2>2. frames'[j - 1][1] # frames'[i][1]
    BY <1>3, <1>m, <2>1 DEF Last
  <2> QED
    BY <1>m, <2>1, <2>2
<1>4. FramesFollow => FramesFollow'
  <2> SUFFICES ASSUME FramesFollow, NEW i \in 1..(n - 1), Last(i)', rows[frames'[i][1]] # "none"
               PROVE  frames'[i][2] = title[frames'[i][1]]
    BY <1>0, <1>m DEF FramesFollow
  <2>1. i + 1 \in 1..n /\ Last(i + 1) /\ frames'[i] = frames[i + 1]
    BY <1>3, <1>m
  <2> QED
    BY <1>m, <2>1 DEF FramesFollow
<1>5. RepliesFollow => RepliesFollow'
  BY <1>0, <1>2 DEF RepliesFollow, Library!Reply, Library!Row
<1>6. ASSUME ~listsCrossed, ~untold, sessionPage' # None, \A x \in replies' : x.kind # "done"
      PROVE  PageFollows'
  <2>0. PICK s \in Library!SessionIds, b \in Library!Titles : s = frames[1][1] /\ b = frames[1][2]
    BY <1>m
  <2>1. sessionPage' = Library!Patched(sessionPage, s, b)
    BY <1>0, <1>l, <2>0
  <2>2. sessionPage # None
    BY <1>6, <2>1 DEF Library!Patched
  <2>3. sessionPage' = {IF x.id = s THEN Library!Row(s, b) ELSE x : x \in sessionPage}
    BY <2>1, <2>2, PatchedIs
  <2>4. PageFollows /\ FramesFollow
    BY <1>0, <1>6, <2>2 DEF LibraryInv, PagesHeld
  <2>5. \A y : y # s /\ Coming(y) => Coming(y)'
    <3> SUFFICES ASSUME NEW y, y # s, NEW i \in 1..n, frames[i][1] = y
                 PROVE  \E j \in 1..(n - 1) : frames'[j][1] = y
      BY <1>0, <1>m DEF Coming, Library!Reply, Library!Row
    <3>1. i # 1
      BY <2>0
    <3>2. i - 1 \in 1..(n - 1) /\ frames'[i - 1] = frames[i]
      BY <1>m, <3>1
    <3> QED
      BY <3>2
  <2>6. rows[s] # "none" => b = title[s] \/ Coming(s)'
    <3> SUFFICES ASSUME rows[s] # "none", ~Coming(s)' PROVE b = title[s]
      OBVIOUS
    <3>1. ASSUME NEW j \in 2..n PROVE frames[j][1] # s
      <4>1. j - 1 \in 1..(n - 1) /\ (j - 1) + 1 = j
        BY <1>m
      <4>0. \A i \in 1..(n - 1) : frames'[i][1] # s
        BY <1>m DEF Coming
      <4>2. frames'[j - 1][1] # s
        BY <4>0, <4>1
      <4> QED
        BY <1>m, <4>1, <4>2
    <3>2. Last(1)
      BY <1>m, <2>0, <3>1 DEF Last
    <3> QED
      BY <1>m, <2>0, <2>4, <3>2 DEF FramesFollow
  <2> QED
    <3>1. UNCHANGED <<rows, title>>
      BY <1>0
    <3> QED
      BY <2>3, <2>4, <2>5, <2>6, <3>1, PatchKeeps
<1>7. PagesHeld'
  BY <1>0, <1>4, <1>5, <1>6, <1>l DEF LibraryInv, PagesHeld
<1> QED
  BY <1>1, <1>7 DEF LibraryInv

(* A run and a name begin with a row.                                        *)
LEMMA UnlaunchedStays ==
  ASSUME LibraryInv, Unlaunched, [Library!LibraryNext]_libraryVars
  PROVE  Unlaunched'
<1> DEFINE Same(s) == \A x \in Library!SessionIds : x # s => run'[x] = run[x]
                                                         /\ nameSource'[x] = nameSource[x]
<1>l. launches \in Nat /\ \A s \in Library!SessionIds : rows[s] # "none" => s \in 1..launches
  BY DEF LibraryInv, LibraryTypes, PagesHeld
<1>1. ASSUME NEW s, Same(s), s \in 1..launches', launches' \in {launches, launches + 1}
      PROVE  Unlaunched'
  BY <1>1, <1>l DEF Unlaunched
<1>2. ASSUME UNCHANGED <<run, nameSource>>, launches' \in {launches, launches + 1}
      PROVE  Unlaunched'
  BY <1>2, <1>l DEF Unlaunched
<1>n. ASSUME NEW s \in Library!SessionIds, NEW by, NEW then, Library!Names(s, by, then),
             UNCHANGED <<run, launches>>
      PROVE  Unlaunched'
  <2>1. CASE rows[s] = "none"
    BY <1>2, <1>n, <2>1 DEF Library!Names
  <2>2. CASE rows[s] # "none"
    <3>1. s \in 1..launches' /\ Same(s)
      BY <1>l, <1>n, <2>2 DEF Library!Names, LibraryInv, LibraryTypes
    <3> QED
      BY <1>1, <1>n, <3>1
  <2> QED
    BY <2>1, <2>2
<1>3. ASSUME NEW b \in BOOLEAN, Library!Launches(b) PROVE Unlaunched'
  <2>1. Same(launches + 1) /\ launches' = launches + 1 /\ launches + 1 \in 1..launches'
    BY <1>3, <1>l DEF Library!Launches, Library!NewRow, LibraryInv, LibraryTypes
  <2> QED
    BY <1>1, <2>1
<1>4. ASSUME NEW b \in BOOLEAN, Library!LaunchRefused(b) \/ Library!CommandLaunches(b)
      PROVE  Unlaunched'
  BY <1>2, <1>4 DEF Library!LaunchRefused, Library!CommandLaunches, Library!NewRow, Library!naming
<1>5. ASSUME NEW s \in Library!SessionIds, NEW b \in BOOLEAN,
             Library!UserTurn(s, b) \/ Library!HarnessTitle(s)
      PROVE  Unlaunched'
  BY <1>5, <1>n DEF Library!UserTurn, Library!HarnessTitle, Library!bounds
<1>6. ASSUME NEW s \in Library!SessionIds, NEW b \in BOOLEAN, Library!Refines(s, b)
      PROVE  Unlaunched'
  <2>0. UNCHANGED <<run, launches>>
    BY <1>6 DEF Library!Refines, Library!bounds
  <2>1. CASE Library!Names(s, "ai", "none")
    BY <1>n, <2>0, <2>1
  <2>2. CASE UNCHANGED nameSource
    BY <1>2, <2>0, <2>2
  <2> QED
    BY <1>6, <2>1, <2>2 DEF Library!Refines
<1>7. ASSUME NEW s \in Library!SessionIds, NEW b \in BOOLEAN,
             \/ Library!ResumeStarts(s, b) \/ Library!ResumeReads(s) \/ Library!RunEnds(s)
      PROVE  Unlaunched'
  <2>1. run[s] # "none" \/ rows[s] # "none"
    BY <1>7 DEF Library!ResumeStarts, Library!ResumeReads, Library!RunEnds
  <2>2. s \in 1..launches
    BY <1>l, <2>1 DEF Unlaunched
  <2>3. launches' = launches
    BY <1>7 DEF Library!ResumeStarts, Library!ResumeReads, Library!RunEnds, Library!bounds
  <2>4. Same(s)
    BY <1>7 DEF Library!ResumeStarts, Library!ResumeReads, Library!RunEnds, LibraryInv, LibraryTypes
  <2> QED
    BY <1>1, <2>2, <2>3, <2>4
<1>8. ASSUME NEW s \in Library!SessionIds, Library!UserRenames(s) PROVE Unlaunched'
  <2>1. UNCHANGED <<run, launches>>
    BY <1>8 DEF Library!UserRenames
  <2>2. CASE rows[s] = "none"
    BY <1>2, <1>8, <2>1, <2>2 DEF Library!UserRenames
  <2>3. CASE rows[s] # "none"
    <3>1. Same(s) /\ s \in 1..launches'
      BY <1>8, <1>l, <2>1, <2>3 DEF Library!UserRenames, LibraryInv, LibraryTypes
    <3> QED
      BY <1>1, <2>1, <3>1
  <2> QED
    BY <2>2, <2>3
<1>9. ASSUME \/ \E s \in Library!SessionIds : Library!UserDeletes(s)
             \/ Library!UserDeletesProject
      PROVE  Unlaunched'
  BY <1>2, <1>9 DEF Library!UserDeletes, Library!UserDeletesProject, Library!Deletes, Library!naming
<1>10. ASSUME Library!AppRestarts PROVE Unlaunched'
  BY <1>10 DEF Library!AppRestarts, Unlaunched
<1>11. ASSUME Library!AsksProjects \/ Library!AsksSessions \/ Library!FrameArrives PROVE Unlaunched'
  BY <1>2, <1>11 DEF Library!AsksProjects, Library!AsksSessions, Library!FrameArrives, Library!naming,
     Library!bounds
<1>12. ASSUME NEW r \in replies, Library!Receives(r) \/ Library!Misses(r) PROVE Unlaunched'
  BY <1>2, <1>12 DEF Library!Receives, Library!Misses, Library!naming, Library!bounds
<1>13. ASSUME UNCHANGED libraryVars PROVE Unlaunched'
  BY <1>2, <1>13 DEF libraryVars
<1> HIDE DEF Same
<1> QED
  BY <1>3, <1>4, <1>5, <1>6, <1>7, <1>8, <1>9, <1>10, <1>11, <1>12, <1>13, Zenon
     DEF Library!LibraryNext

(* The two are kept by every step.                                           *)
LEMMA LibraryInvInductive ==
  LibraryInv /\ Unlaunched /\ [Library!LibraryNext]_libraryVars => LibraryInv' /\ Unlaunched'
<1> SUFFICES ASSUME LibraryInv, Unlaunched, [Library!LibraryNext]_libraryVars
             PROVE  LibraryInv'
  BY UnlaunchedStays
<1>1. ASSUME UNCHANGED libraryVars PROVE LibraryInv'
  <2>1. LibraryTypes' /\ NamesHeld'
    BY <1>1 DEF libraryVars, LibraryInv, LibraryTypes, NamesHeld
  <2>2. PagesHeld'
    BY <1>1, PagesStay DEF libraryVars, LibraryInv
  <2> QED
    BY <2>1, <2>2 DEF LibraryInv
<1> QED
  BY <1>1, LibraryLaunches, LibraryRuns, LibraryAsks, LibraryRenames, LibraryDeletes,
     LibraryRestarts, LibraryReceives, LibraryMisses, LibraryFrame, Zenon DEF Library!LibraryNext
-----------------------------------------------------------------------------
(***************************************************************************)
(* The directories of the data.                                              *)
(***************************************************************************)

Earlier == {"legacy", "launchkit"}
Holds(x) == IF x = None THEN {} ELSE x
In(r) == r.config \cup Holds(r.oldDb) \cup Holds(r.db)
Written(d) ==
  IF d = "dev" THEN {"development"}
  ELSE IF d = "spectrum" THEN {"legacy", "launchkit", "stable"}
  ELSE IF d = "canary" THEN {"legacy", "launchkit", "stable", "canary"}
  ELSE IF d \in Earlier THEN {d} ELSE Owners
Secret(t) ==
  \/ [service |-> Directories!Service(t.by), key |-> t] \in keychain
  \/ \E e \in Directories!Names : [key |-> t, dir |-> e] \in deletedBy
AtWork == dirStage \in {"up", "clearing", "leaving", "broken"}

DirTypes ==
  /\ platform \in {"macos", "linux", "windows"} /\ custom \in BOOLEAN
  /\ channel \in Directories!Channels /\ dirStage \in Directories!Stages
  /\ dirs \in [Directories!Names -> Stored \cup {None}]
  /\ cachedDoc \in SUBSET DirKeys /\ works \in Nat
  /\ erased \in [Directories!Names -> SUBSET DirKeys]

(* A directory with what an earlier build had saved has it, but while it is renamed.        *)
Copied(d, r) ==
  "torn" \notin r.tags =>
    \A s \in r.tags \cap Earlier :
      /\ Directories!Provider(s) \in r.config
      /\ s = "launchkit" =>
           \/ r.db # None /\ Directories!Session(s) \in r.db
           \/ dirStage = "renaming" /\ d = Directories!DirOf("stable")
(* What it holds is of those who write to it, and of the past.                           *)
Apart(d, r) ==
  \A t \in In(r) : (~custom => t.by \in Written(d)) /\ t.n < works + 2
(* Nothing that was erased is in it, and no provider whose secret it has deleted.            *)
Clean(d, r) ==
  d \notin spoiled /\ d # "canary" =>
    /\ In(r) \cap erased[d] = {}
    /\ \A t \in r.config : [key |-> t, dir |-> d] \in deletedBy =>
         dirStage = "clearing" /\ Directories!Mine = d
Kept(d, r) ==
  Copied(d, r) /\ Apart(d, r) /\ Clean(d, r) /\ \A t \in r.config : Secret(t)

(* The directories of the builds before: as they were, and gone once anything was erased.       *)
EarlierHeld ==
  \A s \in Earlier : dirs[s] # None =>
    /\ dirs[s].config = {Directories!Provider(s)} /\ dirs[s].oldDb = {Directories!Session(s)}
    /\ dirs[s].db = None /\ dirs[s].tags = {}
    /\ s = "legacy" => platform = "macos"
    /\ \A d \in Directories!Names :
         /\ erased[d] = {}
         /\ d \notin spoiled /\ d # "canary" /\
              [key |-> Directories!Provider(s), dir |-> d] \in deletedBy =>
                dirStage = "clearing" /\ Directories!Mine = d

(* The configuration in memory is that of the directory, if it is there.                  *)
MemoryHeld ==
  /\ ~AtWork => cachedDoc = {}
  /\ AtWork /\ dirs[Directories!Mine] # None => dirs[Directories!Mine].config = cachedDoc
  /\ Directories!Up => dirs[Directories!Mine] # None /\ dirs[Directories!Mine].db # None
  /\ \A t \in cachedDoc :
       (~custom => t.by \in Written(Directories!Mine)) /\ t.n < works + 2 /\ Secret(t)
  /\ dirStage = "clearing" => \A t \in cachedDoc :
       \/ t \in doomed \/ t \in addedLate
       \/ [service |-> Directories!Service(channel), key |-> t] \notin keychain
  /\ dirStage = "leaving" => \A t \in cachedDoc :
       \/ t \in addedLate
       \/ [service |-> Directories!Service(channel), key |-> t] \notin keychain
  /\ dirStage = "marking" => dirs["legacy"] # None
  /\ dirStage \in {"renaming", "markingLaunchkit"} => dirs["launchkit"] # None
  /\ dirStage = "renaming" =>
       LET r == dirs[Directories!DirOf("stable")] IN
       r # None /\ r.oldDb = {Directories!Session("launchkit")}

(* What was erased or deleted is of the past.                                        *)
PastHeld ==
  /\ \A d \in Directories!Names : \A t \in erased[d] : t.n < works + 2
  /\ \A x \in deletedBy : x.key \in DirKeys /\ x.key.n < works + 2
  /\ \A t \in doomed : t \in DirKeys /\ t.n < works + 2

DirsInv ==
  /\ DirTypes /\ EarlierHeld /\ MemoryHeld /\ PastHeld
  /\ \A d \in Directories!Names : dirs[d] # None => Kept(d, dirs[d])

(* None is apart from what directories hold; and where a channel keeps its data.             *)
LEMMA StoredApart == None \notin SUBSET DirKeys /\ None \notin Stored /\ MaxWorks \in Nat
BY RecordsAssumption, Zenon

(* Where a channel keeps its data: not where an earlier build did, and       *)
(* where it may write.                                                       *)
LEMMA DirsOf ==
  ASSUME NEW ch \in Directories!Channels
  PROVE  /\ Directories!DirOf(ch) \in Directories!Names \ Earlier
         /\ ~custom => ch \in Written(Directories!DirOf(ch))
         /\ ch # "canary" => Directories!DirOf(ch) # "canary"
         /\ Directories!DirOf(ch) = "canary" => ~custom
BY DEF Directories!Channels, Directories!DirOf, Directories!Names, Earlier, Written

(* What the invariant says is what the directories promise.                            *)
LEMMA DirsInvSound == DirsInv => Directories!DirsAreSound
<1> SUFFICES ASSUME DirsInv PROVE Directories!DirsAreSound
  OBVIOUS
<1>m. Directories!Mine \in Directories!Names
  BY DirsOf DEF DirsInv, DirTypes, Directories!Mine
<1> DEFINE m == Directories!Mine
<1>h. \A d \in Directories!Names : dirs[d] # None => Kept(d, dirs[d])
  BY DEF DirsInv
<1>i. \A d \in Directories!Names : dirs[d] # None => Directories!Held(d) \subseteq In(dirs[d])
  BY DEF Directories!Held, In, Holds
<1>1. Directories!EarlierDataIsThere
  <2> SUFFICES ASSUME Directories!Up, NEW s \in dirs[m].tags \cap Earlier, "torn" \notin dirs[m].tags
               PROVE  /\ Directories!Provider(s) \in dirs[m].config
                      /\ s = "launchkit" => Directories!Session(s) \in dirs[m].db
    BY DEF Directories!EarlierDataIsThere, Earlier
  <2>1. dirs[m] # None /\ dirStage # "renaming"
    BY DEF DirsInv, MemoryHeld, Directories!Up
  <2> QED
    BY <1>h, <1>m, <2>1 DEF Kept, Copied
<1>2. Directories!ChannelsApart
  <2>1. ASSUME ~custom, NEW d \in Directories!Names, NEW t \in Directories!Held(d)
        PROVE  t.by \in Written(d)
    <3>1. dirs[d] # None
      BY <2>1 DEF Directories!Held
    <3> QED
      BY <1>h, <1>i, <2>1, <3>1 DEF Kept, Apart
  <2>2. "dev" \in Directories!Names /\ "spectrum" \in Directories!Names /\ "canary" \in Directories!Names
    BY DEF Directories!Names
  <2>3. /\ Written("dev") = {"development"} /\ Written("spectrum") = {"legacy", "launchkit", "stable"}
        /\ Written("canary") = {"legacy", "launchkit", "stable", "canary"}
    BY DEF Written
  <2>4. ASSUME ~custom, NEW t \in Directories!Held("dev") PROVE t.by = "development"
    BY <2>1, <2>2, <2>3, <2>4
  <2>5. ASSUME ~custom, NEW t \in Directories!Held("spectrum")
        PROVE  t.by \notin {"canary", "development"}
    <3>1. t.by \in Written("spectrum")
      BY <2>1, <2>2, <2>5
    <3> QED
      BY <2>3, <3>1
  <2>6. ASSUME ~custom, NEW t \in Directories!Held("canary") PROVE t.by # "development"
    <3>1. t.by \in Written("canary")
      BY <2>1, <2>2, <2>6
    <3> QED
      BY <2>3, <3>1
  <2> QED
    BY <2>4, <2>5, <2>6 DEF Directories!ChannelsApart
<1>3. Directories!CleanSlate
  <2> SUFFICES ASSUME Directories!Up, m \notin spoiled, m # "canary"
               PROVE  Directories!Held(m) \cap erased[m] = {}
    BY DEF Directories!CleanSlate
  <2>1. dirs[m] # None
    BY DEF DirsInv, MemoryHeld
  <2> QED
    BY <1>h, <1>i, <1>m, <2>1 DEF Kept, Clean
<1>4. Directories!SecretsFollow
  <2>1. ASSUME dirStage = "leaving", NEW t \in cachedDoc
        PROVE  [service |-> Directories!Service(channel), key |-> t] \notin keychain \/ t \in addedLate
    BY <2>1 DEF DirsInv, MemoryHeld
  <2>2. ASSUME dirStage = "up", m \notin spoiled, NEW t \in cachedDoc
        PROVE  \/ [service |-> Directories!Service(channel), key |-> t] \in keychain
               \/ Directories!Service(t.by) # Directories!Service(channel)
               \/ \E e \in Directories!Names : [key |-> t, dir |-> e] \in deletedBy
                                               /\ (e # m \/ e = "canary")
    <3>1. dirs[m] # None /\ t \in dirs[m].config
      BY <2>2 DEF DirsInv, MemoryHeld, Directories!Up, AtWork
    <3>2. Secret(t) /\ Clean(m, dirs[m])
      BY <1>h, <1>m, <3>1 DEF Kept
    <3> QED
      BY <2>2, <3>1, <3>2 DEF Secret, Clean
  <2> QED
    BY <2>1, <2>2 DEF Directories!SecretsFollow
<1> QED
  BY <1>1, <1>2, <1>3, <1>4 DEF Directories!DirsAreSound

(* The invariant holds at the start.                                            *)
LEMMA KeysAre ==
  ASSUME NEW s \in Earlier
  PROVE  /\ Directories!Provider(s) \in DirKeys /\ Directories!Session(s) \in DirKeys
         /\ Directories!Provider(s).by = s /\ Directories!Provider(s).n = 0
         /\ Directories!Session(s).by = s /\ Directories!Session(s).n = 1
         /\ Directories!Service(s) = "spectrum" /\ s \in Directories!Names
<1>1. 0 \in 0..(MaxWorks + 1) /\ 1 \in 0..(MaxWorks + 1)
  BY StoredApart
<1> QED
  BY <1>1 DEF Earlier, Directories!Provider, Directories!Session, DirKeys, Owners,
     Directories!Service, Directories!Names

(* The invariant holds at the start.                                         *)
LEMMA DirsInvInit == Directories!DirsInit => DirsInv
<1> SUFFICES ASSUME Directories!DirsInit PROVE DirsInv
  OBVIOUS
<1>1. PICK has \in SUBSET {"legacy", "launchkit"}, did \in SUBSET {"support", "spectrum"} :
        /\ "legacy" \in has => platform = "macos"
        /\ dirs = [d \in Directories!Names |->
                     IF d \notin has THEN None
                     ELSE [Directories!Earlier(d) EXCEPT
                             !.marks = IF d = "legacy" THEN did \cap {"support"} ELSE {}]]
        /\ keychain = {[service |-> "spectrum", key |-> Directories!Provider(s)] : s \in has}
  BY DEF Directories!DirsInit
<1>2. ASSUME NEW s \in has
      PROVE  /\ dirs[s] \in Stored
             /\ dirs[s].config = {Directories!Provider(s)} /\ dirs[s].oldDb = {Directories!Session(s)}
             /\ dirs[s].db = None /\ dirs[s].tags = {}
  <2>1. s \in Earlier /\ s \in Directories!Names
    BY DEF Earlier, Directories!Names
  <2> DEFINE e == IF s = "legacy" THEN did \cap {"support"} ELSE {}
  <2>2. dirs[s] = [Directories!Earlier(s) EXCEPT !.marks = e]
    BY <1>1, <1>2, <2>1
  <2>3. e \in SUBSET {"support", "spectrum"}
    OBVIOUS
  <2> HIDE DEF e
  <2>4. Directories!Earlier(s) = [config |-> {Directories!Provider(s)}, oldDb |-> {Directories!Session(s)},
                                  db |-> None, marks |-> {}, tags |-> {}]
    <3> DEFINE p == {Directories!Provider(s)}
               o == {Directories!Session(s)}
    <3>1. Directories!Earlier(s) = [Directories!Blank EXCEPT !.config = p, !.oldDb = o]
      BY DEF Directories!Earlier
    <3> HIDE DEF p, o
    <3>2. Directories!Earlier(s) = [config |-> p, oldDb |-> o, db |-> None, marks |-> {}, tags |-> {}]
      BY <3>1 DEF Directories!Blank
    <3> QED
      BY <3>2 DEF p, o
  <2>5. {Directories!Provider(s)} \in SUBSET DirKeys /\ {Directories!Session(s)} \in SUBSET DirKeys
    BY <2>1, KeysAre
  <2> QED
    BY <2>2, <2>3, <2>4, <2>5 DEF Stored
<1>3. \A d \in Directories!Names : d \notin has => dirs[d] = None
  BY <1>1
<1>4. \A s \in has : s \in Earlier /\ s \in Directories!Names
  BY DEF Earlier, Directories!Names
<1>5. /\ platform \in {"macos", "linux", "windows"} /\ custom \in BOOLEAN
      /\ channel = "stable" /\ dirStage = "down" /\ cachedDoc = {}
      /\ works = 0 /\ deletedBy = {} /\ doomed = {} /\ erased = [d \in Directories!Names |-> {}]
  BY DEF Directories!DirsInit
<1>6. DirTypes
  <2>1. dirs \in [Directories!Names -> Stored \cup {None}]
    <3>1. \A d \in Directories!Names : dirs[d] \in Stored \cup {None}
      BY <1>2, <1>3
    <3> QED
      BY <1>1, <3>1
  <2> QED
    BY <1>5, <2>1 DEF DirTypes, Directories!Channels, Directories!Stages
<1>7. EarlierHeld
  BY <1>1, <1>2, <1>3, <1>4, <1>5, KeysAre DEF EarlierHeld
<1>8. MemoryHeld
  BY <1>5 DEF MemoryHeld, AtWork, Directories!Up
<1>9. PastHeld
  BY <1>5 DEF PastHeld
<1>10. ASSUME NEW d \in Directories!Names, dirs[d] # None PROVE Kept(d, dirs[d])
  <2>1. d \in has /\ d \in Earlier
    BY <1>3, <1>4, <1>10
  <2>2. Copied(d, dirs[d])
    BY <1>2, <2>1 DEF Copied
  <2>3. In(dirs[d]) = {Directories!Provider(d), Directories!Session(d)}
    <3>1. {Directories!Session(d)} # None
      BY <2>1, KeysAre, StoredApart
    <3> QED
      BY <1>2, <2>1, <3>1 DEF In, Holds
  <2>4. Written(d) = {d} \/ custom
    BY <2>1 DEF Written, Earlier
  <2>5. Apart(d, dirs[d])
    BY <1>5, <2>1, <2>3, <2>4, KeysAre DEF Apart
  <2>6. Clean(d, dirs[d])
    BY <1>5 DEF Clean
  <2>7. ASSUME NEW t \in dirs[d].config PROVE Secret(t)
    <3>1. t = Directories!Provider(d)
      BY <1>2, <2>1, <2>7
    <3>2. [service |-> "spectrum", key |-> t] \in keychain
      BY <1>1, <2>1, <3>1
    <3> QED
      BY <2>1, <3>1, <3>2, KeysAre DEF Secret
  <2> QED
    BY <2>2, <2>5, <2>6, <2>7 DEF Kept
<1> QED
  BY <1>6, <1>7, <1>8, <1>9, <1>10 DEF DirsInv

(* A start: what it does not touch.                                               *)
StartMove ==
  /\ UNCHANGED <<platform, custom, keychain, doomed, works, erased, spoiled, deletedBy>>
  /\ ~AtWork /\ channel' \in Directories!Channels /\ dirStage' \in Directories!Stages

(* A directory that is not written stays kept.                               *)
LEMMA StartKeeps ==
  ASSUME StartMove, NEW d \in Directories!Names, NEW r, Kept(d, r),
         dirStage = "renaming" => d # Directories!DirOf("stable")
  PROVE  Kept(d, r)'
<1>1. dirStage # "clearing"
  BY DEF StartMove, AtWork
<1>2. \A t : Secret(t)' = Secret(t)
  BY DEF StartMove, Secret, Directories!Service
<1>3. Copied(d, r)'
  BY DEF StartMove, Kept, Copied, Directories!Provider, Directories!Session, Directories!DirOf
<1>4. Apart(d, r)'
  BY DEF StartMove, Kept, Apart, Written
<1>5. Clean(d, r)'
  BY <1>1 DEF StartMove, Kept, Clean
<1> QED
  BY <1>2, <1>3, <1>4, <1>5 DEF Kept

(* One that writes nothing.                                                     *)
LEMMA StartLeaves ==
  ASSUME DirsInv, StartMove, UNCHANGED <<dirs, cachedDoc>>,
         dirStage # "renaming", dirStage' \notin {"marking", "renaming", "markingLaunchkit"}, ~AtWork'
  PROVE  DirsInv'
<1>1. DirTypes'
  BY DEF DirsInv, DirTypes, StartMove
<1>2. EarlierHeld'
  BY DEF DirsInv, EarlierHeld, StartMove, AtWork, Directories!Provider, Directories!Session
<1>3. MemoryHeld'
  <2>1. cachedDoc' = {} /\ ~Directories!Up' /\ dirStage' # "clearing" /\ dirStage' # "leaving"
    BY DEF DirsInv, MemoryHeld, StartMove, AtWork, Directories!Up
  <2> QED
    BY <2>1 DEF MemoryHeld
<1>4. PastHeld'
  BY DEF DirsInv, PastHeld, StartMove
<1>5. \A d \in Directories!Names : dirs[d] # None => Kept(d, dirs[d])'
  <2> SUFFICES ASSUME NEW d \in Directories!Names, dirs[d] # None, NEW r, r = dirs[d]
               PROVE  Kept(d, r)'
    OBVIOUS
  <2> QED
    BY StartKeeps DEF DirsInv
<1> QED
  BY <1>1, <1>2, <1>3, <1>4, <1>5 DEF DirsInv

(* One that writes a directory.                                                    *)
LEMMA StartWrites ==
  ASSUME DirsInv, StartMove, NEW x \in Directories!Names, NEW q \in Stored,
         dirs' = [dirs EXCEPT ![x] = q], Kept(x, q)', cachedDoc' \in SUBSET DirKeys, MemoryHeld',
         x \in Earlier => /\ dirs[x] # None /\ q.config = dirs[x].config /\ q.oldDb = dirs[x].oldDb
                          /\ q.db = dirs[x].db /\ q.tags = dirs[x].tags,
         dirStage = "renaming" => x = Directories!DirOf("stable")
  PROVE  DirsInv'
<1>0. /\ dirs'[x] = q /\ \A d \in Directories!Names : d # x => dirs'[d] = dirs[d]
      /\ dirs \in [Directories!Names -> Stored \cup {None}]
  BY DEF DirsInv, DirTypes
<1>1. DirTypes'
  BY DEF DirsInv, DirTypes, StartMove
<1>2. EarlierHeld'
  <2>1. \A s \in Earlier : s \in Directories!Names
    BY KeysAre
  <2>2. dirStage # "clearing"
    BY DEF StartMove, AtWork
  <2>3. \A s \in Earlier : dirs'[s] # None =>
          /\ dirs[s] # None /\ dirs'[s].config = dirs[s].config /\ dirs'[s].oldDb = dirs[s].oldDb
          /\ dirs'[s].db = dirs[s].db /\ dirs'[s].tags = dirs[s].tags
    BY <1>0, <2>1
  <2> QED
    BY <2>2, <2>3 DEF DirsInv, EarlierHeld, StartMove, Directories!Provider, Directories!Session
<1>4. PastHeld'
  BY DEF DirsInv, PastHeld, StartMove
<1>5. ASSUME NEW d \in Directories!Names, dirs'[d] # None PROVE Kept(d, dirs[d])'
  <2>1. CASE d = x
    BY <1>0, <2>1
  <2>2. CASE d # x
    <3>1. PICK r : r = dirs[d]
      OBVIOUS
    <3>2. Kept(d, r) /\ dirs'[d] = r
      BY <1>0, <1>5, <2>2, <3>1 DEF DirsInv
    <3>3. Kept(d, r)'
      BY <2>2, <3>2, StartKeeps
    <3> QED
      BY <3>2, <3>3
  <2> QED
    BY <2>1, <2>2
<1> QED
  BY <1>1, <1>2, <1>4, <1>5 DEF DirsInv

(* What a copy is of its source.                                                   *)
LEMMA CopiesAre ==
  ASSUME DirsInv, NEW s \in Directories!Names, dirs[s] # None, NEW to \in Directories!Names,
         NEW next, Directories!Copies(s, to, next)
  PROVE  \E q \in Stored :
           /\ dirs' = [dirs EXCEPT ![to] = q]
           /\ q.config \subseteq dirs[s].config /\ In(q) \subseteq In(dirs[s])
           /\ \/ q = [dirs[s] EXCEPT !.tags = dirs[s].tags \cup {s}] /\ dirStage' = next
              \/ "torn" \in q.tags /\ dirStage' = "down"
<1>0. dirs[s] \in Stored
  BY DEF DirsInv, DirTypes
<1>1. ASSUME dirs' = [dirs EXCEPT ![to] = [dirs[s] EXCEPT !.tags = @ \cup {s}]], dirStage' = next
      PROVE  \E q \in Stored :
               /\ dirs' = [dirs EXCEPT ![to] = q]
               /\ q.config \subseteq dirs[s].config /\ In(q) \subseteq In(dirs[s])
               /\ q = [dirs[s] EXCEPT !.tags = dirs[s].tags \cup {s}] /\ dirStage' = next
  <2> DEFINE q == [dirs[s] EXCEPT !.tags = dirs[s].tags \cup {s}]
  <2>1. q \in Stored /\ q.config = dirs[s].config /\ q.oldDb = dirs[s].oldDb /\ q.db = dirs[s].db
    BY <1>0 DEF Stored
  <2>2. dirs' = [dirs EXCEPT ![to] = q]
    BY <1>0, <1>1 DEF Stored
  <2> HIDE DEF q
  <2>3. In(q) = In(dirs[s])
    BY <2>1 DEF In
  <2>4. q = [dirs[s] EXCEPT !.tags = dirs[s].tags \cup {s}]
    BY DEF q
  <2> QED
    BY <1>1, <2>1, <2>2, <2>3, <2>4
<1>2. ASSUME NEW q \in Directories!Torn(s), dirs' = [dirs EXCEPT ![to] = q], dirStage' = "down"
      PROVE  /\ q \in Stored
             /\ q.config \subseteq dirs[s].config /\ In(q) \subseteq In(dirs[s]) /\ "torn" \in q.tags
  <2>1. PICK c \in {{}, dirs[s].config}, o \in {None, dirs[s].oldDb} :
          q = [dirs[s] EXCEPT !.tags = @ \cup {"torn"}, !.config = c, !.oldDb = o, !.db = None]
    BY <1>2 DEF Directories!Torn
  <2>2. /\ c \in SUBSET DirKeys /\ c \subseteq dirs[s].config /\ o \in (SUBSET DirKeys) \cup {None}
        /\ Holds(o) \subseteq Holds(dirs[s].oldDb)
    BY <1>0 DEF Stored, Holds
  <2>3. /\ q \in Stored /\ q.config = c /\ q.oldDb = o /\ q.db = None /\ "torn" \in q.tags
    BY <1>0, <2>1, <2>2 DEF Stored
  <2> QED
    BY <2>2, <2>3 DEF In, Holds
<1> QED
  BY <1>1, <1>2 DEF Directories!Copies

(* A copy of a directory that is kept is kept, where it may be.                           *)
LEMMA CopyKept ==
  ASSUME DirsInv, StartMove, NEW s \in Directories!Names, dirs[s] # None,
         NEW to \in Directories!Names, NEW q \in Stored,
         q.config \subseteq dirs[s].config, In(q) \subseteq In(dirs[s]),
         ~custom => Written(s) \subseteq Written(to),
         to \notin spoiled /\ to # "canary" =>
           /\ In(dirs[s]) \cap erased[to] = {}
           /\ \A t \in dirs[s].config : [key |-> t, dir |-> to] \notin deletedBy,
         Copied(to, q)'
  PROVE  Kept(to, q)'
<1>0. Kept(s, dirs[s]) /\ custom' = custom /\ works' = works /\ spoiled' = spoiled
      /\ erased' = erased /\ deletedBy' = deletedBy
  BY DEF DirsInv, StartMove
<1>1. Apart(to, q)'
  BY <1>0 DEF Kept, Apart, Written
<1>2. Clean(to, q)'
  BY <1>0 DEF Clean
<1>3. \A t : Secret(t)' = Secret(t)
  BY DEF StartMove, Secret, Directories!Service
<1>4. \A t \in q.config : Secret(t)
  BY <1>0 DEF Kept
<1> QED
  BY <1>1, <1>2, <1>3, <1>4 DEF Kept

(* The places a start knows.                                                      *)
LEMMA PlacesAre ==
  /\ Directories!DirOf("stable") \in Directories!Names \ Earlier
  /\ Directories!DirOf("stable") = IF custom THEN "custom" ELSE "spectrum"
  /\ Directories!DirOf("canary") = IF custom THEN "custom" ELSE "canary"
  /\ \A s \in Earlier : ~custom => Written(s) \subseteq Written("spectrum")
  /\ ~custom => Written("spectrum") \subseteq Written("canary")
BY DEF Directories!DirOf, Directories!Names, Earlier, Written

(* The steps of a start leave alone what they say.                           *)
LEMMA RestIsStart ==
  ASSUME DirsInv, Directories!RestOfStart, ~AtWork, dirStage' \in Directories!Stages
  PROVE  StartMove /\ channel' = channel
BY DEF Directories!RestOfStart, Directories!pastVars, StartMove, DirsInv, DirTypes

(* The data of an earlier build are copied, or torn when the process dies    *)
(* in it.                                                                    *)
LEMMA StartMigrates ==
  ASSUME DirsInv, NEW s \in Earlier, NEW next \in {"marking", "renaming"},
         dirs[s] # None, dirStage \in {"legacy", "launchkit"},
         next = IF s = "legacy" THEN "marking" ELSE "renaming",
         Directories!Copies(s, Directories!DirOf("stable"), next),
         cachedDoc' = cachedDoc, Directories!RestOfStart
  PROVE  DirsInv'
<1> DEFINE to == Directories!DirOf("stable")
<1>1. to \in Directories!Names /\ to \notin Earlier /\ s \in Directories!Names /\ to # s
  BY PlacesAre, KeysAre
<1>2. PICK q \in Stored :
        /\ dirs' = [dirs EXCEPT ![to] = q]
        /\ q.config \subseteq dirs[s].config /\ In(q) \subseteq In(dirs[s])
        /\ \/ q = [dirs[s] EXCEPT !.tags = dirs[s].tags \cup {s}] /\ dirStage' = next
           \/ "torn" \in q.tags /\ dirStage' = "down"
  BY <1>1, CopiesAre
<1>3. ~AtWork /\ ~AtWork' /\ dirStage' \in Directories!Stages /\ dirStage # "clearing"
      /\ dirStage # "renaming"
  BY <1>2 DEF AtWork, Directories!Stages
<1>4. StartMove /\ channel' = channel
  BY <1>3, RestIsStart
<1>5. /\ dirs[s].config = {Directories!Provider(s)} /\ dirs[s].oldDb = {Directories!Session(s)}
      /\ dirs[s].db = None /\ dirs[s].tags = {} /\ erased[to] = {}
      /\ to \notin spoiled /\ to # "canary" =>
           [key |-> Directories!Provider(s), dir |-> to] \notin deletedBy
  BY <1>1, <1>3 DEF DirsInv, EarlierHeld
<1>6. ~custom => Written(s) \subseteq Written(to)
  BY PlacesAre
<1>7. CASE q = [dirs[s] EXCEPT !.tags = dirs[s].tags \cup {s}] /\ dirStage' = next
  <2>1. q.config = dirs[s].config /\ q.oldDb = dirs[s].oldDb /\ q.tags = {s}
    BY <1>1, <1>5, <1>7 DEF DirsInv, DirTypes, Stored
  <2>2. Directories!DirOf("stable")' = to
    BY <1>4 DEF StartMove, Directories!DirOf
  <2>3. ASSUME NEW d, d = to PROVE Copied(d, q)'
    <3>1. s = "launchkit" => dirStage' = "renaming" /\ d = Directories!DirOf("stable")'
      BY <1>7, <2>2, <2>3
    <3> QED
      BY <1>5, <2>1, <3>1 DEF Copied, Earlier, Directories!Provider, Directories!Session
  <2>4. PICK d \in Directories!Names : d = to
    BY <1>1
  <2>5. Kept(d, q)'
    BY <1>1, <1>2, <1>4, <1>5, <1>6, <2>3, <2>4, CopyKept
  <2>6. MemoryHeld'
    <3>1. cachedDoc' = {} /\ ~Directories!Up' /\ dirStage' # "clearing" /\ dirStage' # "leaving"
      BY <1>3 DEF DirsInv, MemoryHeld, AtWork, Directories!Up
    <3>2. dirs'[to] = q /\ dirs'[s] # None /\ q # None
      BY <1>1, <1>2, StoredApart DEF DirsInv, DirTypes
    <3>3. dirStage' = "marking" => s = "legacy"
      BY <1>7
    <3>4. dirStage' = "renaming" => s = "launchkit"
      BY <1>7 DEF Earlier
    <3>5. dirStage' # "markingLaunchkit"
      BY <1>7
    <3>6. dirs'[Directories!DirOf("stable")'] = q
      BY <2>2, <3>2
    <3>7. Directories!Session("launchkit")' = Directories!Session("launchkit")
      BY DEF Directories!Session
    <3> QED
      BY <1>3, <1>5, <2>1, <3>1, <3>2, <3>3, <3>4, <3>5, <3>6, <3>7 DEF MemoryHeld
  <2>7. dirs' = [dirs EXCEPT ![d] = q] /\ d \notin Earlier /\ cachedDoc' \in SUBSET DirKeys
    BY <1>1, <1>2, <2>4 DEF DirsInv, DirTypes
  <2> QED
    BY <1>3, <1>4, <2>5, <2>6, <2>7, StartWrites
<1>8. CASE "torn" \in q.tags /\ dirStage' = "down"
  <2>1. PICK d \in Directories!Names : d = to
    BY <1>1
  <2>2. Copied(d, q)'
    BY <1>8 DEF Copied
  <2>3. Kept(d, q)'
    BY <1>1, <1>2, <1>4, <1>5, <1>6, <2>1, <2>2, CopyKept
  <2>4. MemoryHeld'
    <3>1. cachedDoc' = {} /\ ~Directories!Up'
      BY <1>3 DEF DirsInv, MemoryHeld, AtWork, Directories!Up
    <3> QED
      BY <1>8, <3>1 DEF MemoryHeld, AtWork
  <2>5. dirs' = [dirs EXCEPT ![d] = q] /\ d \notin Earlier /\ cachedDoc' \in SUBSET DirKeys
    BY <1>1, <1>2, <2>1 DEF DirsInv, DirTypes
  <2> QED
    BY <1>3, <1>4, <2>3, <2>4, <2>5, StartWrites
<1> QED
  BY <1>2, <1>7, <1>8

(* The earlier directory is marked as copied.                                *)
LEMMA StartMarks ==
  ASSUME DirsInv, NEW s \in Earlier, NEW mark \in {"support", "spectrum"}, dirs[s] # None,
         dirs' = [dirs EXCEPT ![s].marks = @ \cup {mark}],
         dirStage \in {"marking", "markingLaunchkit"}, dirStage' \in {"launchkit", "seeding"},
         cachedDoc' = cachedDoc, Directories!RestOfStart
  PROVE  DirsInv'
<1>1. s \in Directories!Names /\ dirs[s] \in Stored
  BY KeysAre DEF DirsInv, DirTypes
<1>2. PICK q \in Stored : /\ dirs' = [dirs EXCEPT ![s] = q]
                          /\ q.config = dirs[s].config /\ q.oldDb = dirs[s].oldDb
                          /\ q.db = dirs[s].db /\ q.tags = dirs[s].tags
  <2> DEFINE q == [dirs[s] EXCEPT !.marks = @ \cup {mark}]
  <2>1. q \in Stored /\ q.config = dirs[s].config /\ q.oldDb = dirs[s].oldDb
        /\ q.db = dirs[s].db /\ q.tags = dirs[s].tags
    BY <1>1 DEF Stored
  <2>2. dirs' = [dirs EXCEPT ![s] = q]
    OBVIOUS
  <2> HIDE DEF q
  <2> QED
    BY <2>1, <2>2
<1>3. ~AtWork /\ dirStage' \in Directories!Stages /\ dirStage # "renaming"
  BY DEF AtWork, Directories!Stages
<1>4. StartMove
  BY <1>3, RestIsStart
<1>5. Kept(s, dirs[s])
  BY <1>1 DEF DirsInv
<1>6. Kept(s, q)
  BY <1>2, <1>5 DEF Kept, Copied, Apart, Clean, In
<1>7. Kept(s, q)'
  BY <1>1, <1>3, <1>4, <1>6, StartKeeps
<1>8. MemoryHeld'
  BY <1>3 DEF DirsInv, MemoryHeld, AtWork, Directories!Up
<1>9. cachedDoc' \in SUBSET DirKeys
  BY DEF DirsInv, DirTypes
<1> QED
  BY <1>1, <1>2, <1>3, <1>4, <1>7, <1>8, <1>9, StartWrites

(* The start renames the database that it has copied.                             *)
LEMMA StartRenames == DirsInv /\ Directories!RenamesDb => DirsInv'
<1> SUFFICES ASSUME DirsInv, Directories!RenamesDb PROVE DirsInv'
  OBVIOUS
<1>1. PICK t \in Directories!Names : t = Directories!DirOf("stable") /\ t \notin Earlier
  BY PlacesAre
<1>2. PICK r : r = dirs[t]
  OBVIOUS
<1>3. PICK o : o = {Directories!Session("launchkit")}
  OBVIOUS
<1>4. dirStage = "renaming" /\ dirStage' = "markingLaunchkit" /\ cachedDoc' = cachedDoc
      /\ Directories!RestOfStart
  BY DEF Directories!RenamesDb, Directories!Steps
<1>5. r # None /\ r.oldDb = o /\ r \in Stored /\ o \in SUBSET DirKeys /\ o # None
  <2>1. r # None /\ r.oldDb = o
    BY <1>1, <1>2, <1>3, <1>4 DEF DirsInv, MemoryHeld
  <2>2. o \in SUBSET DirKeys
    BY <1>3, KeysAre DEF Earlier
  <2> QED
    BY <1>2, <2>1, <2>2, StoredApart DEF DirsInv, DirTypes
<1>6. PICK q \in Stored : /\ dirs' = [dirs EXCEPT ![t] = q]
                          /\ q.config = r.config /\ q.oldDb = None /\ q.db = o /\ q.tags = r.tags
  <2> DEFINE q == [r EXCEPT !.db = o, !.oldDb = None]
  <2>1. q \in Stored /\ q.config = r.config /\ q.oldDb = None /\ q.db = o /\ q.tags = r.tags
    BY <1>5 DEF Stored
  <2>2. dirs' = [dirs EXCEPT ![t].db = dirs[t].oldDb, ![t].oldDb = None]
    BY <1>1, <1>2, <1>5 DEF Directories!RenamesDb
  <2>3. dirs' = [dirs EXCEPT ![t] = q]
    BY <1>1, <1>2, <1>5, <2>2 DEF DirsInv, DirTypes
  <2> HIDE DEF q
  <2> QED
    BY <2>1, <2>3
<1>7. ~AtWork /\ ~AtWork' /\ dirStage' \in Directories!Stages /\ dirStage # "clearing"
  BY <1>4 DEF AtWork, Directories!Stages
<1>8. StartMove /\ channel' = channel
  BY <1>4, <1>7, RestIsStart
<1>9. Kept(t, r)
  BY <1>2, <1>5 DEF DirsInv
<1>10. In(q) \subseteq In(r)
  BY <1>5, <1>6 DEF In, Holds
<1>11. Copied(t, q)'
  <2>1. o = {Directories!Session("launchkit")'}
    BY <1>3 DEF Directories!Session
  <2>2. \A s \in q.tags \cap Earlier : "torn" \notin q.tags => Directories!Provider(s)' \in q.config
    BY <1>6, <1>9 DEF Kept, Copied, Directories!Provider
  <2>3. \A s \in q.tags \cap Earlier : s = "launchkit" => q.db # None /\ Directories!Session(s)' \in q.db
    BY <1>5, <1>6, <2>1
  <2> QED
    BY <2>2, <2>3 DEF Copied
<1>12. Kept(t, q)'
  <2>1. \A x : Secret(x)' = Secret(x)
    BY <1>8 DEF StartMove, Secret, Directories!Service
  <2>2. Apart(t, q)'
    BY <1>8, <1>9, <1>10 DEF StartMove, Kept, Apart, Written
  <2>3. Clean(t, q)'
    BY <1>6, <1>7, <1>8, <1>9, <1>10 DEF StartMove, Kept, Clean
  <2>4. \A x \in q.config : Secret(x)
    BY <1>6, <1>9 DEF Kept
  <2> QED
    BY <1>11, <2>1, <2>2, <2>3, <2>4 DEF Kept
<1>13. MemoryHeld'
  <2>1. cachedDoc' = {} /\ ~Directories!Up' /\ dirs["launchkit"] # None
    BY <1>4, <1>7 DEF DirsInv, MemoryHeld, AtWork, Directories!Up
  <2>2. dirs'["launchkit"] # None
    BY <1>1, <1>6, <2>1 DEF Earlier
  <2> QED
    BY <1>4, <1>7, <2>1, <2>2 DEF MemoryHeld
<1>14. cachedDoc' \in SUBSET DirKeys
  BY <1>4 DEF DirsInv, DirTypes
<1> QED
  BY <1>1, <1>6, <1>8, <1>12, <1>13, <1>14, StartWrites

(* A canary build begins with the stable build's data.                             *)
LEMMA StartSeeds == DirsInv /\ Directories!SeedsCanary => DirsInv'
<1> SUFFICES ASSUME DirsInv, Directories!SeedsCanary PROVE DirsInv'
  OBVIOUS
<1>1. dirStage = "seeding" /\ cachedDoc' = cachedDoc /\ Directories!RestOfStart
  BY DEF Directories!SeedsCanary
<1>2. CASE ~(channel = "canary" /\ dirs[Directories!DirOf("canary")] = None
             /\ dirs[Directories!DirOf("stable")] # None)
  <2>1. dirStage' = "opening" /\ dirs' = dirs
    BY <1>2 DEF Directories!SeedsCanary
  <2>2. ~AtWork /\ ~AtWork' /\ dirStage' \in Directories!Stages
    BY <1>1, <2>1 DEF AtWork, Directories!Stages
  <2> QED
    BY <1>1, <2>1, <2>2, RestIsStart, StartLeaves
<1>3. CASE channel = "canary" /\ dirs[Directories!DirOf("canary")] = None
           /\ dirs[Directories!DirOf("stable")] # None
  <2>1. ~custom /\ Directories!DirOf("canary") = "canary" /\ Directories!DirOf("stable") = "spectrum"
    BY <1>3, PlacesAre
  <2>2. Directories!Copies("spectrum", "canary", "opening") /\ dirs["spectrum"] # None
    BY <1>3, <2>1 DEF Directories!SeedsCanary
  <2>3. "spectrum" \in Directories!Names /\ "canary" \in Directories!Names
        /\ "canary" \notin Earlier /\ "spectrum" \notin Earlier
    BY DEF Directories!Names, Earlier
  <2>4. PICK q \in Stored :
          /\ dirs' = [dirs EXCEPT !["canary"] = q]
          /\ q.config \subseteq dirs["spectrum"].config /\ In(q) \subseteq In(dirs["spectrum"])
          /\ \/ /\ q = [dirs["spectrum"] EXCEPT !.tags = dirs["spectrum"].tags \cup {"spectrum"}]
                /\ dirStage' = "opening"
             \/ "torn" \in q.tags /\ dirStage' = "down"
    BY <2>2, <2>3, CopiesAre
  <2>5. ~AtWork /\ ~AtWork' /\ dirStage' \in Directories!Stages /\ dirStage # "renaming"
    BY <1>1, <2>4 DEF AtWork, Directories!Stages
  <2>6. StartMove
    BY <1>1, <2>5, RestIsStart
  <2>7. Copied("canary", q)'
    <3>1. CASE "torn" \in q.tags
      BY <3>1 DEF Copied
    <3>2. CASE /\ q = [dirs["spectrum"] EXCEPT !.tags = dirs["spectrum"].tags \cup {"spectrum"}]
               /\ "torn" \notin q.tags
      <4>1. PICK r : r = dirs["spectrum"]
        OBVIOUS
      <4>2. r \in Stored
        BY <2>2, <2>3, <4>1 DEF DirsInv, DirTypes
      <4>3. q.config = r.config /\ q.db = r.db /\ q.tags = r.tags \cup {"spectrum"}
        BY <3>2, <4>1, <4>2 DEF Stored
      <4>4. Copied("spectrum", r)
        BY <2>2, <2>3, <4>1 DEF DirsInv, Kept
      <4> QED
        BY <2>3, <2>5, <3>2, <4>3, <4>4 DEF Copied, Directories!Provider, Directories!Session
    <3> QED
      BY <2>4, <3>1, <3>2
  <2>8. ~custom => Written("spectrum") \subseteq Written("canary")
    BY PlacesAre
  <2>9. Kept("canary", q)'
    BY <2>2, <2>3, <2>4, <2>6, <2>7, <2>8, CopyKept
  <2>10. MemoryHeld'
    <3>1. cachedDoc' = {} /\ ~Directories!Up'
      BY <1>1, <2>5 DEF DirsInv, MemoryHeld, AtWork, Directories!Up
    <3> QED
      BY <2>4, <2>5, <3>1 DEF MemoryHeld
  <2>11. cachedDoc' \in SUBSET DirKeys
    BY <1>1 DEF DirsInv, DirTypes
  <2> QED
    BY <2>3, <2>4, <2>5, <2>6, <2>9, <2>10, <2>11, StartWrites
<1> QED
  BY <1>2, <1>3

(* The data are opened.                                                          *)
LEMMA StartOpens == DirsInv /\ Directories!Opens => DirsInv'
<1> SUFFICES ASSUME DirsInv, Directories!Opens PROVE DirsInv'
  OBVIOUS
<1>1. dirStage = "opening" /\ dirStage' = "up" /\ Directories!RestOfStart
  BY DEF Directories!Opens, Directories!Steps
<1>2. PICK m \in Directories!Names : m = Directories!Mine /\ m \notin Earlier
  BY DirsOf DEF Directories!Mine, DirsInv, DirTypes
<1>3. PICK r : r = IF dirs[m] = None THEN Directories!Blank ELSE dirs[m]
  OBVIOUS
<1>4. PICK b : b = IF r.db = None THEN {} ELSE r.db
  OBVIOUS
<1>5. dirs' = [dirs EXCEPT ![m] = [r EXCEPT !.db = b]] /\ cachedDoc' = r.config
  BY <1>2, <1>3, <1>4 DEF Directories!Opens
<1>6. r \in Stored
  <2>1. Directories!Blank \in Stored
    BY DEF Directories!Blank, Stored
  <2> QED
    BY <1>3, <2>1 DEF DirsInv, DirTypes
<1>7. b \in SUBSET DirKeys /\ b # None /\ b = Holds(r.db) /\ (r.db # None => b = r.db)
  <2>1. r.db \in (SUBSET DirKeys) \cup {None}
    BY <1>6 DEF Stored
  <2>2. b \in SUBSET DirKeys
    BY <1>4, <2>1
  <2> QED
    BY <1>4, <2>2, StoredApart DEF Holds
<1>8. PICK q \in Stored : /\ dirs' = [dirs EXCEPT ![m] = q]
                          /\ q.config = r.config /\ q.oldDb = r.oldDb /\ q.db = b /\ q.tags = r.tags
  <2> DEFINE q == [r EXCEPT !.db = b]
  <2>1. q \in Stored /\ q.config = r.config /\ q.oldDb = r.oldDb /\ q.db = b /\ q.tags = r.tags
    BY <1>6, <1>7 DEF Stored
  <2>2. dirs' = [dirs EXCEPT ![m] = q]
    BY <1>5
  <2> HIDE DEF q
  <2> QED
    BY <2>1, <2>2
<1>9. ~AtWork /\ AtWork' /\ dirStage' \in Directories!Stages /\ dirStage # "renaming"
      /\ dirStage # "clearing"
  BY <1>1 DEF AtWork, Directories!Stages
<1>10. StartMove /\ channel' = channel
  BY <1>1, <1>9, RestIsStart
<1>11. Directories!Mine' = m
  BY <1>2, <1>10 DEF StartMove, Directories!Mine, Directories!DirOf
<1>12. Kept(m, r)
  <2>1. CASE dirs[m] # None
    BY <1>2, <1>3, <2>1 DEF DirsInv
  <2>2. CASE dirs[m] = None
    <3>1. r.config = {} /\ r.tags = {} /\ r.oldDb = None /\ r.db = None
      BY <1>3, <2>2 DEF Directories!Blank
    <3>2. In(r) = {}
      BY <3>1 DEF In, Holds
    <3> QED
      BY <3>1, <3>2 DEF Kept, Copied, Apart, Clean
  <2> QED
    BY <2>1, <2>2
<1>13. Kept(m, q)
  <2>1. In(q) = In(r)
    <3>1. Holds(b) = b
      BY <1>7 DEF Holds
    <3> QED
      BY <1>7, <1>8, <3>1 DEF In
  <2>2. Copied(m, q)
    BY <1>7, <1>8, <1>9, <1>12 DEF Kept, Copied
  <2> QED
    BY <1>8, <1>12, <2>1, <2>2 DEF Kept, Apart, Clean
<1>14. Kept(m, q)'
  BY <1>9, <1>10, <1>13, StartKeeps
<1>15. MemoryHeld'
  <2>1. dirs'[m] = q /\ q # None
    BY <1>2, <1>8, StoredApart DEF DirsInv, DirTypes
  <2>2. Directories!Up' => dirs'[m] # None /\ dirs'[m].db # None
    BY <1>7, <1>8, <2>1
  <2>3. \A t \in cachedDoc' :
          (~custom' => t.by \in Written(m)') /\ t.n < works' + 2 /\ Secret(t)'
    <3> SUFFICES ASSUME NEW t \in r.config
                 PROVE (~custom' => t.by \in Written(m)') /\ t.n < works' + 2 /\ Secret(t)'
      BY <1>5
    <3>1. t \in q.config /\ t \in In(q)
      BY <1>8 DEF In
    <3> QED
      BY <1>14, <3>1 DEF Kept, Apart
  <2>4. dirs'[m].config = cachedDoc'
    BY <1>5, <1>8, <2>1
  <2> QED
    BY <1>1, <1>9, <1>11, <2>1, <2>2, <2>3, <2>4 DEF MemoryHeld, Written
<1>16. cachedDoc' \in SUBSET DirKeys
  BY <1>5, <1>6 DEF Stored
<1> QED
  BY <1>2, <1>8, <1>9, <1>10, <1>14, <1>15, <1>16, StartWrites

(* The process ends in its start.                                                   *)
LEMMA StartDies == DirsInv /\ Directories!Dies => DirsInv'
<1> SUFFICES ASSUME DirsInv, Directories!Dies PROVE DirsInv'
  OBVIOUS
<1>1. /\ dirStage \in {"marking", "renaming", "markingLaunchkit", "opening"}
      /\ dirStage' = "down" /\ cachedDoc' = cachedDoc /\ Directories!RestOfStart
  BY DEF Directories!Dies
<1>2. ~AtWork /\ ~AtWork' /\ dirStage' \in Directories!Stages /\ dirStage # "clearing"
  BY <1>1 DEF AtWork, Directories!Stages
<1>3. StartMove
  BY <1>1, <1>2, RestIsStart
<1>4. CASE dirStage # "renaming"
  <2>1. dirs' = dirs
    BY <1>4 DEF Directories!Dies
  <2> QED
    BY <1>1, <1>2, <1>3, <1>4, <2>1, StartLeaves
<1>5. CASE dirStage = "renaming"
  <2>1. PICK t \in Directories!Names : t = Directories!DirOf("stable") /\ t \notin Earlier
    BY PlacesAre
  <2>2. dirs[t] # None /\ dirs[t] \in Stored
    BY <1>5, <2>1 DEF DirsInv, DirTypes, MemoryHeld
  <2>3. PICK r : r = dirs[t]
    OBVIOUS
  <2>4. PICK q \in Stored :
          /\ dirs' = [dirs EXCEPT ![t] = q] /\ "torn" \in q.tags
          /\ q.config = r.config /\ In(q) = In(r)
    <3> DEFINE q == [r EXCEPT !.tags = @ \cup {"torn"}]
    <3>1. q \in Stored /\ q.config = r.config /\ q.oldDb = r.oldDb /\ q.db = r.db /\ "torn" \in q.tags
      BY <2>2, <2>3 DEF Stored
    <3>2. dirs' = [dirs EXCEPT ![t] = q]
      BY <1>5, <2>1, <2>3 DEF Directories!Dies
    <3> HIDE DEF q
    <3>3. In(q) = In(r)
      BY <3>1 DEF In
    <3> QED
      BY <3>1, <3>2, <3>3
  <2>5. Kept(t, r)
    BY <2>2, <2>3 DEF DirsInv
  <2>6. Kept(t, q)'
    <3>1. \A x : Secret(x)' = Secret(x)
      BY <1>3 DEF StartMove, Secret, Directories!Service
    <3>2. Apart(t, q)'
      BY <1>3, <2>4, <2>5 DEF StartMove, Kept, Apart, Written
    <3>3. Clean(t, q)'
      BY <1>2, <1>3, <2>4, <2>5 DEF StartMove, Kept, Clean
    <3>4. \A x \in q.config : Secret(x)
      BY <2>4, <2>5 DEF Kept
    <3>5. Copied(t, q)'
      BY <2>4 DEF Copied
    <3> QED
      BY <3>1, <3>2, <3>3, <3>4, <3>5 DEF Kept
  <2>7. MemoryHeld'
    <3>1. cachedDoc' = {} /\ ~Directories!Up'
      BY <1>1, <1>2 DEF DirsInv, MemoryHeld, AtWork, Directories!Up
    <3> QED
      BY <1>1, <1>2, <3>1 DEF MemoryHeld
  <2>8. cachedDoc' \in SUBSET DirKeys
    BY <1>1 DEF DirsInv, DirTypes
  <2> QED
    BY <1>3, <2>1, <2>4, <2>6, <2>7, <2>8, StartWrites
<1> QED
  BY <1>4, <1>5

(* Every step of a start.                                                            *)
LEMMA StartSteps ==
  DirsInv /\ (\/ \E ch \in Directories!Channels : Directories!Launch(ch)
              \/ Directories!MigratesLegacy \/ Directories!MarksLegacy
              \/ Directories!MigratesLaunchkit \/ Directories!MarksLaunchkit) => DirsInv'
<1>1. ASSUME DirsInv, NEW ch \in Directories!Channels, Directories!Launch(ch) PROVE DirsInv'
  <2>1. /\ dirStage = "down" /\ dirStage' \in {"opening", "legacy"} /\ channel' = ch
        /\ dirs' = dirs /\ cachedDoc' = cachedDoc
    BY <1>1 DEF Directories!Launch, Directories!Steps
  <2>2. ~AtWork /\ ~AtWork' /\ dirStage' \in Directories!Stages
    BY <2>1 DEF AtWork, Directories!Stages
  <2>3. StartMove
    BY <1>1, <2>1, <2>2 DEF StartMove, Directories!Launch, Directories!pastVars
  <2> QED
    BY <1>1, <2>1, <2>2, <2>3, StartLeaves
<1>2. ASSUME DirsInv, Directories!MigratesLegacy PROVE DirsInv'
  <2>1. dirStage = "legacy" /\ cachedDoc' = cachedDoc /\ Directories!RestOfStart
    BY <1>2 DEF Directories!MigratesLegacy
  <2>2. CASE platform = "macos" /\ Directories!Due("legacy", Directories!DirOf("stable"), "support")
    <3>1. /\ Directories!Copies("legacy", Directories!DirOf("stable"), "marking")
          /\ dirs["legacy"] # None
      BY <1>2, <2>2 DEF Directories!MigratesLegacy, Directories!Due
    <3>2. "legacy" \in Earlier
      BY DEF Earlier
    <3> QED
      BY <1>2, <2>1, <3>1, <3>2, StartMigrates
  <2>3. CASE ~(platform = "macos" /\ Directories!Due("legacy", Directories!DirOf("stable"), "support"))
    <3>1. dirStage' = "launchkit" /\ dirs' = dirs
      BY <1>2, <2>3 DEF Directories!MigratesLegacy
    <3>2. ~AtWork /\ ~AtWork' /\ dirStage' \in Directories!Stages
      BY <2>1, <3>1 DEF AtWork, Directories!Stages
    <3> QED
      BY <1>2, <2>1, <3>1, <3>2, RestIsStart, StartLeaves
  <2> QED
    BY <2>2, <2>3
<1>3. ASSUME DirsInv, Directories!MarksLegacy PROVE DirsInv'
  <2>1. /\ dirStage = "marking" /\ dirStage' = "launchkit" /\ cachedDoc' = cachedDoc
        /\ Directories!RestOfStart
        /\ dirs' = [dirs EXCEPT !["legacy"].marks = @ \cup {"support"}]
    BY <1>3 DEF Directories!MarksLegacy, Directories!Steps
  <2>2. "legacy" \in Earlier
    BY DEF Earlier
  <2>3. dirs["legacy"] # None
    BY <1>3, <2>1 DEF DirsInv, MemoryHeld
  <2> QED
    BY <1>3, <2>1, <2>2, <2>3, StartMarks
<1>4. ASSUME DirsInv, Directories!MigratesLaunchkit PROVE DirsInv'
  <2>1. dirStage = "launchkit" /\ cachedDoc' = cachedDoc /\ Directories!RestOfStart
    BY <1>4 DEF Directories!MigratesLaunchkit
  <2>2. CASE Directories!Due("launchkit", Directories!DirOf("stable"), "spectrum")
    <3>1. /\ Directories!Copies("launchkit", Directories!DirOf("stable"), "renaming")
          /\ dirs["launchkit"] # None
      BY <1>4, <2>2 DEF Directories!MigratesLaunchkit, Directories!Due
    <3>2. "launchkit" \in Earlier
      BY DEF Earlier
    <3> QED
      BY <1>4, <2>1, <3>1, <3>2, StartMigrates
  <2>3. CASE ~Directories!Due("launchkit", Directories!DirOf("stable"), "spectrum")
    <3>1. dirStage' = "seeding" /\ dirs' = dirs
      BY <1>4, <2>3 DEF Directories!MigratesLaunchkit
    <3>2. ~AtWork /\ ~AtWork' /\ dirStage' \in Directories!Stages
      BY <2>1, <3>1 DEF AtWork, Directories!Stages
    <3> QED
      BY <1>4, <2>1, <3>1, <3>2, RestIsStart, StartLeaves
  <2> QED
    BY <2>2, <2>3
<1>5. ASSUME DirsInv, Directories!MarksLaunchkit PROVE DirsInv'
  <2>1. /\ dirStage = "markingLaunchkit" /\ dirStage' = "seeding" /\ cachedDoc' = cachedDoc
        /\ Directories!RestOfStart
        /\ dirs' = [dirs EXCEPT !["launchkit"].marks = @ \cup {"spectrum"}]
    BY <1>5 DEF Directories!MarksLaunchkit, Directories!Steps
  <2>2. "launchkit" \in Earlier
    BY DEF Earlier
  <2>3. dirs["launchkit"] # None
    BY <1>5, <2>1 DEF DirsInv, MemoryHeld
  <2> QED
    BY <1>5, <2>1, <2>2, <2>3, StartMarks
<1> QED
  BY <1>1, <1>2, <1>3, <1>4, <1>5

(* Work and the reset: what they keep.                                             *)
WorkMove ==
  /\ UNCHANGED <<platform, custom, channel>> /\ AtWork
  /\ works' \in Nat /\ works <= works' /\ spoiled \subseteq spoiled'
  /\ \A t : Secret(t) => Secret(t)'

(* A directory that is not written stays kept, where nothing of it is erased.              *)
LEMMA WorkKeeps ==
  ASSUME DirsInv, WorkMove, NEW d \in Directories!Names, NEW r, r = dirs[d], r # None, Clean(d, r)'
  PROVE  Kept(d, r)'
<1>1. Kept(d, r) /\ dirStage # "renaming"
  BY DEF DirsInv, WorkMove, AtWork
<1>2. Copied(d, r)'
  BY <1>1 DEF Kept, Copied, Directories!Provider, Directories!Session
<1>3. Apart(d, r)'
  <2> SUFFICES ASSUME NEW t \in In(r) PROVE (~custom' => t.by \in Written(d)') /\ t.n < works' + 2
    BY DEF Apart
  <2>1. (~custom => t.by \in Written(d)) /\ t.n < works + 2 /\ works \in Nat
    BY <1>1 DEF Kept, Apart, DirsInv, DirTypes
  <2>2. t.n \in Nat
    <3>1. r \in Stored
      BY DEF DirsInv, DirTypes
    <3>2. t \in DirKeys
      BY <3>1, StoredApart DEF Stored, In, Holds
    <3> QED
      BY <3>2, StoredApart DEF DirKeys
  <2> QED
    BY <2>1, <2>2 DEF WorkMove, Written
<1>4. \A t \in r.config : Secret(t)'
  BY <1>1 DEF Kept, WorkMove
<1> QED
  BY <1>2, <1>3, <1>4 DEF Kept

(* A step that writes only the build's own directory.                                  *)
LEMMA WorkWrites ==
  ASSUME DirsInv, WorkMove, NEW m \in Directories!Names \ Earlier, NEW q \in Stored,
         m = Directories!Mine, dirs' = [dirs EXCEPT ![m] = q], Kept(m, q)',
         dirStage' = dirStage, UNCHANGED <<erased, deletedBy>>,
         cachedDoc' \in SUBSET DirKeys, MemoryHeld', PastHeld'
  PROVE  DirsInv'
<1>0. /\ dirs'[m] = q /\ \A d \in Directories!Names : d # m => dirs'[d] = dirs[d]
      /\ dirs \in [Directories!Names -> Stored \cup {None}]
  BY DEF DirsInv, DirTypes
<1>1. Directories!Mine' = Directories!Mine
  BY DEF WorkMove, Directories!Mine, Directories!DirOf
<1>2. DirTypes'
  BY DEF DirsInv, DirTypes, WorkMove
<1>3. EarlierHeld'
  <2>1. \A s \in Earlier : s \in Directories!Names /\ dirs'[s] = dirs[s]
    BY <1>0, KeysAre
  <2> QED
    BY <1>1, <2>1 DEF DirsInv, EarlierHeld, WorkMove, Directories!Provider, Directories!Session
<1>4. ASSUME NEW d \in Directories!Names, dirs'[d] # None PROVE Kept(d, dirs[d])'
  <2>1. CASE d = m
    BY <1>0, <2>1
  <2>2. CASE d # m
    <3>1. PICK r : r = dirs[d]
      OBVIOUS
    <3>2. Kept(d, r) /\ r # None /\ dirs'[d] = r
      BY <1>0, <1>4, <2>2, <3>1 DEF DirsInv
    <3>3. Clean(d, r)'
      BY <1>1, <3>2 DEF Kept, Clean, WorkMove
    <3> QED
      BY <3>1, <3>2, <3>3, WorkKeeps
  <2> QED
    BY <2>1, <2>2
<1> QED
  BY <1>2, <1>3, <1>4 DEF DirsInv

(* The directory of the build that runs.                                          *)
LEMMA MineIs ==
  ASSUME DirsInv
  PROVE  /\ Directories!Mine \in Directories!Names \ Earlier
         /\ ~custom => channel \in Written(Directories!Mine)
         /\ channel \in Owners
  BY DirsOf DEF DirsInv, DirTypes, Directories!Mine, Owners

(* A new key is none of those there are.                                          *)
LEMMA NewKey ==
  ASSUME DirsInv, works < MaxWorks, NEW t, t = [by |-> channel, n |-> works + 2]
  PROVE  /\ t \in DirKeys /\ t.by = channel /\ t.n = works + 2 /\ works + 1 \in Nat
         /\ ~(works + 2 < works + 2) /\ works + 2 < works + 1 + 2 /\ works <= works + 1
<1>1. works \in Nat /\ works + 2 \in 0..(MaxWorks + 1)
  BY StoredApart DEF DirsInv, DirTypes
<1> QED
  BY <1>1, MineIs DEF DirKeys

(* What is of the past stays so.                                               *)
LEMMA PastStays ==
  ASSUME DirsInv, works' = works + 1, UNCHANGED <<erased, deletedBy, doomed>>
  PROVE  PastHeld'
<1>1. works \in Nat
  BY DEF DirsInv, DirTypes
<1>2. \A t \in DirKeys : t.n \in Nat
  BY StoredApart DEF DirKeys
<1>3. \A t \in DirKeys : t.n < works + 2 => t.n < works + 1 + 2
  BY <1>1, <1>2
<1>4. \A d \in Directories!Names : erased[d] \in SUBSET DirKeys
  BY DEF DirsInv, DirTypes
<1> QED
  BY <1>3, <1>4 DEF DirsInv, PastHeld

(* A provider is saved.                                                           *)
LEMMA WorkAdds == DirsInv /\ Directories!AddsProvider => DirsInv'
<1> SUFFICES ASSUME DirsInv, Directories!AddsProvider PROVE DirsInv'
  OBVIOUS
<1>1. PICK m \in Directories!Names \ Earlier : m = Directories!Mine /\ (~custom => channel \in Written(m))
  BY MineIs
<1>2. PICK t : t = [by |-> channel, n |-> works + 2]
  OBVIOUS
<1>3. PICK r : r = dirs[m]
  OBVIOUS
<1>4. PICK k : k = [service |-> Directories!Service(channel), key |-> t]
  OBVIOUS
<1>5. /\ Directories!Up /\ works < MaxWorks /\ works' = works + 1
      /\ keychain' = keychain \cup {k}
      /\ cachedDoc' = cachedDoc \cup {t}
      /\ dirs' = [dirs EXCEPT ![m].config = cachedDoc \cup {t}]
      /\ addedLate' = IF dirStage = "clearing" THEN addedLate \cup {t} ELSE addedLate
      /\ UNCHANGED <<platform, custom, channel, dirStage, doomed, deletedBy, erased, spoiled>>
  BY <1>1, <1>2, <1>4 DEF Directories!AddsProvider
<1>6. /\ t \in DirKeys /\ t.by = channel /\ t.n = works + 2 /\ works + 1 \in Nat
      /\ ~(works + 2 < works + 2) /\ works + 2 < works + 1 + 2 /\ works <= works + 1
  BY <1>2, <1>5, NewKey
<1>7. AtWork /\ r # None /\ r.db # None /\ r.config = cachedDoc /\ r \in Stored /\ Kept(m, r)
  BY <1>1, <1>3, <1>5 DEF DirsInv, DirTypes, MemoryHeld, Directories!Up, AtWork
<1>8. PICK c \in SUBSET DirKeys : c = cachedDoc \cup {t}
  BY <1>6 DEF DirsInv, DirTypes
<1>9. PICK q \in Stored : /\ dirs' = [dirs EXCEPT ![m] = q]
                          /\ q.config = c /\ q.oldDb = r.oldDb /\ q.db = r.db /\ q.tags = r.tags
  <2> DEFINE q == [r EXCEPT !.config = c]
  <2>1. q \in Stored /\ q.config = c /\ q.oldDb = r.oldDb /\ q.db = r.db /\ q.tags = r.tags
    BY <1>7 DEF Stored
  <2>2. dirs' = [dirs EXCEPT ![m] = q]
    BY <1>3, <1>5, <1>8
  <2> HIDE DEF q
  <2> QED
    BY <2>1, <2>2
<1>10. WorkMove
  <2>1. \A x : Secret(x) => Secret(x)'
    BY <1>5 DEF Secret, Directories!Service
  <2> QED
    BY <1>5, <1>6, <1>7, <2>1 DEF WorkMove
<1>11. In(q) = In(r) \cup {t}
  BY <1>7, <1>8, <1>9 DEF In
<1>12. \A x : x \in In(r) \/ x \in cachedDoc => x.n < works + 1 + 2
  <2>1. \A x \in In(r) : x.n < works + 2 /\ x \in DirKeys
    BY <1>7, StoredApart DEF Kept, Apart, Stored, In, Holds
  <2>2. \A x \in DirKeys : x.n \in Nat
    BY StoredApart DEF DirKeys
  <2>3. cachedDoc \subseteq In(r)
    BY <1>7 DEF In
  <2> QED
    BY <1>6, <2>1, <2>2, <2>3 DEF DirsInv, DirTypes
<1>13. Secret(t)'
  <2>1. k = [service |-> Directories!Service(t.by)', key |-> t]
    BY <1>4, <1>6 DEF Directories!Service
  <2> QED
    BY <1>5, <2>1 DEF Secret
<1>14. Directories!Mine' = m
  BY <1>1, <1>5 DEF Directories!Mine, Directories!DirOf
<1>15. Kept(m, q)'
  <2>1. Copied(m, q)'
    BY <1>5, <1>7, <1>8, <1>9 DEF Kept, Copied, Directories!Provider, Directories!Session,
       Directories!DirOf
  <2>2. Apart(m, q)'
    <3>1. ASSUME NEW x \in In(q) PROVE (~custom' => x.by \in Written(m)') /\ x.n < works' + 2
      <4>1. CASE x = t
        BY <1>1, <1>5, <1>6, <4>1 DEF Written
      <4>2. CASE x \in In(r)
        BY <1>5, <1>7, <1>12, <4>2 DEF Kept, Apart, Written
      <4> QED
        BY <1>11, <3>1, <4>1, <4>2
    <3> QED
      BY <3>1 DEF Apart
  <2>3. Clean(m, q)'
    <3>1. t \notin erased[m] /\ [key |-> t, dir |-> m] \notin deletedBy
      <4>1. \A x \in erased[m] : x.n < works + 2
        BY DEF DirsInv, PastHeld
      <4>2. \A x \in deletedBy : x.key.n < works + 2
        BY DEF DirsInv, PastHeld
      <4>3. [key |-> t, dir |-> m].key = t
        OBVIOUS
      <4> QED
        BY <1>6, <4>1, <4>2, <4>3
    <3>2. Clean(m, r)
      BY <1>7 DEF Kept
    <3> QED
      BY <1>1, <1>5, <1>7, <1>8, <1>9, <1>11, <1>14, <3>1, <3>2 DEF Clean
  <2>4. \A x \in q.config : Secret(x)'
    BY <1>7, <1>8, <1>9, <1>10, <1>13 DEF Kept, WorkMove
  <2> QED
    BY <2>1, <2>2, <2>3, <2>4 DEF Kept
<1>16. MemoryHeld'
  <2>1. dirs'[m] = q /\ q # None
    BY <1>9, StoredApart DEF DirsInv, DirTypes
  <2>2. ASSUME NEW x \in cachedDoc'
        PROVE  (~custom' => x.by \in Written(m)') /\ x.n < works' + 2 /\ Secret(x)'
    <3>1. x \in q.config /\ x \in In(q)
      BY <1>5, <1>8, <1>9, <2>2 DEF In
    <3> QED
      BY <1>15, <3>1 DEF Kept, Apart
  <2>3. ASSUME dirStage' = "clearing", NEW x \in cachedDoc'
        PROVE  \/ x \in doomed' \/ x \in addedLate'
               \/ [service |-> Directories!Service(channel)', key |-> x] \notin keychain'
    <3>1. CASE x = t
      BY <1>5, <2>3, <3>1
    <3>2. CASE x # t
      <4>1. [service |-> Directories!Service(channel)', key |-> x] # k
        BY <1>4, <3>2
      <4>2. Directories!Service(channel)' = Directories!Service(channel)
        BY <1>5 DEF Directories!Service
      <4> QED
        BY <1>5, <2>3, <3>2, <4>1, <4>2 DEF DirsInv, MemoryHeld
    <3> QED
      BY <3>1, <3>2
  <2>4. dirStage' \in {"up", "clearing"} /\ AtWork'
    BY <1>5 DEF Directories!Up, AtWork
  <2>5. dirs'[m].config = cachedDoc' /\ dirs'[m].db # None
    BY <1>5, <1>7, <1>8, <1>9, <2>1
  <2> QED
    BY <1>14, <2>1, <2>2, <2>3, <2>4, <2>5 DEF MemoryHeld
<1>17. PastHeld'
  BY <1>5, PastStays
<1>18. cachedDoc' \in SUBSET DirKeys
  BY <1>5, <1>8
<1> QED
  BY <1>1, <1>5, <1>9, <1>10, <1>15, <1>16, <1>17, <1>18, WorkWrites

(* A session is recorded.                                                         *)
LEMMA WorkRecords == DirsInv /\ Directories!RecordsSession => DirsInv'
<1> SUFFICES ASSUME DirsInv, Directories!RecordsSession PROVE DirsInv'
  OBVIOUS
<1>1. PICK m \in Directories!Names \ Earlier : m = Directories!Mine /\ (~custom => channel \in Written(m))
  BY MineIs
<1>2. PICK t : t = [by |-> channel, n |-> works + 2]
  OBVIOUS
<1>3. PICK r : r = dirs[m]
  OBVIOUS
<1>5. /\ Directories!Up /\ works < MaxWorks /\ works' = works + 1
      /\ dirs' = [dirs EXCEPT ![m].db = @ \cup {t}]
      /\ UNCHANGED <<platform, custom, channel, dirStage, cachedDoc, keychain, doomed, deletedBy,
                     erased, spoiled, addedLate>>
  BY <1>1, <1>2 DEF Directories!RecordsSession, Directories!pastVars
<1>6. /\ t \in DirKeys /\ t.by = channel /\ t.n = works + 2 /\ works + 1 \in Nat
      /\ ~(works + 2 < works + 2) /\ works + 2 < works + 1 + 2 /\ works <= works + 1
  BY <1>2, <1>5, NewKey
<1>7. AtWork /\ r # None /\ r.db # None /\ r.config = cachedDoc /\ r \in Stored /\ Kept(m, r)
  BY <1>1, <1>3, <1>5 DEF DirsInv, DirTypes, MemoryHeld, Directories!Up, AtWork
<1>8. PICK b \in SUBSET DirKeys : b = r.db \cup {t} /\ b # None
  <2>1. r.db \in SUBSET DirKeys
    BY <1>7 DEF Stored
  <2>2. (r.db \cup {t}) \in SUBSET DirKeys
    BY <1>6, <2>1
  <2>3. r.db \cup {t} # None
    BY <2>2, StoredApart, Zenon
  <2> QED
    BY <2>2, <2>3
<1>9. PICK q \in Stored : /\ dirs' = [dirs EXCEPT ![m] = q]
                          /\ q.config = r.config /\ q.oldDb = r.oldDb /\ q.db = b /\ q.tags = r.tags
  <2> DEFINE q == [r EXCEPT !.db = b]
  <2>1. q \in Stored /\ q.config = r.config /\ q.oldDb = r.oldDb /\ q.db = b /\ q.tags = r.tags
    BY <1>7 DEF Stored
  <2>2. dirs' = [dirs EXCEPT ![m] = q]
    BY <1>3, <1>5, <1>7, <1>8 DEF Stored
  <2> HIDE DEF q
  <2> QED
    BY <2>1, <2>2
<1>10. WorkMove
  <2>1. \A x : Secret(x) => Secret(x)'
    BY <1>5 DEF Secret, Directories!Service
  <2> QED
    BY <1>5, <1>6, <1>7, <2>1 DEF WorkMove
<1>11. In(q) = In(r) \cup {t}
  BY <1>7, <1>8, <1>9 DEF In, Holds
<1>12. \A x : x \in In(r) \/ x \in cachedDoc => x.n < works + 1 + 2
  <2>1. \A x \in In(r) : x.n < works + 2 /\ x \in DirKeys
    BY <1>7, StoredApart DEF Kept, Apart, Stored, In, Holds
  <2>2. \A x \in DirKeys : x.n \in Nat
    BY StoredApart DEF DirKeys
  <2>3. cachedDoc \subseteq In(r)
    BY <1>7 DEF In
  <2> QED
    BY <1>6, <2>1, <2>2, <2>3 DEF DirsInv, DirTypes
<1>14. Directories!Mine' = m
  BY <1>1, <1>5 DEF Directories!Mine, Directories!DirOf
<1>15. Kept(m, q)'
  <2>1. Copied(m, q)'
    <3>1. dirStage # "renaming" /\ Copied(m, r)
      BY <1>7 DEF AtWork, Kept
    <3> QED
      BY <1>5, <1>7, <1>8, <1>9, <3>1 DEF Copied, Directories!Provider, Directories!Session
  <2>2. Apart(m, q)'
    <3>1. ASSUME NEW x \in In(q) PROVE (~custom' => x.by \in Written(m)') /\ x.n < works' + 2
      <4>1. CASE x = t
        BY <1>1, <1>5, <1>6, <4>1 DEF Written
      <4>2. CASE x \in In(r)
        BY <1>5, <1>7, <1>12, <4>2 DEF Kept, Apart, Written
      <4> QED
        BY <1>11, <3>1, <4>1, <4>2
    <3> QED
      BY <3>1 DEF Apart
  <2>3. Clean(m, q)'
    <3>1. t \notin erased[m]
      BY <1>6 DEF DirsInv, PastHeld
    <3>2. Clean(m, r)
      BY <1>7 DEF Kept
    <3> QED
      BY <1>1, <1>5, <1>9, <1>11, <1>14, <3>1, <3>2 DEF Clean
  <2>4. \A x \in q.config : Secret(x)'
    BY <1>7, <1>9, <1>10 DEF Kept, WorkMove
  <2> QED
    BY <2>1, <2>2, <2>3, <2>4 DEF Kept
<1>16. MemoryHeld'
  <2>1. dirs'[m] = q /\ q # None
    BY <1>9, StoredApart DEF DirsInv, DirTypes
  <2>2. ASSUME NEW x \in cachedDoc'
        PROVE  (~custom' => x.by \in Written(m)') /\ x.n < works' + 2 /\ Secret(x)'
    <3>1. x \in q.config /\ x \in In(q)
      BY <1>5, <1>7, <1>9, <2>2 DEF In
    <3> QED
      BY <1>15, <3>1 DEF Kept, Apart
  <2>3. ASSUME dirStage' = "clearing", NEW x \in cachedDoc'
        PROVE  \/ x \in doomed' \/ x \in addedLate'
               \/ [service |-> Directories!Service(channel)', key |-> x] \notin keychain'
    <3>1. Directories!Service(channel)' = Directories!Service(channel)
      BY <1>5 DEF Directories!Service
    <3> QED
      BY <1>5, <2>3, <3>1 DEF DirsInv, MemoryHeld
  <2>4. dirStage' \in {"up", "clearing"} /\ AtWork'
    BY <1>5 DEF Directories!Up, AtWork
  <2>5. dirs'[m].config = cachedDoc' /\ dirs'[m].db # None
    BY <1>5, <1>7, <1>8, <1>9, <2>1
  <2> QED
    BY <1>14, <2>1, <2>2, <2>3, <2>4, <2>5 DEF MemoryHeld
<1>17. PastHeld'
  BY <1>5, PastStays
<1>18. cachedDoc' \in SUBSET DirKeys
  BY <1>5 DEF DirsInv, DirTypes
<1> QED
  BY <1>1, <1>5, <1>9, <1>10, <1>15, <1>16, <1>17, <1>18, WorkWrites

(* The configuration in memory is written over the wiped directory.                       *)
LEMMA WorkSavesLate == DirsInv /\ Directories!SavesLate => DirsInv'
<1> SUFFICES ASSUME DirsInv, Directories!SavesLate PROVE DirsInv'
  OBVIOUS
<1>1. PICK m \in Directories!Names \ Earlier : m = Directories!Mine
  BY MineIs
<1>2. PICK r : r = IF dirs[m] = None THEN Directories!Blank ELSE dirs[m]
  OBVIOUS
<1>3. /\ dirStage \in {"leaving", "broken"} /\ spoiled' = spoiled \cup {m}
      /\ dirs' = [dirs EXCEPT ![m] = [r EXCEPT !.config = cachedDoc]]
      /\ UNCHANGED <<platform, custom, channel, dirStage, cachedDoc, keychain, doomed, works,
                     deletedBy, erased, addedLate>>
  BY <1>1, <1>2 DEF Directories!SavesLate
<1>4. r \in Stored /\ cachedDoc \in SUBSET DirKeys
  <2>1. Directories!Blank \in Stored
    BY DEF Directories!Blank, Stored
  <2> QED
    BY <1>2, <2>1 DEF DirsInv, DirTypes
<1>5. PICK q \in Stored : /\ dirs' = [dirs EXCEPT ![m] = q] /\ q.config = cachedDoc
                          /\ q.oldDb = r.oldDb /\ q.db = r.db /\ q.tags = r.tags
  <2> DEFINE q == [r EXCEPT !.config = cachedDoc]
  <2>1. /\ q \in Stored /\ q.config = cachedDoc
        /\ q.oldDb = r.oldDb /\ q.db = r.db /\ q.tags = r.tags
    BY <1>4 DEF Stored
  <2>2. dirs' = [dirs EXCEPT ![m] = q]
    BY <1>3
  <2> HIDE DEF q
  <2> QED
    BY <2>1, <2>2
<1>6. AtWork /\ dirStage' # "renaming"
  BY <1>3 DEF AtWork
<1>7. WorkMove
  <2>1. \A x : Secret(x) => Secret(x)'
    BY <1>3 DEF Secret, Directories!Service
  <2>2. works \in Nat /\ works <= works
    BY DEF DirsInv, DirTypes
  <2> QED
    BY <1>3, <1>6, <2>1, <2>2 DEF WorkMove
<1>8. Directories!Mine' = m
  BY <1>1, <1>3 DEF Directories!Mine, Directories!DirOf
<1>9. \A t \in cachedDoc : (~custom => t.by \in Written(m)) /\ t.n < works + 2 /\ Secret(t)
  BY <1>1 DEF DirsInv, MemoryHeld
<1>10. Kept(m, q)'
  <2>1. CASE dirs[m] = None
    <3>1. q.tags = {} /\ In(q) = cachedDoc
      BY <1>2, <1>5, <2>1 DEF Directories!Blank, In, Holds
    <3>2. Copied(m, q)'
      BY <3>1 DEF Copied
    <3>3. Apart(m, q)'
      BY <1>3, <1>9, <3>1 DEF Apart, Written
    <3>4. Clean(m, q)'
      BY <1>3 DEF Clean
    <3> QED
      BY <1>5, <1>7, <1>9, <3>2, <3>3, <3>4 DEF Kept, WorkMove
  <2>2. CASE dirs[m] # None
    <3>1. r = dirs[m] /\ r.config = cachedDoc
      BY <1>1, <1>2, <1>6, <2>2 DEF DirsInv, MemoryHeld
    <3>2. Kept(m, r)
      BY <2>2, <3>1 DEF DirsInv
    <3>3. In(q) = In(r)
      BY <1>5, <3>1 DEF In
    <3>4. Copied(m, q)'
      BY <1>3, <1>5, <1>6, <3>1, <3>2 DEF Kept, Copied, Directories!Provider, Directories!Session, AtWork
    <3>5. Apart(m, q)'
      BY <1>3, <3>2, <3>3 DEF Kept, Apart, Written
    <3>6. Clean(m, q)'
      BY <1>3 DEF Clean
    <3> QED
      BY <1>5, <1>7, <1>9, <3>4, <3>5, <3>6 DEF Kept, WorkMove
  <2> QED
    BY <2>1, <2>2
<1>11. MemoryHeld'
  <2>1. dirs'[m] = q /\ ~Directories!Up' /\ AtWork' /\ dirStage' # "clearing"
    BY <1>3, <1>5 DEF DirsInv, DirTypes, Directories!Up, AtWork
  <2>2. \A t \in cachedDoc' : (~custom' => t.by \in Written(m)') /\ t.n < works' + 2 /\ Secret(t)'
    BY <1>3, <1>7, <1>9 DEF WorkMove, Written
  <2>3. ASSUME dirStage' = "leaving", NEW x \in cachedDoc'
        PROVE  \/ x \in addedLate'
               \/ [service |-> Directories!Service(channel)', key |-> x] \notin keychain'
    <3>1. Directories!Service(channel)' = Directories!Service(channel)
      BY <1>3 DEF Directories!Service
    <3> QED
      BY <1>3, <2>3, <3>1 DEF DirsInv, MemoryHeld
  <2> QED
    BY <1>3, <1>5, <1>8, <2>1, <2>2, <2>3 DEF MemoryHeld
<1>12. PastHeld'
  BY <1>3 DEF DirsInv, PastHeld
<1>13. cachedDoc' \in SUBSET DirKeys
  BY <1>3, <1>4
<1> QED
  BY <1>1, <1>3, <1>5, <1>7, <1>10, <1>11, <1>12, <1>13, WorkWrites

(* A step that writes no directory.                                                  *)
LEMMA WorkStays ==
  ASSUME DirsInv, WorkMove, dirs' = dirs, DirTypes', EarlierHeld', MemoryHeld', PastHeld',
         \A d \in Directories!Names : dirs[d] # None => Clean(d, dirs[d])'
  PROVE  DirsInv'
<1>1. ASSUME NEW d \in Directories!Names, dirs'[d] # None PROVE Kept(d, dirs[d])'
  <2>1. PICK r : r = dirs[d]
    OBVIOUS
  <2>2. Clean(d, r)'
    BY <1>1, <2>1
  <2>3. Kept(d, r)'
    BY <1>1, <2>1, <2>2, WorkKeeps
  <2> QED
    BY <2>1, <2>3
<1> QED
  BY <1>1 DEF DirsInv

(* A reset begins.                                                                  *)
LEMMA WorkResets == DirsInv /\ Directories!Reset => DirsInv'
<1> SUFFICES ASSUME DirsInv, Directories!Reset PROVE DirsInv'
  OBVIOUS
<1>1. /\ dirStage = "up" /\ dirStage' = "clearing" /\ doomed' = cachedDoc
      /\ UNCHANGED <<platform, custom, channel, dirs, cachedDoc, keychain, works,
                     deletedBy, erased, spoiled, addedLate>>
  BY DEF Directories!Reset, Directories!Steps, Directories!pastVars
<1>2. AtWork /\ AtWork' /\ Directories!Up /\ Directories!Up' /\ Directories!Mine' = Directories!Mine
  BY <1>1 DEF AtWork, Directories!Up, Directories!Mine, Directories!DirOf
<1>3. \A x : Secret(x)' = Secret(x)
  BY <1>1 DEF Secret, Directories!Service
<1>4. WorkMove
  BY <1>1, <1>2, <1>3 DEF WorkMove, DirsInv, DirTypes
<1>5. DirTypes'
  BY <1>1 DEF DirsInv, DirTypes, Directories!Stages
<1>6. EarlierHeld'
  BY <1>1, <1>2 DEF DirsInv, EarlierHeld, Directories!Provider, Directories!Session
<1>7. MemoryHeld'
  BY <1>1, <1>2, <1>3 DEF DirsInv, MemoryHeld, Written
<1>8. PastHeld'
  BY <1>1 DEF DirsInv, PastHeld, MemoryHeld, DirTypes
<1>9. \A d \in Directories!Names : dirs[d] # None => Clean(d, dirs[d])'
  BY <1>1, <1>2 DEF DirsInv, Kept, Clean, In, Holds
<1> QED
  BY <1>1, <1>4, <1>5, <1>6, <1>7, <1>8, <1>9, WorkStays

(* A secret is deleted, or is left.                                                      *)
LEMMA WorkDeletes ==
  ASSUME DirsInv, NEW t \in doomed, Directories!DeletesSecret(t) PROVE DirsInv'
<1>1. PICK m \in Directories!Names \ Earlier : m = Directories!Mine
  BY MineIs
<1>2. PICK k : k = [service |-> Directories!Service(channel), key |-> t]
  OBVIOUS
<1>3. PICK x : x = [key |-> t, dir |-> m]
  OBVIOUS
<1>4. /\ dirStage = "clearing" /\ doomed' = doomed \ {t}
      /\ \/ /\ keychain' = keychain \ {k} /\ deletedBy' = deletedBy \cup {x}
            /\ addedLate' = addedLate
         \/ addedLate' = addedLate \cup {t} /\ keychain' = keychain /\ deletedBy' = deletedBy
      /\ UNCHANGED <<platform, custom, channel, dirStage, dirs, cachedDoc, works, erased, spoiled>>
  BY <1>1, <1>2, <1>3 DEF Directories!DeletesSecret
<1>5. AtWork /\ AtWork' /\ Directories!Mine' = m /\ Directories!Up
  BY <1>1, <1>4 DEF AtWork, Directories!Mine, Directories!DirOf, Directories!Up
<1>6. \A y : Directories!Service(y)' = Directories!Service(y)
  BY DEF Directories!Service
<1>7. ASSUME NEW y, Secret(y) PROVE Secret(y)'
  <2>1. CASE y = t /\ keychain' = keychain \ {k} /\ deletedBy' = deletedBy \cup {x}
    BY <1>3, <2>1 DEF Secret
  <2>2. CASE y # t /\ keychain' = keychain \ {k} /\ deletedBy' = deletedBy \cup {x}
    <3>1. [service |-> Directories!Service(y.by), key |-> y] # k
      BY <1>2, <2>2
    <3> QED
      BY <1>6, <1>7, <2>2, <3>1 DEF Secret
  <2>3. CASE keychain' = keychain /\ deletedBy' = deletedBy
    BY <1>6, <1>7, <2>3 DEF Secret
  <2> QED
    BY <1>4, <2>1, <2>2, <2>3
<1>8. WorkMove
  <2>1. works \in Nat /\ works <= works
    BY DEF DirsInv, DirTypes
  <2> QED
    BY <1>4, <1>5, <1>7, <2>1 DEF WorkMove
<1>9. DirTypes'
  BY <1>4 DEF DirsInv, DirTypes
<1>10. \A y, d : [key |-> y, dir |-> d] \in deletedBy' =>
         [key |-> y, dir |-> d] \in deletedBy \/ d = m
  BY <1>3, <1>4
<1>11. EarlierHeld'
  <2>1. dirStage' = "clearing" /\ Directories!Mine = m
    BY <1>1, <1>4
  <2>2. \A s \in Earlier : Directories!Provider(s)' = Directories!Provider(s)
                           /\ Directories!Session(s)' = Directories!Session(s)
    BY DEF Directories!Provider, Directories!Session
  <2>3. \A s \in Earlier : dirs[s] # None =>
          /\ dirs[s].config = {Directories!Provider(s)} /\ dirs[s].oldDb = {Directories!Session(s)}
          /\ dirs[s].db = None /\ dirs[s].tags = {}
          /\ s = "legacy" => platform = "macos"
          /\ \A d \in Directories!Names : erased[d] = {}
    BY DEF DirsInv, EarlierHeld
  <2>4. ASSUME NEW s \in Earlier, dirs[s] # None, NEW d \in Directories!Names,
               d \notin spoiled, d # "canary",
               [key |-> Directories!Provider(s), dir |-> d] \in deletedBy'
        PROVE  d = m
    <3>1. CASE [key |-> Directories!Provider(s), dir |-> d] \in deletedBy
      BY <2>1, <2>4, <3>1 DEF DirsInv, EarlierHeld
    <3> QED
      BY <1>10, <2>4, <3>1
  <2>5. \A s \in Earlier : dirs[s] # None => \A d \in Directories!Names :
          d \notin spoiled /\ d # "canary" /\ [key |-> Directories!Provider(s), dir |-> d] \in deletedBy'
            => dirStage' = "clearing" /\ Directories!Mine' = d
    BY <1>5, <2>1, <2>4
  <2> QED
    BY <1>4, <2>2, <2>3, <2>5 DEF EarlierHeld
<1>12. MemoryHeld'
  <2>1. ASSUME NEW y \in cachedDoc'
        PROVE  (~custom' => y.by \in Written(m)') /\ y.n < works' + 2 /\ Secret(y)'
    BY <1>1, <1>4, <1>7, <2>1 DEF DirsInv, MemoryHeld, Written
  <2>2. ASSUME NEW y \in cachedDoc'
        PROVE  \/ y \in doomed' \/ y \in addedLate'
               \/ [service |-> Directories!Service(channel)', key |-> y] \notin keychain'
    <3>1. \/ y \in doomed \/ y \in addedLate
          \/ [service |-> Directories!Service(channel), key |-> y] \notin keychain
      BY <1>4, <2>2 DEF DirsInv, MemoryHeld
    <3>2. Directories!Service(channel)' = Directories!Service(channel)
      BY <1>4 DEF Directories!Service
    <3>3. y = t => [service |-> Directories!Service(channel), key |-> y] = k
      BY <1>2
    <3> QED
      BY <1>4, <3>1, <3>2, <3>3
  <2>3. dirs'[m] # None /\ dirs'[m].db # None /\ dirs'[m].config = cachedDoc'
    BY <1>1, <1>4, <1>5 DEF DirsInv, MemoryHeld
  <2>4. dirStage' = "clearing"
    BY <1>4
  <2> QED
    BY <1>5, <2>1, <2>2, <2>3, <2>4 DEF MemoryHeld
<1>13. PastHeld'
  <2>1. x.key = t /\ t \in DirKeys /\ t.n < works + 2
    BY <1>3 DEF DirsInv, PastHeld
  <2> QED
    BY <1>4, <2>1 DEF DirsInv, PastHeld
<1>14. ASSUME NEW d \in Directories!Names, dirs[d] # None PROVE Clean(d, dirs[d])'
  <2>1. PICK r : r = dirs[d]
    OBVIOUS
  <2>2. Clean(d, r) /\ dirs'[d] = r /\ spoiled' = spoiled /\ erased' = erased
    BY <1>4, <1>14, <2>1 DEF DirsInv, Kept
  <2>3. ASSUME d \notin spoiled, d # "canary", NEW y \in r.config, [key |-> y, dir |-> d] \in deletedBy'
        PROVE  dirStage' = "clearing" /\ Directories!Mine' = d
    <3>1. CASE d = m
      BY <1>4, <1>5, <3>1
    <3>2. CASE [key |-> y, dir |-> d] \in deletedBy
      BY <1>1, <1>4, <1>5, <2>2, <2>3, <3>2 DEF Clean
    <3> QED
      BY <1>10, <2>3, <3>1, <3>2
  <2>4. d \notin spoiled /\ d # "canary" => In(r) \cap erased[d] = {}
    BY <2>2 DEF Clean
  <2>5. Clean(d, r)'
    BY <2>2, <2>3, <2>4 DEF Clean
  <2> QED
    BY <2>1, <2>2, <2>5 DEF Clean, In
<1> QED
  BY <1>4, <1>8, <1>9, <1>11, <1>12, <1>13, <1>14, WorkStays

(* The process ends.                                                                  *)
LEMMA WorkEnds == DirsInv /\ Directories!Exits => DirsInv'
<1> SUFFICES ASSUME DirsInv, Directories!Exits PROVE DirsInv'
  OBVIOUS
<1>1. PICK m \in Directories!Names \ Earlier : m = Directories!Mine
  BY MineIs
<1>2. /\ AtWork /\ dirStage' \in {"down", "opening", "legacy"} /\ cachedDoc' = {} /\ doomed' = {}
      /\ spoiled' = IF dirStage = "clearing" THEN spoiled \cup {m} ELSE spoiled
      /\ UNCHANGED <<platform, custom, channel, dirs, keychain, works, deletedBy, erased>>
  BY <1>1 DEF Directories!Exits, AtWork
<1>3. \A x : Secret(x)' = Secret(x)
  BY <1>2 DEF Secret, Directories!Service
<1>4. WorkMove
  <2>1. works \in Nat /\ works <= works
    BY DEF DirsInv, DirTypes
  <2> QED
    BY <1>2, <1>3, <2>1 DEF WorkMove
<1>5. DirTypes'
  BY <1>2 DEF DirsInv, DirTypes, Directories!Stages
<1>6. EarlierHeld'
  BY <1>1, <1>2 DEF DirsInv, EarlierHeld, Directories!Provider, Directories!Session
<1>7. MemoryHeld'
  BY <1>2 DEF MemoryHeld, AtWork, Directories!Up
<1>8. PastHeld'
  BY <1>2 DEF DirsInv, PastHeld
<1>9. \A d \in Directories!Names : dirs[d] # None => Clean(d, dirs[d])'
  BY <1>1, <1>2 DEF DirsInv, Kept, Clean, In, Holds
<1> QED
  BY <1>2, <1>4, <1>5, <1>6, <1>7, <1>8, <1>9, WorkStays

(* The directories are removed, or some of them.                                       *)
LEMMA WorkWipes == DirsInv /\ Directories!Wipes => DirsInv'
<1> SUFFICES ASSUME DirsInv, Directories!Wipes PROVE DirsInv'
  OBVIOUS
<1>1. PICK m \in Directories!Names \ Earlier : m = Directories!Mine
  BY MineIs
<1>2. PICK l \in Earlier : l = Directories!LegacyMacos
  BY DEF Directories!LegacyMacos, Earlier
<1>3. PICK removed \in SUBSET Directories!Names :
        /\ dirs' = [d \in Directories!Names |-> IF d \in removed THEN None ELSE dirs[d]]
        /\ \/ /\ removed = {m, "launchkit", l}
              /\ erased' = [erased EXCEPT ![m] = @ \cup UNION {Directories!Held(d) : d \in {"launchkit", l} \cup {m}}]
              /\ dirStage' = "leaving" /\ spoiled' = spoiled
           \/ dirStage' = "broken" /\ spoiled' = spoiled \cup {m} /\ erased' = erased
  <2>1. m \in Directories!Names /\ l \in Directories!Names /\ "launchkit" \in Directories!Names
    BY KeysAre DEF Directories!Names
  <2>2. CASE /\ Directories!Removed({m, "launchkit", l}) /\ Directories!Erases({"launchkit", l})
             /\ dirStage' = "leaving" /\ spoiled' = spoiled
    <3>1. {m, "launchkit", l} \in SUBSET Directories!Names
      BY <2>1
    <3> QED
      BY <1>1, <2>2, <3>1 DEF Directories!Removed, Directories!Erases
  <2>3. CASE /\ \E s \in {{}, {m}, {m, l}} : Directories!Removed(s)
             /\ dirStage' = "broken" /\ spoiled' = spoiled \cup {m} /\ erased' = erased
    <3>1. PICK s \in {{}, {m}, {m, l}} : Directories!Removed(s)
      BY <2>3
    <3>2. s \in SUBSET Directories!Names
      BY <2>1
    <3> QED
      BY <2>3, <3>1, <3>2 DEF Directories!Removed
  <2> QED
    BY <1>1, <1>2, <2>2, <2>3 DEF Directories!Wipes
<1>4. /\ dirStage = "clearing" /\ doomed = {} /\ doomed' = doomed
      /\ UNCHANGED <<platform, custom, channel, cachedDoc, keychain, works, deletedBy, addedLate>>
  BY DEF Directories!Wipes
<1>5. AtWork /\ AtWork' /\ Directories!Mine' = m /\ ~Directories!Up'
  BY <1>1, <1>3, <1>4 DEF AtWork, Directories!Mine, Directories!DirOf, Directories!Up
<1>6. \A x : Secret(x)' = Secret(x)
  BY <1>4 DEF Secret, Directories!Service
<1>7. WorkMove
  <2>1. works \in Nat /\ works <= works
    BY DEF DirsInv, DirTypes
  <2> QED
    BY <1>3, <1>4, <1>5, <1>6, <2>1 DEF WorkMove
<1>8. ASSUME NEW d \in Directories!Names
      PROVE  /\ dirs'[d] = None \/ (dirs'[d] = dirs[d] /\ dirs[d] # None)
             /\ d # m => erased'[d] = erased[d]
             /\ d = m => d \in spoiled' \/ dirs'[d] = None
  BY <1>1, <1>3 DEF DirsInv, DirTypes
<1>9. ASSUME NEW d \in Directories!Names
      PROVE  /\ erased'[d] \in SUBSET DirKeys
             /\ \A t \in erased'[d] : t.n < works + 2
  <2>1. ASSUME NEW e \in Directories!Names
        PROVE  \A t \in Directories!Held(e) : t \in DirKeys /\ t.n < works + 2
    <3>1. CASE dirs[e] = None
      BY <3>1 DEF Directories!Held
    <3>2. CASE dirs[e] # None
      <4>1. Apart(e, dirs[e]) /\ dirs[e] \in Stored
        BY <3>2 DEF DirsInv, DirTypes, Kept
      <4>2. Directories!Held(e) \subseteq In(dirs[e])
        BY <3>2 DEF Directories!Held, In, Holds
      <4>3. In(dirs[e]) \subseteq DirKeys
        BY <4>1 DEF Stored, In, Holds
      <4> QED
        BY <4>1, <4>2, <4>3 DEF Apart
    <3> QED
      BY <3>1, <3>2
  <2>2. erased[d] \in SUBSET DirKeys /\ \A t \in erased[d] : t.n < works + 2
    BY DEF DirsInv, DirTypes, PastHeld
  <2>3. \A t \in erased'[d] : t \in erased[d] \/ \E e \in Directories!Names : t \in Directories!Held(e)
    <3>1. m \in Directories!Names /\ l \in Directories!Names /\ "launchkit" \in Directories!Names
      BY KeysAre DEF Directories!Names
    <3> QED
      BY <1>3, <3>1 DEF DirsInv, DirTypes
  <2> QED
    BY <2>1, <2>2, <2>3
<1>10. DirTypes'
  <2>1. dirs' \in [Directories!Names -> Stored \cup {None}]
    BY <1>3 DEF DirsInv, DirTypes
  <2>2. erased' \in [Directories!Names -> SUBSET DirKeys]
    <3>1. DOMAIN erased' = Directories!Names /\ erased' = [d \in Directories!Names |-> erased'[d]]
      BY <1>3 DEF DirsInv, DirTypes
    <3> QED
      BY <1>9, <3>1
  <2>3. dirStage' \in Directories!Stages
    BY <1>3 DEF Directories!Stages
  <2> QED
    BY <1>4, <2>1, <2>2, <2>3 DEF DirsInv, DirTypes
<1>11. EarlierHeld'
  <2>1. CASE erased' = erased /\ spoiled' = spoiled \cup {m}
    <3>1. \A s \in Earlier : s \in Directories!Names
      BY KeysAre
    <3>2. \A s \in Earlier : Directories!Provider(s)' = Directories!Provider(s)
                             /\ Directories!Session(s)' = Directories!Session(s)
      BY DEF Directories!Provider, Directories!Session
    <3>3. \A s \in Earlier : dirs'[s] # None => dirs'[s] = dirs[s] /\ dirs[s] # None
      BY <1>8, <3>1
    <3> QED
      BY <1>1, <1>4, <2>1, <3>2, <3>3 DEF DirsInv, EarlierHeld
  <2>2. CASE ~(erased' = erased /\ spoiled' = spoiled \cup {m})
    <3>1. dirs'["launchkit"] = None /\ dirs'[l] = None
      BY <1>2, <1>3, <2>2, KeysAre DEF Earlier
    <3>2. dirs'["legacy"] = None
      <4>1. CASE platform = "linux"
        <5>1. "legacy" \in Earlier /\ "legacy" \in Directories!Names
          BY DEF Earlier, Directories!Names
        <5>2. dirs["legacy"] = None
          BY <4>1, <5>1 DEF DirsInv, EarlierHeld
        <5> QED
          BY <1>8, <5>1, <5>2
      <4>2. CASE platform # "linux"
        BY <1>2, <3>1, <4>2 DEF Directories!LegacyMacos
      <4> QED
        BY <4>1, <4>2
    <3> QED
      BY <3>1, <3>2 DEF EarlierHeld, Earlier
  <2> QED
    BY <2>1, <2>2
<1>12. MemoryHeld'
  <2>1. ASSUME NEW x \in cachedDoc'
        PROVE  (~custom' => x.by \in Written(m)') /\ x.n < works' + 2 /\ Secret(x)'
    BY <1>1, <1>4, <1>6, <2>1 DEF DirsInv, MemoryHeld, Written
  <2>2. ASSUME NEW x \in cachedDoc'
        PROVE  \/ x \in addedLate'
               \/ [service |-> Directories!Service(channel)', key |-> x] \notin keychain'
    <3>1. Directories!Service(channel)' = Directories!Service(channel)
      BY <1>4 DEF Directories!Service
    <3> QED
      BY <1>4, <2>2, <3>1 DEF DirsInv, MemoryHeld
  <2>3. dirs'[m] # None => dirs'[m].config = cachedDoc'
    BY <1>1, <1>4, <1>5, <1>8 DEF DirsInv, MemoryHeld
  <2>4. dirStage' \in {"leaving", "broken"}
    BY <1>3
  <2> QED
    BY <1>5, <2>1, <2>2, <2>3, <2>4 DEF MemoryHeld
<1>13. PastHeld'
  BY <1>4, <1>9 DEF DirsInv, PastHeld
<1>14. ASSUME NEW d \in Directories!Names, dirs'[d] # None PROVE Kept(d, dirs[d])'
  <2>1. PICK r : r = dirs[d]
    OBVIOUS
  <2>2. dirs'[d] = r /\ r # None /\ Clean(d, r)
    BY <1>8, <1>14, <2>1 DEF DirsInv, Kept
  <2>3. Clean(d, r)'
    <3>1. CASE d = m
      BY <1>8, <1>14, <3>1 DEF Clean
    <3>2. CASE d # m
      BY <1>1, <1>4, <1>7, <1>8, <2>2, <3>2 DEF Clean, WorkMove
    <3> QED
      BY <3>1, <3>2
  <2>4. Kept(d, r)'
    BY <1>7, <2>1, <2>2, <2>3, WorkKeeps
  <2> QED
    BY <2>2, <2>4
<1> QED
  BY <1>10, <1>11, <1>12, <1>13, <1>14 DEF DirsInv

(* Every step keeps the invariant.                                                     *)
LEMMA DirsInvInductive == DirsInv /\ [Directories!DirsNext]_dirVars => DirsInv'
<1>1. ASSUME DirsInv, UNCHANGED dirVars PROVE DirsInv'
  <2>1. UNCHANGED <<platform, custom, dirs, channel, dirStage, cachedDoc, keychain, doomed, works,
                    deletedBy, erased, spoiled, addedLate>>
    BY <1>1 DEF dirVars
  <2>2. DirTypes'
    BY <1>1, <2>1 DEF DirsInv, DirTypes
  <2>3. Directories!Mine' = Directories!Mine /\ AtWork' = AtWork /\ Directories!Up' = Directories!Up
        /\ Directories!DirOf("stable")' = Directories!DirOf("stable")
        /\ \A x : Secret(x)' = Secret(x)
    BY <2>1 DEF Directories!Mine, Directories!DirOf, AtWork, Directories!Up, Secret, Directories!Service
  <2>4. EarlierHeld'
    BY <1>1, <2>1, <2>3 DEF DirsInv, EarlierHeld, Directories!Provider, Directories!Session
  <2>5. MemoryHeld'
    BY <1>1, <2>1, <2>3 DEF DirsInv, MemoryHeld, Written, Directories!Service, Directories!Session
  <2>6. PastHeld'
    BY <1>1, <2>1 DEF DirsInv, PastHeld
  <2>7. ASSUME NEW d \in Directories!Names, dirs'[d] # None PROVE Kept(d, dirs[d])'
    <3>1. PICK r : r = dirs[d]
      OBVIOUS
    <3>2. Kept(d, r) /\ dirs'[d] = r
      BY <1>1, <2>1, <2>7, <3>1 DEF DirsInv
    <3>3. Copied(d, r)' /\ Apart(d, r)' /\ Clean(d, r)'
      BY <2>1, <2>3, <3>2 DEF Kept, Copied, Apart, Clean, Written, Directories!Provider, Directories!Session
    <3> QED
      BY <2>3, <3>2, <3>3 DEF Kept
  <2> QED
    BY <2>2, <2>4, <2>5, <2>6, <2>7 DEF DirsInv
<1>2. ASSUME DirsInv, Directories!DirsNext PROVE DirsInv'
  BY <1>2, StartSteps, StartRenames, StartSeeds, StartOpens, StartDies, WorkAdds, WorkRecords,
     WorkResets, WorkDeletes, WorkWipes, WorkSavesLate, WorkEnds, Zenon DEF Directories!DirsNext
<1> QED
  BY <1>1, <1>2
-----------------------------------------------------------------------------
(***************************************************************************)
(* The configuration.                                                          *)
(***************************************************************************)

OfProviders == {"addProvider", "updateProvider", "deleteProvider", "setSecret"}
OfModels == {"addModel", "updateModel", "deleteModel"}
Kinds == OfProviders \cup OfModels \cup {"prefs", "settings", "bounds"}

(* An edit that a handler or the command line makes of what it loaded.                    *)
Editing(e) ==
  /\ e.kind \in Kinds /\ e.keyed \in BOOLEAN
  /\ e.kind \in OfProviders \cup {"addModel", "updateModel"} => e.p \in Config!Providers
  /\ e.kind \in OfModels => e.m \in Config!Models
  /\ e.kind = "prefs" => e.m \in Config!Models \cup {Config!Direct}

Calls == [id : Nat, kind : Kinds, p : Config!Providers \cup {None},
          m : Config!Models \cup {None, Config!Direct}, keyed : BOOLEAN,
          base : Config!Configs \cup {Newer, None},
          answer : {"reading", "pending", "written", "ok", "failed"}]
Under(c) == c \in configCalls /\ Config!UnderWay(c)
Wrote(c) == c \in configCalls /\ c.answer = "written"
Newest(l, r) == l \in loads /\ l.of = r /\ l.gen = gen[r]

ConfigTypes ==
  /\ configFile \in Config!Configs \cup {Newer} /\ cached \in Config!Configs \cup {None}
  /\ editsAsked \in Nat /\ minted \in [Config!Resources -> Nat]
  /\ configCalls \subseteq Calls
  /\ \A c \in configCalls :
       /\ Editing(c)
       /\ c.answer = "reading" => c.base \in Config!Configs \cup {Newer}
       /\ c.answer \in {"pending", "written"} => c.base \in Config!Configs
  /\ command # None => Editing(command) /\ command.base \in Config!Configs
  /\ DOMAIN shown = Config!Resources /\ gen \in [Config!Resources -> Nat]
  /\ \A l \in loads : l.of \in Config!Resources /\ l.gen \in Nat /\ l.gen <= gen[l.of]
  /\ editsCrossed \in BOOLEAN /\ foreign \in BOOLEAN /\ overread \in BOOLEAN /\ unheard \in BOOLEAN

(* One edit at a time, of what the file holds; and once it is written, the file holds it.        *)
OneEdit ==
  ~editsCrossed =>
    /\ \A c, d : Under(c) /\ Under(d) => c = d
    /\ command # None => command.base = configFile /\ \A c : ~Under(c)
    /\ ~foreign /\ ~overread => \A c : Under(c) => c.base = configFile

(* While a save waits to be cached, the cache differs in what the edit is of only.              *)
CacheCurrent ==
  Config!Followed /\ cached # None =>
    \A c : Wrote(c) =>
      \A r \in Config!Resources \ Config!Of(c.kind) :
        Config!Snapshot(r, cached) = Config!Snapshot(r, configFile)

(* A load of the file that is yet to be cached carries what it read; and until one is, the      *)
(* pages have nothing.                                                             *)
LoadsHold ==
  \A l \in loads :
    /\ DOMAIN l = {"of", "gen", "data", "doc"}
    /\ l.doc \in Config!Configs \cup {Newer, None}
    /\ l.doc # None => \/ l.data = None
                       \/ Config!Readable(l.doc) /\ l.data = Config!Snapshot(l.of, l.doc)
NothingLoaded ==
  cached = None =>
    /\ \A r \in Config!Resources : shown[r] = None
    /\ \A l \in loads : l.doc # None \/ l.data = None

(* A list is current, or its newest load is, or will tell that it is not, or the reply that       *)
(* will have it loaded is to come.                                                 *)
Telling(c, r) == c \in configCalls /\ c.answer \in {"written", "ok"} /\ r \in Config!Of(c.kind)
Fit(l, r) == l.doc # None \/ l.data = None \/ l.data = Config!Snapshot(r, configFile)
ListCurrent(r) ==
  \/ \E c : Telling(c, r)
  \/ /\ \A l : Newest(l, r) => Fit(l, r)
     /\ \/ \E l : Newest(l, r)
        \/ shown[r] = None \/ shown[r] = Config!Snapshot(r, configFile)
Watched == Config!Followed /\ ~unheard /\ Config!Readable(configFile)
ListsCurrent == Watched => \A r \in Config!Resources : ListCurrent(r)

Sticks == Config!EditsStick /\ Config!CacheFollowsFile /\ Config!SecretsStick
ConfigInv ==
  /\ ConfigTypes /\ OneEdit /\ LoadsHold /\ NothingLoaded /\ ListsCurrent /\ CacheCurrent
  /\ Sticks

(* None and the contents of a later version are no configuration.                         *)
LEMMA ConfigsApart ==
  /\ None \notin Config!Configs /\ Newer \notin Config!Configs /\ None # Newer
  /\ MaxProviders \in Nat /\ MaxModels \in Nat
BY RecordsAssumption, Zenon

(* What the invariant says is what the configuration promises.                          *)
LEMMA ConfigInvSound == ConfigInv => Config!ConfigIsSound
<1> SUFFICES ASSUME ConfigInv PROVE Config!PagesAreCurrent
  BY DEF ConfigInv, Sticks, Config!ConfigIsSound
<1> SUFFICES ASSUME configCalls = {}, loads = {}, Watched,
                    NEW r \in Config!Resources, shown[r] # None
             PROVE  shown[r] = Config!Snapshot(r, configFile)
  BY DEF Config!PagesAreCurrent, Watched
<1>1. ListCurrent(r)
  BY DEF ConfigInv, ListsCurrent
<1> QED
  BY <1>1 DEF ListCurrent, Newest, Telling

(* The invariant holds at the start.                                                 *)
LEMMA ConfigInvInit == Config!ConfigInit => ConfigInv
<1> SUFFICES ASSUME Config!ConfigInit PROVE ConfigInv
  OBVIOUS
<1>0. /\ configFile \in {Config!Empty, Newer} /\ cached = None /\ configCalls = {} /\ command = None
      /\ shown = [r \in Config!Resources |-> None] /\ gen = [r \in Config!Resources |-> 0]
      /\ loads = {} /\ minted = [r \in Config!Resources |-> 0] /\ editsAsked = 0
      /\ truth = configFile /\ secrets = {}
      /\ editsCrossed = FALSE /\ foreign = FALSE /\ overread = FALSE /\ unheard = FALSE
  BY DEF Config!ConfigInit
<1>1. Config!Empty \in Config!Configs
  <2> DEFINE d == "default"
             ms == [m \in Config!Models |-> None]
  <2>1. Config!Empty = [providers |-> {}, keyed |-> {}, models |-> ms, chosen |-> None, settings |-> d]
    BY DEF Config!Empty
  <2>2. d \in {"default", "changed"} /\ ms \in [Config!Models -> Config!Providers \cup {None}]
    OBVIOUS
  <2> HIDE DEF d, ms
  <2> QED
    BY <2>1, <2>2 DEF Config!Configs
<1>2. ConfigTypes
  BY <1>0, <1>1 DEF ConfigTypes
<1>3. OneEdit /\ NothingLoaded /\ LoadsHold /\ CacheCurrent
  BY <1>0 DEF OneEdit, NothingLoaded, Under, LoadsHold, CacheCurrent
<1>4. ListsCurrent
  BY <1>0 DEF ListsCurrent, ListCurrent, Newest
<1>5. Sticks
  BY <1>0 DEF Sticks, Config!EditsStick, Config!CacheFollowsFile, Config!SecretsStick
<1> QED
  BY <1>2, <1>3, <1>4, <1>5 DEF ConfigInv

(* What an edit makes of a configuration: another, with the secrets there were; and the lists     *)
(* it is not of stay as they are.                                                    *)
Makes(e, c, q) ==
  /\ q \in Config!Configs
  /\ \A r \in Config!Resources \ Config!Of(e.kind) : Config!Snapshot(r, q) = Config!Snapshot(r, c)
  /\ \A s : s \subseteq c.keyed => Config!Secretly(e, s) \subseteq q.keyed

(* A list is made of the part of the configuration it is of.                 *)
LEMMA SnapshotsAre ==
  ASSUME NEW c, NEW q
  PROVE  /\ q.providers = c.providers /\ q.keyed = c.keyed =>
              Config!Snapshot("providers", q) = Config!Snapshot("providers", c)
         /\ q.models = c.models => Config!Snapshot("models", q) = Config!Snapshot("models", c)
BY DEF Config!Snapshot

(* So does every edit.                                                       *)
LEMMA EditsMake ==
  ASSUME NEW e, Editing(e), NEW c \in Config!Configs PROVE Makes(e, c, Config!Edited(e, c))
<1> DEFINE q == Config!Edited(e, c)
<1> SUFFICES Makes(e, c, q)
  OBVIOUS
<1>1. CASE e.kind \in OfProviders
  <2>1. Config!Of(e.kind) = {"providers"} /\ e.p \in Config!Providers
    BY <1>1 DEF Config!Of, OfProviders, Editing
  <2>2. /\ q \in Config!Configs /\ q.models = c.models
        /\ \A s : s \subseteq c.keyed => Config!Secretly(e, s) \subseteq q.keyed
    <3>1. CASE e.kind = "addProvider"
      <4> DEFINE ks == IF e.keyed THEN c.keyed \cup {e.p} ELSE c.keyed
                 a == [c EXCEPT !.providers = @ \cup {e.p}, !.keyed = ks]
      <4>1. q = a
        BY <3>1 DEF Config!Edited, Config!AddProvider
      <4>2. ks \in SUBSET Config!Providers /\ c.keyed \subseteq ks /\ (e.keyed => e.p \in ks)
        BY <2>1 DEF Config!Configs
      <4>3. \A s : Config!Secretly(e, s) = IF e.keyed THEN s \cup {e.p} ELSE s
        BY <3>1 DEF Config!Secretly, Editing
      <4> HIDE DEF ks
      <4>4. a \in Config!Configs /\ a.models = c.models /\ a.keyed = ks
        BY <2>1, <4>2 DEF Config!Configs
      <4> HIDE DEF a, q
      <4> QED
        BY <4>1, <4>2, <4>3, <4>4
    <3>2. CASE e.kind = "updateProvider"
      <4>1. q = c
        BY <3>2 DEF Config!Edited, Config!UpdateProvider
      <4>2. \A s : Config!Secretly(e, s) = s
        BY <3>2 DEF Config!Secretly
      <4> QED
        BY <4>1, <4>2
    <3>3. CASE e.kind = "deleteProvider"
      <4> DEFINE a == [c EXCEPT !.providers = @ \ {e.p}, !.keyed = @ \ {e.p}]
      <4>1. q = a
        BY <3>3 DEF Config!Edited, Config!DeleteProvider
      <4>2. \A s : Config!Secretly(e, s) = s \ {e.p}
        BY <3>3 DEF Config!Secretly
      <4>3. a \in Config!Configs /\ a.models = c.models /\ a.keyed = c.keyed \ {e.p}
        BY DEF Config!Configs
      <4> HIDE DEF a, q
      <4> QED
        BY <4>1, <4>2, <4>3
    <3>4. CASE e.kind = "setSecret"
      <4> DEFINE a == [c EXCEPT !.keyed = @ \cup {e.p}]
      <4>1. q = a
        BY <3>4 DEF Config!Edited, Config!SetProviderSecret
      <4>2. \A s : Config!Secretly(e, s) = s \cup {e.p}
        BY <3>4 DEF Config!Secretly
      <4>3. a \in Config!Configs /\ a.models = c.models /\ a.keyed = c.keyed \cup {e.p}
        BY <2>1 DEF Config!Configs
      <4> HIDE DEF a, q
      <4> QED
        BY <4>1, <4>2, <4>3
    <3> QED
      BY <1>1, <3>1, <3>2, <3>3, <3>4 DEF OfProviders
  <2> HIDE DEF q
  <2> QED
    BY <2>1, <2>2, SnapshotsAre DEF Makes, Config!Resources
<1>2. CASE e.kind \in OfModels
  <2>1. Config!Of(e.kind) = {"models"} /\ e.m \in Config!Models
    BY <1>2 DEF Config!Of, OfModels, Editing
  <2>2. \A s : Config!Secretly(e, s) = s
    BY <1>2 DEF Config!Secretly, OfModels
  <2>3. \/ q = c
        \/ \E p \in Config!Providers \cup {None} : q = [c EXCEPT !.models[e.m] = p]
    BY <1>2 DEF Config!Edited, Config!AddModel, Config!UpdateModel, Config!DeleteModel, OfModels,
       Editing
  <2>4. q \in Config!Configs /\ q.providers = c.providers /\ q.keyed = c.keyed
    <3>1. CASE q = c
      BY <3>1
    <3>2. ASSUME NEW p \in Config!Providers \cup {None}, q = [c EXCEPT !.models[e.m] = p]
          PROVE  q \in Config!Configs /\ q.providers = c.providers /\ q.keyed = c.keyed
      <4> DEFINE ms == [c.models EXCEPT ![e.m] = p]
                 a == [c EXCEPT !.models = ms]
      <4>1. q = a
        BY <3>2
      <4>2. ms \in [Config!Models -> Config!Providers \cup {None}]
        BY <2>1 DEF Config!Configs
      <4> HIDE DEF ms
      <4>3. a \in Config!Configs /\ a.providers = c.providers /\ a.keyed = c.keyed
        BY <4>2 DEF Config!Configs
      <4> HIDE DEF a, q
      <4> QED
        BY <4>1, <4>3
    <3> QED
      BY <2>3, <3>1, <3>2
  <2> HIDE DEF q
  <2> QED
    BY <2>1, <2>2, <2>4, SnapshotsAre DEF Makes, Config!Resources
<1>3. CASE e.kind \in {"prefs", "settings", "bounds"}
  <2>1. \A s : Config!Secretly(e, s) = s
    BY <1>3 DEF Config!Secretly
  <2>2. /\ q \in Config!Configs /\ q.providers = c.providers /\ q.keyed = c.keyed
        /\ q.models = c.models
    <3>1. CASE e.kind = "prefs"
      <4> DEFINE a == [c EXCEPT !.chosen = e.m]
      <4>1. q = a
        BY <3>1 DEF Config!Edited, Config!UpdatePrefs
      <4>2. e.m \in Config!Models \cup {None, Config!Direct}
        BY <3>1 DEF Editing
      <4>3. /\ a \in Config!Configs /\ a.providers = c.providers /\ a.keyed = c.keyed
            /\ a.models = c.models
        BY <4>2 DEF Config!Configs
      <4> HIDE DEF a, q
      <4> QED
        BY <4>1, <4>3
    <3>2. CASE e.kind # "prefs"
      <4> DEFINE w == "changed"
                 a == [c EXCEPT !.settings = w]
      <4>1. q = a
        BY <1>3, <3>2 DEF Config!Edited, Config!ChangeSettings
      <4>2. w \in {"default", "changed"}
        OBVIOUS
      <4> HIDE DEF w
      <4>3. /\ a \in Config!Configs /\ a.providers = c.providers /\ a.keyed = c.keyed
            /\ a.models = c.models
        BY <4>2 DEF Config!Configs
      <4> HIDE DEF a, q
      <4> QED
        BY <4>1, <4>3
    <3> QED
      BY <3>1, <3>2
  <2> HIDE DEF q
  <2> QED
    BY <2>1, <2>2, SnapshotsAre DEF Makes, Config!Resources
<1> QED
  BY <1>1, <1>2, <1>3 DEF Editing, Kinds

(* What a handler loads.                                                             *)
LEMMA LoadedIs ==
  ASSUME ConfigInv
  PROVE  /\ Config!Loaded \in Config!Configs \cup {Newer} /\ configFile # None
         /\ cached # None =>
              Config!Loaded = cached /\ cached \in Config!Configs /\ Config!Readable(cached)
         /\ cached = None => Config!Loaded = configFile
<1>1. configFile \in Config!Configs \cup {Newer} /\ cached \in Config!Configs \cup {None}
  BY DEF ConfigInv, ConfigTypes
<1> QED
  BY <1>1, ConfigsApart DEF Config!Loaded, Config!Cold, Config!Readable

(* What is constant in a step.                                                         *)
LEMMA ConstantsStay ==
  /\ Config!Configs' = Config!Configs /\ Config!Resources' = Config!Resources /\ Calls' = Calls
  /\ \A e : Editing(e)' = Editing(e) /\ Config!UnderWay(e)' = Config!UnderWay(e)
  /\ \A k : Config!Of(k)' = Config!Of(k)
  /\ \A r, c : Config!Snapshot(r, c)' = Config!Snapshot(r, c)
  /\ \A c : Config!Readable(c)' = Config!Readable(c)
BY DEF Config!Configs, Config!Resources, Config!Models, Config!Providers, Config!Direct, Calls, Editing,
   Config!UnderWay, Config!Of, Config!Snapshot, Config!Readable

(* A step that changes neither the file nor a list keeps the lists current, if the replies that   *)
(* were to come still are.                                                          *)
LEMMA ListsStay ==
  ASSUME ListsCurrent, UNCHANGED <<configFile, shown, gen, loads>>, Watched' => Watched,
         \A c, r : Telling(c, r) => \E d : Telling(d, r)'
  PROVE  ListsCurrent'
<1>1. \A l, r : Newest(l, r)' = Newest(l, r)
  BY DEF Newest
<1>2. Config!Resources' = Config!Resources
  BY DEF Config!Resources
<1>3. ASSUME NEW r \in Config!Resources, ListCurrent(r) PROVE ListCurrent(r)'
  <2>1. Config!Snapshot(r, configFile)' = Config!Snapshot(r, configFile)
    BY DEF Config!Snapshot, Config!Models
  <2>2. \A l : Fit(l, r)' = Fit(l, r)
    BY <2>1 DEF Fit
  <2> QED
    BY <1>1, <1>3, <2>1, <2>2 DEF ListCurrent
<1> QED
  BY <1>2, <1>3 DEF ListsCurrent

(* The window asks for an edit, and its handler loads the configuration.                     *)
LEMMA WindowAsks ==
  ASSUME ConfigInv, NEW e, Editing(e), e.p \in Config!Providers \cup {None},
         e.m \in Config!Models \cup {None, Config!Direct},
         Config!Asks(e), minted' \in [Config!Resources -> Nat]
  PROVE  ConfigInv'
<1>1. PICK b : b = Config!Loaded
  OBVIOUS
<1>2. PICK a \in {"reading", "pending"} : a = IF cached = None THEN "reading" ELSE "pending"
  OBVIOUS
<1>4. PICK x : x = [id |-> editsAsked + 1, kind |-> e.kind, p |-> e.p, m |-> e.m, keyed |-> e.keyed,
                    base |-> b, answer |-> a]
  OBVIOUS
<1>5. /\ editsAsked' = editsAsked + 1 /\ configCalls' = configCalls \cup {x}
      /\ Config!Crosses(command # None \/ \E c \in configCalls : Config!UnderWay(c))
      /\ UNCHANGED <<configFile, cached, command, shown, gen, loads, foreign, overread, unheard>>
  BY <1>1, <1>2, <1>4 DEF Config!Asks, Config!lists, Config!files, Config!Cold
<1>6. /\ x \in Calls /\ Editing(x) /\ x.answer = a /\ x.base = b
      /\ x.answer = "reading" => b \in Config!Configs \cup {Newer}
      /\ x.answer = "pending" => b \in Config!Configs
  <2>1. b \in Config!Configs \cup {Newer} /\ (a = "pending" => b \in Config!Configs)
    BY <1>1, <1>2, LoadedIs
  <2>2. editsAsked + 1 \in Nat /\ e.kind \in Kinds /\ e.keyed \in BOOLEAN
    BY DEF ConfigInv, ConfigTypes, Editing
  <2>3. x \in Calls
    BY <1>2, <1>4, <2>1, <2>2 DEF Calls
  <2>4. /\ x.kind = e.kind /\ x.p = e.p /\ x.m = e.m /\ x.keyed = e.keyed /\ x.base = b
        /\ x.answer = a
    BY <1>4
  <2> QED
    BY <1>2, <2>1, <2>3, <2>4 DEF Editing
<1>w. x.answer # "written"
  BY <1>2, <1>6
<1>7. editsCrossed' \in BOOLEAN /\ (editsCrossed => editsCrossed')
      /\ (~editsCrossed' => /\ command = None /\ \A c : ~Under(c)
                            /\ truth' = truth /\ secrets' = secrets)
  BY <1>5 DEF ConfigInv, ConfigTypes, Config!Crosses, Under
<1>8. ConfigTypes'
  <2>2. \A c \in configCalls' :
          /\ Editing(c)
          /\ c.answer = "reading" => c.base \in Config!Configs \cup {Newer}
          /\ c.answer \in {"pending", "written"} => c.base \in Config!Configs
    BY <1>5, <1>6, <1>w DEF ConfigInv, ConfigTypes
  <2>3. configCalls' \subseteq Calls /\ editsAsked' \in Nat
    BY <1>5, <1>6 DEF ConfigInv, ConfigTypes
  <2> QED
    BY <1>5, <1>7, <2>2, <2>3, ConstantsStay DEF ConfigInv, ConfigTypes
<1>c. ~editsCrossed' /\ ~foreign /\ ~overread => b = configFile
  <2> SUFFICES ASSUME ~editsCrossed', ~foreign, ~overread PROVE b = configFile
    OBVIOUS
  <2>1. \A c \in configCalls : c.answer # "written"
    BY <1>7 DEF Under, Config!UnderWay
  <2>2. cached \in {None, configFile}
    BY <1>7, <2>1 DEF ConfigInv, Sticks, Config!CacheFollowsFile, Config!Followed
  <2> QED
    BY <1>1, <2>2, LoadedIs
<1>9. OneEdit'
  <2>1. ~editsCrossed' => \A c : Under(c)' => c = x
    BY <1>5, <1>7, ConstantsStay DEF Under
  <2> QED
    BY <1>5, <1>6, <1>7, <1>c, <2>1 DEF OneEdit
<1>10. NothingLoaded' /\ LoadsHold'
  BY <1>5, ConstantsStay DEF ConfigInv, NothingLoaded, LoadsHold
<1>f. Config!Followed' => Config!Followed
  BY <1>5, <1>7 DEF Config!Followed
<1>11. ListsCurrent'
  <2>1. \A c, r : Telling(c, r) => Telling(c, r)'
    BY <1>5, ConstantsStay DEF Telling
  <2>2. Watched' => Watched
    BY <1>5, <1>f, ConstantsStay DEF Watched
  <2> QED
    BY <1>5, <2>1, <2>2, ListsStay DEF ConfigInv
<1>12. CacheCurrent'
  <2>1. \A c : Wrote(c)' <=> Wrote(c)
    BY <1>5, <1>w DEF Wrote
  <2> QED
    BY <1>5, <1>f, <2>1, ConstantsStay DEF ConfigInv, CacheCurrent
<1>13. Sticks'
  <2>1. Config!CacheFollowsFile'
    BY <1>5, <1>f DEF ConfigInv, Sticks, Config!CacheFollowsFile
  <2> QED
    BY <1>5, <1>7, <1>f, <2>1, ConstantsStay DEF ConfigInv, Sticks, Config!EditsStick,
       Config!SecretsStick, Config!Followed
<1> QED
  BY <1>8, <1>9, <1>10, <1>11, <1>12, <1>13 DEF ConfigInv

(* The record of a call that goes on, or is answered.                                    *)
Answered(c, a, b) == [c EXCEPT !.answer = a, !.base = b]
LEMMA AnswersAre ==
  ASSUME ConfigInv, NEW c \in configCalls, NEW a \in {"written", "ok", "failed"},
         NEW b \in Config!Configs \cup {None}
  PROVE  /\ Answered(c, a, b) \in Calls /\ Editing(Answered(c, a, b))
         /\ Answered(c, a, b).answer = a /\ Answered(c, a, b).base = b
         /\ Answered(c, a, b).kind = c.kind
<1> DEFINE x == Answered(c, a, b)
<1>1. c \in Calls /\ Editing(c)
  BY DEF ConfigInv, ConfigTypes
<1>2. /\ x \in Calls /\ x.answer = a /\ x.base = b /\ x.kind = c.kind
      /\ x.p = c.p /\ x.m = c.m /\ x.keyed = c.keyed
  BY <1>1 DEF Calls, Answered
<1> HIDE DEF x
<1>3. Editing(x)
  BY <1>1, <1>2 DEF Editing
<1> QED
  BY <1>2, <1>3 DEF x

(* Its handler has read the file, and caches it.                                        *)
LEMMA WindowReads ==
  ASSUME ConfigInv, NEW c, Config!HasRead(c) PROVE ConfigInv'
<1>0. /\ c \in configCalls /\ c.answer = "reading" /\ c \in Calls /\ Editing(c) /\ Under(c)
      /\ c.base \in Config!Configs \cup {Newer}
  BY DEF Config!HasRead, ConfigInv, ConfigTypes, Under, Config!UnderWay
<1>1. PICK a \in {"pending", "failed"} : a = IF Config!Readable(c.base) THEN "pending" ELSE "failed"
  OBVIOUS
<1>2. PICK x : x = [c EXCEPT !.answer = a]
  OBVIOUS
<1>3. /\ configCalls' = (configCalls \ {c}) \cup {x}
      /\ cached' = IF Config!Readable(c.base) THEN c.base ELSE cached
      /\ overread' = (overread \/ (Config!Readable(c.base) /\ c.base # configFile))
      /\ UNCHANGED <<configFile, command, shown, gen, loads, minted, editsAsked, truth, secrets,
                     editsCrossed, foreign, unheard>>
  BY <1>1, <1>2 DEF Config!HasRead, Config!Caches, Config!lists, Config!counts
<1>4. /\ x \in Calls /\ Editing(x) /\ x.answer = a /\ x.base = c.base /\ x.kind = c.kind
      /\ a = "pending" => c.base \in Config!Configs
  <2>1. /\ x \in Calls /\ x.answer = a /\ x.base = c.base /\ x.kind = c.kind
        /\ x.p = c.p /\ x.m = c.m /\ x.keyed = c.keyed
    BY <1>0, <1>2 DEF Calls
  <2> QED
    BY <1>0, <1>1, <2>1 DEF Editing, Config!Readable
<1>5. ConfigTypes'
  <2>1. cached' \in Config!Configs \cup {None} /\ overread' \in BOOLEAN
    BY <1>0, <1>3 DEF ConfigInv, ConfigTypes, Config!Readable
  <2>2. \A d \in configCalls' :
          /\ Editing(d)
          /\ d.answer = "reading" => d.base \in Config!Configs \cup {Newer}
          /\ d.answer \in {"pending", "written"} => d.base \in Config!Configs
    BY <1>1, <1>3, <1>4 DEF ConfigInv, ConfigTypes
  <2>3. configCalls' \subseteq Calls
    BY <1>3, <1>4 DEF ConfigInv, ConfigTypes
  <2> QED
    BY <1>3, <2>1, <2>2, <2>3, ConstantsStay DEF ConfigInv, ConfigTypes
<1>o. ~editsCrossed =>
        /\ command = None /\ (\A d : Under(d) => d = c)
        /\ ~foreign /\ ~overread => c.base = configFile
  BY <1>0 DEF ConfigInv, OneEdit
<1>6. OneEdit'
  <2>1. ~editsCrossed => \A d : Under(d)' => d = x
    BY <1>3, <1>o, ConstantsStay DEF Under
  <2> QED
    BY <1>3, <1>4, <1>o, <2>1 DEF OneEdit
<1>7. NothingLoaded' /\ LoadsHold'
  <2>1. cached' = None => cached = None
    BY <1>0, <1>3, ConfigsApart DEF Config!Readable
  <2> QED
    BY <1>3, <2>1, ConstantsStay DEF ConfigInv, NothingLoaded, LoadsHold
<1>f. Config!Followed' => Config!Followed
  BY <1>3 DEF Config!Followed
<1>8. ListsCurrent'
  <2>1. \A d, r : Telling(d, r) => Telling(d, r)'
    BY <1>0, <1>3, ConstantsStay DEF Telling
  <2>2. Watched' => Watched
    BY <1>3, <1>f, ConstantsStay DEF Watched
  <2> QED
    BY <1>3, <2>1, <2>2, ListsStay DEF ConfigInv
<1>w. Config!Followed' => \A d : ~Wrote(d) /\ ~Wrote(d)'
  <2> SUFFICES ASSUME ~editsCrossed PROVE \A d : ~Wrote(d) /\ ~Wrote(d)'
    BY <1>3 DEF Config!Followed
  <2>1. \A d : Wrote(d) => Under(d)
    BY DEF Wrote, Under, Config!UnderWay
  <2>2. \A d : ~Wrote(d)
    BY <1>0, <1>o, <2>1 DEF Wrote
  <2> QED
    BY <1>1, <1>3, <1>4, <2>2 DEF Wrote
<1>9. CacheCurrent'
  BY <1>w DEF CacheCurrent
<1>10. Sticks'
  <2>1. ASSUME Config!Followed' PROVE cached' \in {None, configFile}
    <3>1. cached \in {None, configFile}
      BY <1>f, <1>w, <2>1 DEF ConfigInv, Sticks, Config!CacheFollowsFile, Wrote
    <3> QED
      BY <1>3, <2>1, <3>1 DEF Config!Followed
  <2> QED
    BY <1>3, <1>f, <2>1, ConstantsStay DEF ConfigInv, Sticks, Config!EditsStick, Config!CacheFollowsFile,
       Config!SecretsStick
<1> QED
  BY <1>5, <1>6, <1>7, <1>8, <1>9, <1>10 DEF ConfigInv

(* What is saved is what was acknowledged, edited.                                         *)
LEMMA EditsAreKept ==
  ASSUME ConfigInv, NEW c, Editing(c), c.base \in Config!Configs, NEW q, q = Config!Edited(c, c.base),
         Config!Remembered(c), Config!Followed, c.base = configFile
  PROVE  truth' = q /\ secrets' \subseteq q.keyed
<1>1. Makes(c, c.base, q)
  BY EditsMake DEF Makes
<1>2. truth = configFile /\ Config!Readable(configFile)
  BY ConfigsApart DEF ConfigInv, Sticks, Config!EditsStick, Config!Readable
<1>3. secrets \subseteq c.base.keyed
  BY <1>2 DEF ConfigInv, Sticks, Config!SecretsStick
<1>4. truth' = q /\ secrets' = Config!Secretly(c, secrets)
  BY <1>2 DEF Config!Remembered, Config!Followed
<1> QED
  BY <1>1, <1>3, <1>4 DEF Makes

(* A handler saves: the file is written.                                                *)
LEMMA WindowWrites ==
  ASSUME ConfigInv, NEW c, Config!Writes(c) PROVE ConfigInv'
<1>0. c \in configCalls /\ c.answer = "pending" /\ c \in Calls /\ Editing(c) /\ c.base \in Config!Configs
      /\ Under(c)
  BY DEF Config!Writes, ConfigInv, ConfigTypes, Under, Config!UnderWay
<1>2. PICK q : q = Config!Edited(c, c.base)
  OBVIOUS
<1>1. PICK x : x = [c EXCEPT !.answer = "written", !.base = q]
  OBVIOUS
<1>3. /\ configFile' = q /\ configCalls' = (configCalls \ {c}) \cup {x}
      /\ Config!Remembered(c)
      /\ UNCHANGED <<cached, command, shown, gen, loads, minted, editsAsked, editsCrossed, foreign,
                     overread, unheard>>
  BY <1>1, <1>2 DEF Config!Writes, Config!lists, Config!counts
<1>4. Makes(c, c.base, q) /\ q \in Config!Configs
  BY <1>0, <1>2, EditsMake DEF Makes
<1>5. x \in Calls /\ Editing(x) /\ x.answer = "written" /\ x.base = q /\ x.kind = c.kind
  <2>1. x = Answered(c, "written", q)
    BY <1>1 DEF Answered
  <2> QED
    BY <1>0, <1>4, <2>1, AnswersAre
<1>6. ConfigTypes'
  <2>1. \A d \in configCalls' :
          /\ Editing(d)
          /\ d.answer = "reading" => d.base \in Config!Configs \cup {Newer}
          /\ d.answer \in {"pending", "written"} => d.base \in Config!Configs
    BY <1>3, <1>4, <1>5 DEF ConfigInv, ConfigTypes
  <2>2. configCalls' \subseteq Calls
    BY <1>3, <1>5 DEF ConfigInv, ConfigTypes
  <2> QED
    BY <1>3, <1>4, <2>1, <2>2, ConstantsStay DEF ConfigInv, ConfigTypes
<1>7. ~editsCrossed =>
        /\ command = None /\ (\A d : Under(d) => d = c)
        /\ ~foreign /\ ~overread => c.base = configFile
  BY <1>0 DEF ConfigInv, OneEdit
<1>8. OneEdit'
  <2>1. ~editsCrossed => \A d : Under(d)' => d = x
    BY <1>3, <1>7, ConstantsStay DEF Under
  <2> QED
    BY <1>3, <1>5, <1>7, <2>1 DEF OneEdit
<1>9. NothingLoaded' /\ LoadsHold'
  BY <1>3, ConstantsStay DEF ConfigInv, NothingLoaded, LoadsHold
<1>f. Config!Followed' = Config!Followed
  BY <1>3 DEF Config!Followed
<1>b. ASSUME Config!Followed PROVE c.base = configFile /\ Config!Readable(configFile)
  BY <1>0, <1>7, <1>b, ConfigsApart DEF Config!Followed, Config!Readable
<1>10. ASSUME Config!Followed PROVE truth' = q /\ secrets' \subseteq q.keyed
  BY <1>0, <1>2, <1>3, <1>10, <1>b, EditsAreKept
<1>x. Wrote(x)'
  BY <1>3, <1>5 DEF Wrote
<1>11. Sticks'
  BY <1>3, <1>10, <1>f, <1>x DEF Sticks, Config!EditsStick, Config!CacheFollowsFile, Config!SecretsStick,
     Wrote
<1>s. ASSUME Config!Followed, NEW r \in Config!Resources \ Config!Of(c.kind)
      PROVE  Config!Snapshot(r, q) = Config!Snapshot(r, configFile)
  BY <1>4, <1>b, <1>s DEF Makes
<1>12. CacheCurrent'
  <2> SUFFICES ASSUME Config!Followed, cached # None, NEW d, Wrote(d)',
                      NEW r \in Config!Resources \ Config!Of(d.kind)
               PROVE  Config!Snapshot(r, cached) = Config!Snapshot(r, q)
    BY <1>3, <1>f, ConstantsStay DEF CacheCurrent
  <2>1. \A y : Wrote(y) => Under(y)
    BY DEF Wrote, Under, Config!UnderWay
  <2>2. \A y : ~Wrote(y)
    BY <1>0, <1>7, <2>1 DEF Wrote, Config!Followed
  <2>3. d = x
    BY <1>3, <2>2 DEF Wrote
  <2>4. cached = configFile
    BY <2>2 DEF ConfigInv, Sticks, Config!CacheFollowsFile, Wrote
  <2> QED
    BY <1>5, <1>s, <2>3, <2>4
<1>13. ListsCurrent'
  <2> SUFFICES ASSUME Watched', NEW r \in Config!Resources PROVE ListCurrent(r)'
    BY ConstantsStay DEF ListsCurrent
  <2>1. Config!Followed /\ Watched
    BY <1>3, <1>b, <1>f DEF Watched
  <2>2. ListCurrent(r)
    BY <2>1 DEF ConfigInv, ListsCurrent
  <2>3. CASE r \in Config!Of(c.kind)
    <3>1. Telling(x, r)'
      BY <1>3, <1>5, <2>3, ConstantsStay DEF Telling
    <3> QED
      BY <3>1 DEF ListCurrent
  <2>4. CASE r \notin Config!Of(c.kind)
    <3>1. Config!Snapshot(r, configFile)' = Config!Snapshot(r, configFile)
      <4>1. Config!Snapshot(r, configFile)' = Config!Snapshot(r, q)
        BY <1>3 DEF Config!Snapshot, Config!Models
      <4> QED
        BY <1>s, <2>1, <2>4, <4>1
    <3>2. \A d : Telling(d, r) => Telling(d, r)'
      BY <1>0, <1>3, ConstantsStay DEF Telling
    <3>3. \A l : (Newest(l, r)' = Newest(l, r)) /\ (Fit(l, r)' = Fit(l, r))
      BY <1>3, <3>1 DEF Newest, Fit
    <3> QED
      BY <1>3, <2>2, <3>1, <3>2, <3>3 DEF ListCurrent
  <2> QED
    BY <2>3, <2>4
<1> QED
  BY <1>6, <1>8, <1>9, <1>11, <1>12, <1>13 DEF ConfigInv

(* And then the cache.                                                              *)
LEMMA WindowSaves ==
  ASSUME ConfigInv, NEW c, Config!Saves(c) PROVE ConfigInv'
<1>0. c \in configCalls /\ c.answer = "written" /\ c \in Calls /\ Editing(c) /\ c.base \in Config!Configs
      /\ Under(c)
  BY DEF Config!Saves, ConfigInv, ConfigTypes, Under, Config!UnderWay
<1>1. PICK x : x = [c EXCEPT !.answer = "ok", !.base = None]
  OBVIOUS
<1>3. /\ cached' = c.base /\ configCalls' = (configCalls \ {c}) \cup {x}
      /\ UNCHANGED <<configFile, command, shown, gen, loads, minted, editsAsked, truth, secrets,
                     editsCrossed, foreign, overread, unheard>>
  BY <1>1 DEF Config!Saves, Config!lists, Config!counts, Config!configHistory
<1>5. x \in Calls /\ Editing(x) /\ x.answer = "ok" /\ x.kind = c.kind
  <2>1. x = Answered(c, "ok", None)
    BY <1>1 DEF Answered
  <2> QED
    BY <1>0, <2>1, AnswersAre
<1>6. ConfigTypes'
  <2>1. \A d \in configCalls' :
          /\ Editing(d)
          /\ d.answer = "reading" => d.base \in Config!Configs \cup {Newer}
          /\ d.answer \in {"pending", "written"} => d.base \in Config!Configs
    BY <1>3, <1>5 DEF ConfigInv, ConfigTypes
  <2>2. configCalls' \subseteq Calls
    BY <1>3, <1>5 DEF ConfigInv, ConfigTypes
  <2> QED
    BY <1>0, <1>3, <2>1, <2>2, ConstantsStay DEF ConfigInv, ConfigTypes
<1>7. ~editsCrossed =>
        /\ command = None /\ (\A d : Under(d) => d = c)
        /\ ~foreign /\ ~overread => c.base = configFile
  BY <1>0 DEF ConfigInv, OneEdit
<1>u. ~editsCrossed => \A d : ~Under(d)'
  BY <1>3, <1>5, <1>7, ConstantsStay DEF Under, Config!UnderWay
<1>8. OneEdit'
  BY <1>3, <1>7, <1>u DEF OneEdit
<1>9. NothingLoaded' /\ LoadsHold'
  BY <1>0, <1>3, ConfigsApart, ConstantsStay DEF ConfigInv, NothingLoaded, LoadsHold
<1>f. Config!Followed' = Config!Followed
  BY <1>3 DEF Config!Followed
<1>10. CacheCurrent'
  <2>1. \A d : Wrote(d)' => Under(d)'
    BY DEF Wrote, Under, Config!UnderWay
  <2> QED
    BY <1>f, <1>u, <2>1 DEF CacheCurrent, Config!Followed
<1>11. Sticks'
  BY <1>3, <1>7, <1>f, ConstantsStay DEF ConfigInv, Sticks, Config!EditsStick, Config!CacheFollowsFile,
     Config!SecretsStick, Config!Followed
<1>12. ListsCurrent'
  <2>1. ASSUME NEW d, NEW r, Telling(d, r) PROVE \E y : Telling(y, r)'
    <3>1. CASE d = c
      <4>1. Telling(x, r)'
        BY <1>3, <1>5, <2>1, <3>1, ConstantsStay DEF Telling
      <4> QED
        BY <4>1
    <3>2. CASE d # c
      <4>1. Telling(d, r)'
        BY <1>3, <2>1, <3>2, ConstantsStay DEF Telling
      <4> QED
        BY <4>1
    <3> QED
      BY <3>1, <3>2
  <2>2. Watched' => Watched
    BY <1>3, <1>f, ConstantsStay DEF Watched
  <2> QED
    BY <1>3, <2>1, <2>2, ListsStay DEF ConfigInv
<1> QED
  BY <1>6, <1>8, <1>9, <1>10, <1>11, <1>12 DEF ConfigInv

(* A step that edits nothing.                                                          *)
FilesStay == UNCHANGED <<configFile, cached, command, truth, secrets, editsCrossed, foreign, overread>>

(* It keeps what was acknowledged.                                           *)
LEMMA FilesKeep ==
  ASSUME ConfigInv, FilesStay, \A c : Wrote(c)' = Wrote(c)
  PROVE  Sticks' /\ CacheCurrent'
<1>1. Config!Followed' = Config!Followed
  BY DEF FilesStay, Config!Followed
<1>2. Config!EditsStick' /\ Config!SecretsStick'
  BY <1>1 DEF ConfigInv, Sticks, FilesStay, Config!EditsStick, Config!SecretsStick, Config!Readable
<1>3. Config!CacheFollowsFile'
  BY <1>1 DEF ConfigInv, Sticks, FilesStay, Config!CacheFollowsFile, Wrote
<1>4. CacheCurrent'
  BY <1>1, ConstantsStay DEF ConfigInv, CacheCurrent, FilesStay
<1> QED
  BY <1>2, <1>3, <1>4 DEF Sticks

(* A handler refuses, or its save fails.                                                *)
LEMMA WindowFails ==
  ASSUME ConfigInv, NEW c, Config!SaveFails(c) PROVE ConfigInv'
<1>0. c \in configCalls /\ c.answer = "pending"
  BY DEF Config!SaveFails
<1>1. PICK x : x = [c EXCEPT !.answer = "failed", !.base = None]
  OBVIOUS
<1>2. /\ configCalls' = (configCalls \ {c}) \cup {x} /\ FilesStay
      /\ UNCHANGED <<shown, gen, loads, minted, editsAsked, unheard>>
  BY <1>1 DEF Config!SaveFails, Config!lists, Config!counts, Config!files, Config!configHistory,
     FilesStay
<1>3. x \in Calls /\ Editing(x) /\ x.answer = "failed" /\ x.kind = c.kind
  <2>1. x = Answered(c, "failed", None)
    BY <1>1 DEF Answered
  <2> QED
    BY <1>0, <2>1, AnswersAre
<1>4. ConfigTypes'
  BY <1>2, <1>3, ConstantsStay DEF ConfigInv, ConfigTypes, FilesStay
<1>5. OneEdit'
  <2>1. \A d : Under(d)' => Under(d)
    BY <1>2, <1>3, ConstantsStay DEF Under, Config!UnderWay
  <2> QED
    BY <1>2, <2>1 DEF ConfigInv, OneEdit, FilesStay
<1>6. NothingLoaded' /\ LoadsHold'
  BY <1>2, ConstantsStay DEF ConfigInv, NothingLoaded, LoadsHold, FilesStay
<1>7. ListsCurrent'
  <2>1. \A d, r : Telling(d, r) => Telling(d, r)'
    BY <1>0, <1>2, ConstantsStay DEF Telling
  <2>2. Watched' => Watched
    BY <1>2, ConstantsStay DEF Watched, FilesStay, Config!Followed
  <2> QED
    BY <1>2, <2>1, <2>2, ListsStay DEF ConfigInv, FilesStay
<1>8. \A d : Wrote(d)' = Wrote(d)
  BY <1>0, <1>2, <1>3 DEF Wrote
<1> QED
  BY <1>2, <1>4, <1>5, <1>6, <1>7, <1>8, FilesKeep DEF ConfigInv

(* Lists are asked for anew, after a reply or for a page.                                   *)
LEMMA WindowLoads ==
  ASSUME ConfigInv, NEW rs \in SUBSET Config!Resources, Config!Load(rs),
         configCalls' \subseteq configCalls, unheard' \in BOOLEAN, unheard => unheard',
         \A c \in configCalls \ configCalls' :
           /\ ~Config!UnderWay(c)
           /\ c.answer = "ok" => unheard' \/ Config!Of(c.kind) \subseteq rs,
         UNCHANGED <<shown, minted, editsAsked>>, FilesStay
  PROVE  ConfigInv'
<1>0. gen \in [Config!Resources -> Nat]
      /\ \A l \in loads : l.of \in Config!Resources /\ l.gen \in Nat /\ l.gen <= gen[l.of]
  BY DEF ConfigInv, ConfigTypes
<1>1. PICK data : data = [r \in Config!Resources |->
                            IF Config!Readable(Config!Loaded) THEN Config!Snapshot(r, Config!Loaded)
                            ELSE None]
  OBVIOUS
<1>d. PICK read : read = IF cached = None THEN configFile ELSE None
  OBVIOUS
<1>2. /\ \A r \in Config!Resources : gen'[r] = IF r \in rs THEN gen[r] + 1 ELSE gen[r]
      /\ gen' = [r \in Config!Resources |-> gen'[r]]
      /\ loads' = loads \cup {[of |-> r, gen |-> gen[r] + 1, data |-> data[r], doc |-> read] : r \in rs}
  <2>1. {[of |-> r, gen |-> gen[r] + 1, data |-> data[r], doc |-> read] : r \in rs}
        = {[of |-> r, gen |-> gen[r] + 1,
            data |-> IF Config!Readable(Config!Loaded) THEN Config!Snapshot(r, Config!Loaded) ELSE None,
            doc |-> IF Config!Cold THEN configFile ELSE None] : r \in rs}
    BY <1>1, <1>d DEF Config!Cold
  <2> QED
    BY <2>1 DEF Config!Load
<1>3. \A l \in loads' : \/ l \in loads
                        \/ l.of \in rs /\ l.gen = gen[l.of] + 1 /\ l.data = data[l.of] /\ l.doc = read
  BY <1>2
<1>4. ASSUME NEW r \in rs PROVE \E l \in loads' : l.of = r /\ l.gen = gen[r] + 1
  <2>1. PICK l : l = [of |-> r, gen |-> gen[r] + 1, data |-> data[r], doc |-> read]
    OBVIOUS
  <2>2. l \in loads'
    BY <1>2, <2>1
  <2> QED
    BY <2>1, <2>2
<1>5. /\ gen' \in [Config!Resources -> Nat]
      /\ \A l \in loads' : l.of \in Config!Resources /\ l.gen \in Nat /\ l.gen <= gen'[l.of]
  <2>1. gen' \in [Config!Resources -> Nat]
    BY <1>0, <1>2
  <2>2. ASSUME NEW l \in loads' PROVE l.of \in Config!Resources /\ l.gen \in Nat /\ l.gen <= gen'[l.of]
    <3>1. CASE l \in loads
      BY <1>0, <1>2, <3>1
    <3>2. CASE l.of \in rs /\ l.gen = gen[l.of] + 1
      BY <1>0, <1>2, <3>2
    <3> QED
      BY <1>3, <3>1, <3>2
  <2> QED
    BY <2>1, <2>2
<1>7. ConfigTypes'
  BY <1>5, ConstantsStay DEF ConfigInv, ConfigTypes, FilesStay
<1>8. OneEdit'
  BY ConstantsStay DEF ConfigInv, OneEdit, Under, FilesStay
<1>9. NothingLoaded' /\ LoadsHold'
  <2>1. read \in Config!Configs \cup {Newer, None} /\ (cached = None => read = configFile /\ read # None)
    BY <1>d, LoadedIs DEF ConfigInv, ConfigTypes
  <2>2. NothingLoaded'
    BY <1>3, <2>1, ConstantsStay DEF ConfigInv, NothingLoaded, FilesStay
  <2>d. \A l \in loads' : DOMAIN l = {"of", "gen", "data", "doc"}
    BY <1>2 DEF ConfigInv, LoadsHold
  <2>3. ASSUME NEW l \in loads'
        PROVE  /\ l.doc \in Config!Configs \cup {Newer, None}
               /\ l.doc # None => \/ l.data = None
                                  \/ Config!Readable(l.doc) /\ l.data = Config!Snapshot(l.of, l.doc)
    <3>1. CASE l \in loads
      BY <3>1 DEF ConfigInv, LoadsHold
    <3>2. CASE l.of \in rs /\ l.data = data[l.of] /\ l.doc = read
      <4>1. read # None => cached = None
        BY <1>d
      <4>2. cached = None => Config!Loaded = read
        BY <2>1, LoadedIs
      <4> QED
        BY <1>1, <2>1, <3>2, <4>1, <4>2
    <3> QED
      BY <1>3, <3>1, <3>2
  <2>4. LoadsHold'
    BY <2>3, <2>d, ConstantsStay DEF LoadsHold
  <2> QED
    BY <2>2, <2>4
<1>10. Sticks' /\ CacheCurrent'
  <2>1. \A c : Wrote(c)' = Wrote(c)
    BY DEF Wrote, Config!UnderWay
  <2> QED
    BY <2>1, FilesKeep
<1>11. ListsCurrent'
  <2> SUFFICES ASSUME Watched', NEW r \in Config!Resources PROVE ListCurrent(r)'
    BY ConstantsStay DEF ListsCurrent
  <2>1. Watched /\ ~unheard' /\ ListCurrent(r)
    BY ConstantsStay DEF Watched, FilesStay, Config!Followed, ConfigInv, ListsCurrent
  <2>2. PICK s : s = Config!Snapshot(r, configFile) /\ s = Config!Snapshot(r, configFile)'
    BY DEF Config!Snapshot, Config!Models, FilesStay
  <2>3. CASE \E c : Telling(c, r) /\ c \in configCalls'
    <3>1. PICK c : Telling(c, r) /\ c \in configCalls'
      BY <2>3
    <3>2. Telling(c, r)'
      BY <3>1, ConstantsStay DEF Telling
    <3> QED
      BY <3>2 DEF ListCurrent
  <2>4. CASE r \in rs /\ ~\E c : Telling(c, r) /\ c \in configCalls'
    <3>1. data[r] = s
      <4>1. CASE cached = None
        BY <1>1, <2>1, <2>2, <4>1, LoadedIs DEF Watched
      <4>2. CASE cached = configFile
        BY <1>1, <2>1, <2>2, <4>2, LoadedIs DEF Watched
      <4>3. CASE cached # None /\ cached # configFile
        <5>1. PICK c : Wrote(c)
          BY <2>1, <4>3 DEF Watched, ConfigInv, Sticks, Config!CacheFollowsFile, Wrote
        <5>2. c \in configCalls'
          BY <5>1 DEF Wrote, Config!UnderWay
        <5>3. r \notin Config!Of(c.kind)
          BY <2>4, <5>1, <5>2 DEF Telling, Wrote
        <5>4. Config!Snapshot(r, cached) = s
          BY <2>1, <2>2, <4>3, <5>1, <5>3 DEF ConfigInv, CacheCurrent, Watched
        <5> QED
          BY <1>1, <4>3, <5>4, LoadedIs
      <4> QED
        BY <4>1, <4>2, <4>3
    <3>2. ASSUME NEW l, Newest(l, r)' PROVE l.data = s
      <4>1. l \in loads' /\ l.of = r /\ l.gen = gen[r] + 1
        BY <1>2, <2>4, <3>2 DEF Newest
      <4>2. l \notin loads
        <5>1. l \in loads => l.gen <= gen[r] /\ gen[r] \in Nat
          BY <1>0, <4>1
        <5> QED
          BY <4>1, <5>1
      <4> QED
        BY <1>3, <3>1, <4>1, <4>2
    <3>3. \E l : Newest(l, r)'
      <4>1. gen'[r] = gen[r] + 1
        BY <1>2, <2>4
      <4> QED
        BY <1>4, <2>4, <4>1 DEF Newest
    <3> QED
      BY <2>2, <3>2, <3>3 DEF ListCurrent, Fit
  <2>5. CASE r \notin rs /\ ~\E c : Telling(c, r) /\ c \in configCalls'
    <3>1. ~\E c : Telling(c, r)
      BY <2>1, <2>5 DEF Telling, Config!UnderWay
    <3>2. gen'[r] = gen[r]
      BY <1>2, <2>5
    <3>3. \A l : Newest(l, r)' <=> Newest(l, r)
      BY <1>2, <1>3, <2>5, <3>2 DEF Newest
    <3>4. \A l : Fit(l, r)' = Fit(l, r)
      BY <2>2 DEF Fit
    <3>5. /\ \A l : Newest(l, r)' => Fit(l, r)'
          /\ (\E l : Newest(l, r)') \/ shown[r] = None \/ shown[r] = s
      BY <2>1, <2>2, <3>1, <3>3, <3>4 DEF ListCurrent
    <3> QED
      BY <2>2, <3>5 DEF ListCurrent
  <2> QED
    BY <2>3, <2>4, <2>5
<1> QED
  BY <1>7, <1>8, <1>9, <1>10, <1>11 DEF ConfigInv

(* A reply arrives, or is given up, and a page is opened.                                   *)
LEMMA WindowHears ==
  /\ \A c, heard : ConfigInv /\ Config!Replies(c, heard) => ConfigInv'
  /\ \A r \in Config!Resources : ConfigInv /\ Config!Fetches(r) => ConfigInv'
<1>1. ASSUME NEW c, NEW heard, ConfigInv, Config!Replies(c, heard) PROVE ConfigInv'
  <2>1. PICK rs : rs = IF heard /\ c.answer = "ok" THEN Config!Of(c.kind) ELSE {}
    OBVIOUS
  <2>2. rs \in SUBSET Config!Resources
    BY <2>1 DEF Config!Of, Config!Resources
  <2>3. /\ Config!Load(rs) /\ configCalls' = configCalls \ {c} /\ ~Config!UnderWay(c)
        /\ unheard' = (unheard \/ (~heard /\ c.kind # "bounds"))
    BY <1>1, <2>1 DEF Config!Replies
  <2>4. UNCHANGED <<shown, minted, editsAsked>> /\ FilesStay
    BY <1>1 DEF Config!Replies, Config!counts, Config!files, FilesStay
  <2>5. c.kind = "bounds" => Config!Of(c.kind) = {}
    BY DEF Config!Of
  <2>6. \A d \in configCalls \ configCalls' :
          /\ ~Config!UnderWay(d)
          /\ d.answer = "ok" => unheard' \/ Config!Of(d.kind) \subseteq rs
    BY <2>1, <2>3, <2>5
  <2>7. configCalls' \subseteq configCalls /\ unheard' \in BOOLEAN /\ (unheard => unheard')
    BY <1>1, <2>3 DEF ConfigInv, ConfigTypes
  <2> QED
    BY <1>1, <2>2, <2>3, <2>4, <2>6, <2>7, WindowLoads
<1>2. ASSUME NEW r \in Config!Resources, ConfigInv, Config!Fetches(r) PROVE ConfigInv'
  <2>1. PICK rs \in SUBSET Config!Resources : rs = {r}
    OBVIOUS
  <2>2. Config!Load(rs) /\ configCalls' = configCalls /\ unheard' = unheard
    BY <1>2, <2>1 DEF Config!Fetches, Config!configHistory
  <2>3. UNCHANGED <<shown, minted, editsAsked>> /\ FilesStay
    BY <1>2 DEF Config!Fetches, Config!counts, Config!configHistory, Config!files, FilesStay
  <2>4. /\ \A d \in configCalls \ configCalls' :
             /\ ~Config!UnderWay(d)
             /\ d.answer = "ok" => unheard' \/ Config!Of(d.kind) \subseteq rs
        /\ configCalls' \subseteq configCalls /\ unheard' \in BOOLEAN /\ (unheard => unheard')
    BY <1>2, <2>2 DEF ConfigInv, ConfigTypes
  <2> QED
    BY <1>2, <2>1, <2>2, <2>3, <2>4, WindowLoads
<1> QED
  BY <1>1, <1>2

(* The file has been read for a list, and is cached.                                         *)
LEMMA WindowCaches ==
  ASSUME ConfigInv, NEW l, Config!ListRead(l) PROVE ConfigInv'
<1>0. /\ l \in loads /\ l.doc # None /\ l.doc \in Config!Configs \cup {Newer}
      /\ l.of \in Config!Resources /\ l.gen \in Nat /\ l.gen <= gen[l.of]
      /\ DOMAIN l = {"of", "gen", "data", "doc"}
      /\ l.data = None \/ (Config!Readable(l.doc) /\ l.data = Config!Snapshot(l.of, l.doc))
  BY DEF Config!ListRead, ConfigInv, ConfigTypes, LoadsHold
<1>1. PICK x : x = [l EXCEPT !.doc = None]
  OBVIOUS
<1>2. /\ loads' = (loads \ {l}) \cup {x}
      /\ cached' = IF Config!Readable(l.doc) THEN l.doc ELSE cached
      /\ overread' = (overread \/ (Config!Readable(l.doc) /\ l.doc # configFile))
      /\ UNCHANGED <<configFile, configCalls, command, shown, gen, minted, editsAsked, truth, secrets,
                     editsCrossed, foreign, unheard>>
  BY <1>1 DEF Config!ListRead, Config!Caches, Config!counts
<1>3. /\ x.of = l.of /\ x.gen = l.gen /\ x.data = l.data /\ x.doc = None
      /\ DOMAIN x = {"of", "gen", "data", "doc"}
  BY <1>0, <1>1
<1>4. ConfigTypes'
  <2>1. cached' \in Config!Configs \cup {None} /\ overread' \in BOOLEAN
    BY <1>0, <1>2 DEF ConfigInv, ConfigTypes, Config!Readable
  <2>2. \A y \in loads' : y.of \in Config!Resources /\ y.gen \in Nat /\ y.gen <= gen[y.of]
    BY <1>0, <1>2, <1>3 DEF ConfigInv, ConfigTypes
  <2> QED
    BY <1>2, <2>1, <2>2, ConstantsStay DEF ConfigInv, ConfigTypes
<1>5. OneEdit'
  BY <1>2, ConstantsStay DEF ConfigInv, OneEdit, Under
<1>6. NothingLoaded'
  <2>1. cached' = None => cached = None /\ l.data = None
    BY <1>0, <1>2, ConfigsApart DEF Config!Readable
  <2> QED
    BY <1>2, <1>3, <2>1, ConstantsStay DEF ConfigInv, NothingLoaded
<1>7. LoadsHold'
  BY <1>2, <1>3, ConstantsStay DEF ConfigInv, LoadsHold
<1>f. Config!Followed' => Config!Followed /\ (Config!Readable(l.doc) => l.doc = configFile)
  BY <1>2 DEF Config!Followed
<1>8. Config!Followed' => cached' \in {cached, configFile}
  BY <1>2, <1>f
<1>9. CacheCurrent'
  BY <1>2, <1>f, <1>8, ConstantsStay DEF ConfigInv, CacheCurrent, Wrote
<1>10. Sticks'
  BY <1>2, <1>f, <1>8, ConstantsStay DEF ConfigInv, Sticks, Config!EditsStick, Config!CacheFollowsFile,
     Config!SecretsStick
<1>11. ListsCurrent'
  <2> SUFFICES ASSUME Watched', NEW r \in Config!Resources PROVE ListCurrent(r)'
    BY ConstantsStay DEF ListsCurrent
  <2>1. Watched /\ ListCurrent(r)
    BY <1>2, <1>f, ConstantsStay DEF Watched, ConfigInv, ListsCurrent
  <2>2. \A c : Telling(c, r)' = Telling(c, r)
    BY <1>2, ConstantsStay DEF Telling
  <2>3. PICK s : s = Config!Snapshot(r, configFile) /\ s = Config!Snapshot(r, configFile)'
    BY <1>2 DEF Config!Snapshot, Config!Models
  <2>4. ASSUME Newest(x, r)' PROVE Newest(l, r) /\ Fit(x, r)'
    <3>1. Newest(l, r)
      BY <1>0, <1>2, <1>3, <2>4 DEF Newest
    <3>2. l.of = r
      BY <3>1 DEF Newest
    <3>3. x.data = None \/ x.data = s
      BY <1>0, <1>3, <1>f, <2>3, <3>2 DEF Watched
    <3> QED
      BY <2>3, <3>1, <3>3 DEF Fit
  <2>5. Newest(l, r) => Newest(x, r)'
    BY <1>2, <1>3 DEF Newest
  <2>6. \A y : y # l /\ Newest(y, r) => Newest(y, r)'
    BY <1>2 DEF Newest
  <2>7. \A y : y # x /\ Newest(y, r)' => Newest(y, r)
    BY <1>2 DEF Newest
  <2>8. \A y : Fit(y, r)' = Fit(y, r)
    BY <2>3 DEF Fit
  <2>9. CASE \E c : Telling(c, r)
    BY <2>2, <2>9 DEF ListCurrent
  <2>10. CASE /\ \A y : Newest(y, r) => Fit(y, r)
              /\ (\E y : Newest(y, r)) \/ shown[r] = None \/ shown[r] = s
    <3>1. \A y : Newest(y, r)' => Fit(y, r)'
      BY <2>4, <2>7, <2>8, <2>10
    <3>2. (\E y : Newest(y, r)) => \E y : Newest(y, r)'
      BY <2>5, <2>6
    <3> QED
      BY <1>2, <2>3, <2>10, <3>1, <3>2 DEF ListCurrent
  <2> QED
    BY <2>1, <2>3, <2>9, <2>10 DEF ListCurrent
<1> QED
  BY <1>4, <1>5, <1>6, <1>7, <1>9, <1>10, <1>11 DEF ConfigInv

(* A list arrives.                                                                     *)
LEMMA WindowShows ==
  ASSUME ConfigInv, NEW l, Config!Arrives(l) PROVE ConfigInv'
<1>0. /\ l \in loads /\ l.of \in Config!Resources /\ loads' = loads \ {l} /\ l.doc = None
      /\ shown' = IF l.gen = gen[l.of] /\ l.data # None THEN [shown EXCEPT ![l.of] = l.data] ELSE shown
      /\ unheard' = (unheard \/ l.data = None) /\ FilesStay
      /\ UNCHANGED <<configCalls, gen, minted, editsAsked>>
  BY DEF Config!Arrives, Config!counts, Config!files, FilesStay, ConfigInv, ConfigTypes
<1>1. DOMAIN shown = Config!Resources
  BY DEF ConfigInv, ConfigTypes
<1>2. ConfigTypes'
  <2>1. DOMAIN shown' = Config!Resources /\ unheard' \in BOOLEAN
    BY <1>0, <1>1 DEF ConfigInv, ConfigTypes
  <2> QED
    BY <1>0, <2>1, ConstantsStay DEF ConfigInv, ConfigTypes, FilesStay
<1>3. OneEdit'
  BY <1>0, ConstantsStay DEF ConfigInv, OneEdit, Under, FilesStay
<1>4. NothingLoaded' /\ LoadsHold'
  <2>1. cached = None => l.data = None
    BY <1>0 DEF ConfigInv, NothingLoaded
  <2> QED
    BY <1>0, <2>1, ConstantsStay DEF ConfigInv, NothingLoaded, LoadsHold, FilesStay
<1>5. ListsCurrent'
  <2> SUFFICES ASSUME Watched', NEW r \in Config!Resources PROVE ListCurrent(r)'
    BY ConstantsStay DEF ListsCurrent
  <2>1. Watched /\ ListCurrent(r) /\ l.data # None
    BY <1>0, ConstantsStay DEF Watched, Config!Followed, FilesStay, ConfigInv, ListsCurrent, ConfigTypes
  <2>2. PICK s : s = Config!Snapshot(r, configFile) /\ s = Config!Snapshot(r, configFile)'
    BY <1>0 DEF Config!Snapshot, Config!Models, FilesStay
  <2>3. \A c : Telling(c, r)' = Telling(c, r)
    BY <1>0, ConstantsStay DEF Telling
  <2>4. CASE \E c : Telling(c, r)
    BY <2>3, <2>4 DEF ListCurrent
  <2>5. CASE /\ \A x : Newest(x, r) => Fit(x, r)
             /\ (\E x : Newest(x, r)) \/ shown[r] = None \/ shown[r] = s
    <3>1. \A x : Newest(x, r)' => Newest(x, r) /\ Fit(x, r)'
      BY <1>0, <2>2, <2>5 DEF Newest, Fit
    <3>2. CASE Newest(l, r)
      <4>1. l.data = s
        BY <1>0, <2>1, <2>2, <2>5, <3>2 DEF Fit
      <4>2. shown'[r] = s
        BY <1>0, <1>1, <2>1, <3>2, <4>1 DEF Newest
      <4> QED
        BY <2>2, <3>1, <4>2 DEF ListCurrent
    <3>3. CASE ~Newest(l, r)
      <4>1. shown'[r] = shown[r]
        BY <1>0, <1>1, <3>3 DEF Newest
      <4>2. \A x : Newest(x, r) => Newest(x, r)'
        BY <1>0, <3>3 DEF Newest
      <4> QED
        BY <2>2, <2>5, <3>1, <4>1, <4>2 DEF ListCurrent
    <3> QED
      BY <3>2, <3>3
  <2> QED
    BY <2>1, <2>2, <2>4, <2>5 DEF ListCurrent
<1>6. \A c : Wrote(c)' = Wrote(c)
  BY <1>0 DEF Wrote
<1> QED
  BY <1>0, <1>2, <1>3, <1>4, <1>5, <1>6, FilesKeep DEF ConfigInv

(* The command line loads the file.                                                   *)
LEMMA LineLoads ==
  ASSUME ConfigInv, NEW e, Editing(e), ~e.keyed, Config!CommandLoads(e),
         minted' \in [Config!Resources -> Nat]
  PROVE  ConfigInv'
<1>1. PICK k \in BOOLEAN : k = FALSE
  OBVIOUS
<1>2. PICK x : x = [kind |-> e.kind, p |-> e.p, m |-> e.m, keyed |-> k, base |-> configFile]
  OBVIOUS
<1>3. /\ command = None /\ Config!Readable(configFile) /\ command' = x
      /\ Config!Crosses(\E c \in configCalls : Config!UnderWay(c))
      /\ UNCHANGED <<configFile, cached, configCalls, shown, gen, loads, editsAsked, foreign, overread,
                     unheard>>
  BY <1>1, <1>2 DEF Config!CommandLoads, Config!files, Config!lists
<1>4. Editing(x) /\ x.base = configFile /\ configFile \in Config!Configs
  <2>1. x.kind = e.kind /\ x.p = e.p /\ x.m = e.m /\ x.keyed = k /\ x.base = configFile
    BY <1>2
  <2> QED
    BY <1>1, <1>3, <2>1 DEF Editing, ConfigInv, ConfigTypes, Config!Readable
<1>5. editsCrossed' \in BOOLEAN /\ (editsCrossed => editsCrossed')
      /\ (~editsCrossed' => (\A c : ~Under(c)) /\ truth' = truth /\ secrets' = secrets)
  BY <1>3 DEF ConfigInv, ConfigTypes, Config!Crosses, Under
<1>6. ConfigTypes'
  BY <1>3, <1>4, <1>5, ConstantsStay DEF ConfigInv, ConfigTypes
<1>7. OneEdit'
  <2>1. \A c : Under(c)' = Under(c)
    BY <1>3, ConstantsStay DEF Under
  <2> QED
    BY <1>3, <1>4, <1>5, <2>1 DEF OneEdit
<1>8. NothingLoaded' /\ LoadsHold'
  BY <1>3, ConstantsStay DEF ConfigInv, NothingLoaded, LoadsHold
<1>f. Config!Followed' => Config!Followed
  BY <1>3, <1>5 DEF Config!Followed
<1>9. ListsCurrent'
  <2>1. \A c, r : Telling(c, r) => Telling(c, r)'
    BY <1>3, ConstantsStay DEF Telling
  <2>2. Watched' => Watched
    BY <1>3, <1>f, ConstantsStay DEF Watched
  <2> QED
    BY <1>3, <2>1, <2>2, ListsStay DEF ConfigInv
<1>10. CacheCurrent'
  BY <1>3, <1>f, ConstantsStay DEF ConfigInv, CacheCurrent, Wrote
<1>11. Sticks'
  <2>1. Config!Followed' => truth' = truth /\ secrets' = secrets
    BY <1>5 DEF Config!Followed
  <2> QED
    BY <1>3, <1>f, <2>1, ConstantsStay DEF ConfigInv, Sticks, Config!EditsStick,
       Config!CacheFollowsFile, Config!SecretsStick
<1> QED
  BY <1>6, <1>7, <1>8, <1>9, <1>10, <1>11 DEF ConfigInv

(* It saves, behind the cache.                                                        *)
LEMMA LineSaves == ConfigInv /\ Config!CommandSaves => ConfigInv'
<1> SUFFICES ASSUME ConfigInv, Config!CommandSaves PROVE ConfigInv'
  OBVIOUS
<1>1. PICK c : c = command
  OBVIOUS
<1>2. PICK q : q = Config!Edited(c, c.base)
  OBVIOUS
<1>3. /\ command # None /\ command' = None /\ configFile' = q /\ Config!Remembered(c)
      /\ foreign' = (foreign \/ cached # None)
      /\ UNCHANGED <<cached, configCalls, shown, gen, loads, minted, editsAsked, editsCrossed, overread,
                     unheard>>
  BY <1>1, <1>2 DEF Config!CommandSaves, Config!lists, Config!counts
<1>4. Makes(c, c.base, q) /\ q \in Config!Configs /\ c.base \in Config!Configs /\ Editing(c)
  BY <1>1, <1>2, <1>3, EditsMake DEF Makes, ConfigInv, ConfigTypes
<1>5. ~editsCrossed => c.base = configFile /\ \A d : ~Under(d)
  BY <1>1, <1>3 DEF ConfigInv, OneEdit
<1>6. ConfigTypes'
  BY <1>3, <1>4, ConstantsStay DEF ConfigInv, ConfigTypes
<1>7. OneEdit'
  <2>1. \A d : Under(d)' = Under(d)
    BY <1>3, ConstantsStay DEF Under
  <2> QED
    BY <1>3, <1>5, <2>1 DEF OneEdit
<1>8. NothingLoaded' /\ LoadsHold'
  BY <1>3, ConstantsStay DEF ConfigInv, NothingLoaded, LoadsHold
<1>f. Config!Followed' => Config!Followed /\ cached = None
  BY <1>3 DEF Config!Followed, ConfigInv, ConfigTypes
<1>9. ASSUME Config!Followed PROVE truth' = q /\ secrets' \subseteq q.keyed
  BY <1>2, <1>3, <1>4, <1>5, <1>9, EditsAreKept DEF Config!Followed
<1>10. Sticks'
  BY <1>3, <1>9, <1>f DEF Sticks, Config!EditsStick, Config!CacheFollowsFile, Config!SecretsStick
<1>11. CacheCurrent'
  BY <1>3, <1>f DEF CacheCurrent
<1>12. ListsCurrent'
  <2> SUFFICES ASSUME Watched', NEW r \in Config!Resources PROVE ListCurrent(r)'
    BY ConstantsStay DEF ListsCurrent
  <2>1. shown[r] = None /\ \A l \in loads : l.doc # None \/ l.data = None
    BY <1>f DEF Watched, ConfigInv, NothingLoaded
  <2> QED
    BY <1>3, <2>1 DEF ListCurrent, Newest, Fit
<1> QED
  BY <1>6, <1>7, <1>8, <1>10, <1>11, <1>12 DEF ConfigInv

(* The application starts again.                                                     *)
LEMMA WindowStarts == ConfigInv /\ Config!StartsAgain => ConfigInv'
<1> SUFFICES ASSUME ConfigInv, Config!StartsAgain PROVE ConfigInv'
  OBVIOUS
<1>1. /\ cached' = None /\ configCalls' = {} /\ loads' = {}
      /\ shown' = [r \in Config!Resources |-> None] /\ gen' = [r \in Config!Resources |-> 0]
      /\ UNCHANGED <<configFile, command, minted, editsAsked, truth, secrets, editsCrossed,
                     foreign, overread, unheard>>
  BY DEF Config!StartsAgain, Config!configHistory
<1>2. ConfigTypes'
  BY <1>1, ConstantsStay DEF ConfigInv, ConfigTypes
<1>3. OneEdit' /\ CacheCurrent'
  BY <1>1 DEF ConfigInv, OneEdit, Under, CacheCurrent
<1>4. NothingLoaded' /\ LoadsHold' /\ ListsCurrent'
  BY <1>1, ConstantsStay DEF NothingLoaded, LoadsHold, ListsCurrent, ListCurrent, Newest
<1>5. Sticks'
  BY <1>1, ConstantsStay DEF ConfigInv, Sticks, Config!EditsStick, Config!CacheFollowsFile,
     Config!SecretsStick, Config!Followed
<1> QED
  BY <1>2, <1>3, <1>4, <1>5 DEF ConfigInv

(* An edit that is asked for, of the window or of the command line.                        *)
Asking(kind, p, m) ==
  /\ kind \in Kinds /\ p \in Config!Providers \cup {None} /\ m \in Config!Models \cup {None, Config!Direct}
  /\ kind \in OfProviders \cup {"addModel", "updateModel"} => p \in Config!Providers
  /\ kind \in OfModels => m \in Config!Models
  /\ kind = "prefs" => m \in Config!Models \cup {Config!Direct}

(* It is loaded for, by its handler or by the command line.                  *)
LEMMA CallAsked ==
  ASSUME ConfigInv, NEW kind, NEW p, NEW m, NEW k \in BOOLEAN, Asking(kind, p, m),
         minted' \in [Config!Resources -> Nat],
         \/ Config!Asks(Config!Call(kind, p, m, k))
         \/ k = FALSE /\ Config!CommandLoads(Config!Call(kind, p, m, k))
  PROVE  ConfigInv'
<1>1. PICK e : e = Config!Call(kind, p, m, k)
  OBVIOUS
<1>2. e.kind = kind /\ e.p = p /\ e.m = m /\ e.keyed = k
  BY <1>1 DEF Config!Call
<1>3. /\ Editing(e) /\ e.p \in Config!Providers \cup {None}
      /\ e.m \in Config!Models \cup {None, Config!Direct}
  BY <1>2 DEF Asking, Editing
<1>4. CASE Config!Asks(e)
  BY <1>3, <1>4, WindowAsks
<1>5. CASE k = FALSE /\ Config!CommandLoads(e)
  <2>1. ~e.keyed
    BY <1>2, <1>5
  <2> QED
    BY <1>3, <1>5, <2>1, LineLoads
<1> QED
  BY <1>1, <1>4, <1>5

(* Every step that asks for an edit.                                                    *)
LEMMA EditsAsked ==
  ASSUME ConfigInv
  PROVE  /\ \A k \in BOOLEAN : Config!SubmitsProvider(k) => ConfigInv'
         /\ \A p \in Config!Providers :
              (\/ Config!SubmitsSecret(p) \/ Config!SubmitsEdit(p) \/ Config!RemovesProvider(p)
               \/ Config!SubmitsModel(p) \/ Config!CommandAdds(p) \/ Config!CommandRemoves(p)) => ConfigInv'
         /\ \A m \in Config!Models :
              Config!RemovesModel(m) \/ Config!CommandRemovesModel(m) => ConfigInv'
         /\ \A m \in Config!Models, p \in Config!Providers :
              Config!SubmitsDraft(m, p) \/ Config!CommandAddsModel(m, p) => ConfigInv'
         /\ \A n \in Config!Models \cup {Config!Direct} : Config!PicksModel(n) => ConfigInv'
         /\ (\/ Config!Launches \/ Config!ChangesSettings \/ Config!ChangesUpdates
             \/ Config!BoundsSettle) => ConfigInv'
<1>0. /\ minted \in [Config!Resources -> Nat] /\ "providers" \in Config!Resources
      /\ "models" \in Config!Resources /\ MaxProviders \in Nat /\ MaxModels \in Nat
      /\ Config!Providers \subseteq Nat /\ Config!Models \subseteq Nat
      /\ TRUE \in BOOLEAN /\ FALSE \in BOOLEAN
  BY ConfigsApart DEF ConfigInv, ConfigTypes, Config!Resources, Config!Providers, Config!Models
<1>1. ASSUME NEW k \in BOOLEAN, Config!SubmitsProvider(k) PROVE ConfigInv'
  <2>1. PICK i \in Config!Providers : i = minted["providers"] + 1
    BY <1>0, <1>1 DEF Config!SubmitsProvider, Config!Providers
  <2>2. minted' \in [Config!Resources -> Nat]
    BY <1>0, <1>1 DEF Config!SubmitsProvider
  <2>3. Config!Asks(Config!Call("addProvider", i, None, k))
    BY <1>1, <2>1 DEF Config!SubmitsProvider
  <2>4. Asking("addProvider", i, None)
    BY <2>1 DEF Asking, Kinds, OfProviders, OfModels
  <2> QED
    BY <2>2, <2>3, <2>4, CallAsked
<1>2. ASSUME NEW p \in Config!Providers,
             Config!SubmitsSecret(p) \/ Config!SubmitsEdit(p) \/ Config!RemovesProvider(p)
      PROVE  ConfigInv'
  <2>1. minted' = minted /\ \/ Config!Asks(Config!Call("setSecret", p, None, TRUE))
                            \/ Config!Asks(Config!Call("updateProvider", p, None, FALSE))
                            \/ Config!Asks(Config!Call("deleteProvider", p, None, FALSE))
    BY <1>2 DEF Config!SubmitsSecret, Config!SubmitsEdit, Config!RemovesProvider
  <2>2. Asking("setSecret", p, None) /\ Asking("updateProvider", p, None)
        /\ Asking("deleteProvider", p, None)
    BY DEF Asking, Kinds, OfProviders, OfModels
  <2> QED
    BY <1>0, <2>1, <2>2, CallAsked
<1>3. ASSUME NEW p \in Config!Providers, Config!SubmitsModel(p) PROVE ConfigInv'
  <2>1. PICK i \in Config!Models : i = minted["models"] + 1
    BY <1>0, <1>3 DEF Config!SubmitsModel, Config!Models
  <2>2. minted' \in [Config!Resources -> Nat]
    BY <1>0, <1>3 DEF Config!SubmitsModel
  <2>3. Config!Asks(Config!Call("addModel", p, i, FALSE)) /\ FALSE \in BOOLEAN
    BY <1>3, <2>1 DEF Config!SubmitsModel
  <2>4. Asking("addModel", p, i)
    BY <2>1 DEF Asking, Kinds, OfProviders, OfModels
  <2> QED
    BY <2>2, <2>3, <2>4, CallAsked
<1>4. ASSUME NEW m \in Config!Models, NEW p \in Config!Providers, Config!SubmitsDraft(m, p)
      PROVE  ConfigInv'
  <2>1. minted' = minted /\ Config!Asks(Config!Call("updateModel", p, m, FALSE))
    BY <1>4 DEF Config!SubmitsDraft
  <2>2. Asking("updateModel", p, m)
    BY DEF Asking, Kinds, OfProviders, OfModels
  <2> QED
    BY <1>0, <2>1, <2>2, CallAsked
<1>5. ASSUME NEW m \in Config!Models, Config!RemovesModel(m) PROVE ConfigInv'
  <2>1. minted' = minted /\ Config!Asks(Config!Call("deleteModel", None, m, FALSE))
    BY <1>5 DEF Config!RemovesModel
  <2>2. Asking("deleteModel", None, m)
    BY DEF Asking, Kinds, OfProviders, OfModels
  <2> QED
    BY <1>0, <2>1, <2>2, CallAsked
<1>6. ASSUME NEW n \in Config!Models \cup {Config!Direct}, Config!PicksModel(n) PROVE ConfigInv'
  <2>1. minted' = minted /\ Config!Asks(Config!Call("prefs", None, n, FALSE))
    BY <1>6 DEF Config!PicksModel
  <2>2. Asking("prefs", None, n)
    BY DEF Asking, Kinds, OfProviders, OfModels
  <2> QED
    BY <1>0, <2>1, <2>2, CallAsked
<1>7. ASSUME \/ Config!Launches \/ Config!ChangesSettings \/ Config!ChangesUpdates
             \/ Config!BoundsSettle
      PROVE  ConfigInv'
  <2>1. minted' = minted /\ \/ Config!Asks(Config!Call("settings", None, None, FALSE))
                            \/ Config!Asks(Config!Call("bounds", None, None, FALSE))
    BY <1>7 DEF Config!Launches, Config!ChangesSettings, Config!ChangesUpdates, Config!BoundsSettle
  <2>2. Asking("settings", None, None) /\ Asking("bounds", None, None)
    BY DEF Asking, Kinds, OfProviders, OfModels
  <2> QED
    BY <1>0, <2>1, <2>2, CallAsked
<1>8. ASSUME NEW p \in Config!Providers, Config!CommandAdds(p) \/ Config!CommandRemoves(p)
      PROVE  ConfigInv'
  <2>1. \/ Config!CommandLoads(Config!Call("addProvider", p, None, FALSE))
        \/ Config!CommandLoads(Config!Call("deleteProvider", p, None, FALSE))
    BY <1>8 DEF Config!CommandAdds, Config!CommandRemoves
  <2>2. minted' \in [Config!Resources -> Nat]
    BY <1>0, <1>8 DEF Config!CommandAdds, Config!CommandRemoves
  <2>3. Asking("addProvider", p, None) /\ Asking("deleteProvider", p, None)
    BY DEF Asking, Kinds, OfProviders, OfModels
  <2> QED
    BY <1>0, <2>1, <2>2, <2>3, CallAsked
<1>9. ASSUME NEW m \in Config!Models, Config!CommandRemovesModel(m) PROVE ConfigInv'
  <2>1. minted' = minted /\ Config!CommandLoads(Config!Call("deleteModel", None, m, FALSE))
    BY <1>9 DEF Config!CommandRemovesModel
  <2>2. Asking("deleteModel", None, m)
    BY DEF Asking, Kinds, OfProviders, OfModels
  <2> QED
    BY <1>0, <2>1, <2>2, CallAsked
<1>10. ASSUME NEW m \in Config!Models, NEW p \in Config!Providers, Config!CommandAddsModel(m, p)
       PROVE  ConfigInv'
  <2>1. Config!CommandLoads(Config!Call("addModel", p, m, FALSE))
    BY <1>10 DEF Config!CommandAddsModel
  <2>2. minted' \in [Config!Resources -> Nat]
    BY <1>0, <1>10 DEF Config!CommandAddsModel
  <2>3. Asking("addModel", p, m)
    BY DEF Asking, Kinds, OfProviders, OfModels
  <2> QED
    BY <1>0, <2>1, <2>2, <2>3, CallAsked
<1> QED
  BY <1>1, <1>2, <1>3, <1>4, <1>5, <1>6, <1>7, <1>8, <1>9, <1>10, Zenon

(* Every step keeps the invariant.                                                     *)
LEMMA ConfigInvInductive == ConfigInv /\ [Config!ConfigNext]_configVars => ConfigInv'
<1>1. ASSUME ConfigInv, UNCHANGED configVars PROVE ConfigInv'
  <2>1. FilesStay /\ UNCHANGED <<configCalls, shown, gen, loads, minted, editsAsked, unheard>>
    BY <1>1 DEF configVars, FilesStay
  <2>2. ConfigTypes'
    BY <1>1, <2>1, ConstantsStay DEF ConfigInv, ConfigTypes, FilesStay
  <2>3. OneEdit'
    BY <1>1, <2>1, ConstantsStay DEF ConfigInv, OneEdit, Under, FilesStay
  <2>4. NothingLoaded' /\ LoadsHold'
    BY <1>1, <2>1, ConstantsStay DEF ConfigInv, NothingLoaded, LoadsHold, FilesStay
  <2>5. ListsCurrent'
    <3>1. \A c, r : Telling(c, r) => Telling(c, r)'
      BY <2>1, ConstantsStay DEF Telling
    <3>2. Watched' => Watched
      BY <2>1, ConstantsStay DEF Watched, FilesStay, Config!Followed
    <3> QED
      BY <1>1, <2>1, <3>1, <3>2, ListsStay DEF ConfigInv, FilesStay
  <2>6. \A c : Wrote(c)' = Wrote(c)
    BY <2>1 DEF Wrote
  <2> QED
    BY <1>1, <2>1, <2>2, <2>3, <2>4, <2>5, <2>6, FilesKeep DEF ConfigInv
<1>2. ASSUME ConfigInv, Config!ConfigNext PROVE ConfigInv'
  BY <1>2, EditsAsked, WindowReads, WindowWrites, WindowSaves, WindowFails, WindowHears, WindowCaches,
     WindowShows, LineSaves, WindowStarts, Zenon DEF Config!ConfigNext
<1> QED
  BY <1>1, <1>2

-----------------------------------------------------------------------------
(***************************************************************************)
(* The records in their company.                                              *)
(***************************************************************************)

desktop == <<focus, applicationVars, proxyVars, recordVars, viewVars>>

(* What is in focus stays so, and moves as its model says, while the others rest.            *)
LEMMA RecordsMove ==
  ASSUME [MCNext]_desktop
  PROVE  /\ focus' = focus
         /\ focus = "migrations" => [Documents!MigrationNext]_migrationVars
         /\ focus = "library" => [Library!LibraryNext]_libraryVars
         /\ focus = "dataDirs" => [Directories!DirsNext]_dirVars
         /\ focus = "config" => [Config!ConfigNext]_configVars
BY Zenon DEF MCNext, desktop, recordVars

(* What is kept is sound: documents of every version are read, the library lists what there    *)
(* is, the builds' directories stay apart and clean, and edits of the configuration stick       *)
(* (the property RecordsAreSound, for any bounds; the code is named at each part).            *)
THEOREM RecordsSound == MCSpec => []RecordsAreSound
<1> DEFINE Inv == /\ focus = "migrations" => MigrationInv
                  /\ focus = "library" => LibraryInv /\ Unlaunched
                  /\ focus = "dataDirs" => DirsInv
                  /\ focus = "config" => ConfigInv
<1>1. MCInit => Inv
  BY MigrationInvInit, LibraryInvInit, DirsInvInit, ConfigInvInit DEF MCInit
<1>2. Inv /\ [MCNext]_desktop => Inv'
  <2> SUFFICES ASSUME Inv, [MCNext]_desktop PROVE Inv'
    OBVIOUS
  <2>1. focus' = "migrations" => MigrationInv'
    BY RecordsMove, MigrationInvInductive
  <2>2. focus' = "library" => LibraryInv' /\ Unlaunched'
    BY RecordsMove, LibraryInvInductive
  <2>3. focus' = "dataDirs" => DirsInv'
    BY RecordsMove, DirsInvInductive
  <2>4. focus' = "config" => ConfigInv'
    BY RecordsMove, ConfigInvInductive
  <2> QED
    BY <2>1, <2>2, <2>3, <2>4
<1>3. Inv => RecordsAreSound
  BY MigrationInvSound, LibraryInvSound, DirsInvSound, ConfigInvSound DEF RecordsAreSound
<1> QED
  BY <1>1, <1>2, <1>3, PTL DEF MCSpec, desktop
=============================================================================

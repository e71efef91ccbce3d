--------------------------- MODULE SessionSettings ---------------------------
(***************************************************************************)
(* The permission mode, the model and the thinking effort of one session: the  *)
(* dropdowns of its composer (useComposerModeModel.ts, runViewStore.ts), what is *)
(* remembered of them for the harness (handlers.ts), the commands of the runner *)
(* socket (manager.ts, runtime.ts), and the options of the agent they end up at  *)
(* (driver-acp).  The socket drops, the run ends and is resumed, the application *)
(* restarts.  AgentSession has the start of an agent in more depth.             *)
(***************************************************************************)
EXTENDS Naturals, SequencesExt

CONSTANTS
  None,
  MaxChoices,   (* bound: what the user picks in a dropdown                     *)
  MaxRuns,      (* bound: launches and resumes                                *)
  MaxMishaps    (* bound: lost connections, restarts, refusals, and failed calls *)

Kinds == {"mode", "model", "effort"}
Values(k) == CASE k = "mode" -> {"manual", "plan"}
               [] k = "model" -> {"", "m1", "m2"}       \* "": the harness's own
               [] OTHER -> {"medium", "high"}
Default == [mode |-> "manual", model |-> "", effort |-> "medium"]
Nothing == [k \in Kinds |-> None]
Own == "own"    \* a setting the agent has of its own

VARIABLES
  slots,        (* modeBySession, modelBySession, thinkingEffortBySession         *)
  place,        (* the view of the session: None, "live" or "replay"             *)
  composer,     (* it shows a composer: the run has a root                      *)
  prefs,        (* settings.lastByHarness of the harness                        *)
  saving,       (* updateHarnessPrefs under way                               *)
  link,         (* the runner socket: "open" or "down"                          *)
  toHost, toView, (* its frames                                             *)
  log,          (* the runner-started events of the session's roots              *)
  row,          (* the model of the session's row                             *)
  run,          (* the live agent: how far, which, and what it is started with     *)
  asked,        (* the runtime's queue                                       *)
  resolving,    (* set-model commands whose environment is being resolved          *)
  options,      (* the config options the agent has announced                    *)
  wire,         (* requests the agent has not answered                          *)
  has,          (* the agent's settings                                      *)
  runs, choices, mishaps,
  latest,       (* history: the number of the last choice of each kind            *)
  applied,      (* history: the number of the last model given to the agent       *)
  picked,       (* history: the last value chosen of each kind                   *)
  astray,       (* history: kinds in which agent and window have parted           *)
  unsaved       (* history: kinds whose last choice was not saved                 *)

page == <<slots, place, composer>>
store == <<prefs, saving, unsaved>>
socket == <<link, toHost, toView>>
records == <<log, row>>
agent == <<run, asked, resolving, options, wire, has, applied>>
counts == <<runs, choices, mishaps, latest, picked>>
settingsVars == <<page, store, socket, records, agent, counts, astray>>

----------------------------------------------------------------------------
(* config-options.ts.  An option has a category, or is known by its id.           *)

Opt(id, category, means, values) ==
  [id |-> id, category |-> category, means |-> means, values |-> values]
Offers ==
  {<<Opt("fast", "model_config", "speed", {"high"}), Opt("m", "model", "model", {"m1", "m2"}),
     Opt("p", "mode", "mode", {"manual", "plan"}), Opt("t", "thought_level", "effort", {"medium", "high"})>>,
   <<Opt("reasoningeffort", None, "effort", {"high"}), Opt("model", None, "model", {"m2"})>>,
   <<Opt("c", "model_config", "effort", {"high"}), Opt("mode", None, "mode", {"plan"})>>}

Find(os, category, ids) ==
  LET by == SelectSeq(os, LAMBDA o : o.category = category)
      named == SelectSeq(os, LAMBDA o : o.id \in ids)
  IN IF by # <<>> THEN Head(by) ELSE IF named # <<>> THEN Head(named) ELSE None

AnyTier(os) ==                                   \* mutant: whatever configures the model
  LET config == Find(os, "model_config", {}) IN
    IF config # None THEN config ELSE Find(os, "thought_level", {"reasoningeffort"})
PickEffortOption(os) ==
  LET level == Find(os, "thought_level", {"reasoningeffort", "effort", "thinking", "thoughtlevel"}) IN
    IF level # None THEN level ELSE Find(os, "model_config", {})
OptionFor(os, k) == CASE k = "mode" -> Find(os, "mode", {"mode"})
                  [] k = "model" -> Find(os, "model", {"model"})
                  [] OTHER -> PickEffortOption(os)

(* setMode, setModel and setThinkingEffort of the adapter: a request, unless the   *)
(* agent has no such option or value.  Back to the harness's own model is none.      *)
Request(os, c) ==
  LET o == OptionFor(os, c.kind) IN
    IF c.value = "" \/ o = None THEN <<>>
    ELSE IF c.value \in o.values THEN <<[means |-> o.means] @@ c>> ELSE <<>>

Latest(cs) == {c.kind : c \in {d \in ToSet(cs) : d.n = latest[d.kind]}}
Unhonoured(os, cs) == Latest(SelectSeq(cs, LAMBDA c : Request(os, c) = <<>>))

(* runOrQueue of the runtime.                                                *)
RunOrQueue(c) ==
  IF run.at = "ready" THEN wire' = wire \o Request(options, c) /\ UNCHANGED asked
                      ELSE asked' = Append(asked, c) /\ UNCHANGED wire
Refused(c) == IF run.at = "ready" THEN Unhonoured(options, <<c>>) ELSE {}

NoAgent == [at |-> "none", n |-> 0, mode |-> None, effort |-> None]

Started(mode, effort) ==
  [mode |-> mode, model |-> IF row' = "" THEN None ELSE row', effort |-> effort]

Push(frames) == IF link = "open" THEN toView \o frames ELSE toView

SettingsInit ==
  /\ slots = Nothing /\ place = None /\ composer = FALSE
  /\ prefs \in {Nothing, [mode |-> "plan", model |-> "", effort |-> "high"],
                [mode |-> None, model |-> "m1", effort |-> None]}
  /\ saving = <<>> /\ unsaved = {}
  /\ link = "open" /\ toHost = <<>> /\ toView = <<>>
  /\ log = <<>> /\ row = ""
  /\ run = NoAgent /\ asked = <<>> /\ resolving = {} /\ options = <<>> /\ wire = <<>>
  /\ has = Nothing /\ applied = 0
  /\ runs = 0 /\ choices = 0 /\ mishaps = 0
  /\ latest = [k \in Kinds |-> 0] /\ picked = Nothing /\ astray = {}

----------------------------------------------------------------------------
(* The model of a new session: the one remembered, where "" is a choice of the      *)
(* harness's own, or else the first that is configured.                         *)
EffectiveModel(first) ==
  IF prefs.model # None THEN prefs.model ELSE IF first # None THEN first ELSE ""

(* launchHarness, and the live view that mounts for the new session.  The adapter    *)
(* is told of the mode, and the environment carries the model; the effort goes no    *)
(* further than the event.                                                   *)
Launches(first) ==
  /\ place = None /\ runs < MaxRuns /\ runs' = runs + 1
  /\ row' = EffectiveModel(first)
  /\ log' = <<Started(prefs.mode, prefs.effort)>>
  /\ run' = [at |-> "starting", n |-> runs', mode |-> prefs.mode, effort |-> prefs.effort]
  /\ place' = "live" /\ composer' = FALSE
  /\ toView' = Push(log') /\ toHost' = Append(toHost, [type |-> "attach"])
  /\ astray' = {"effort"}
  /\ UNCHANGED <<slots, store, link, asked, resolving, options, wire, has, applied, choices,
                 mishaps, latest, picked>>

(* onModeChange, onModelChange, onEffortChange.  A replay has no socket.            *)
Chooses(k, v) ==
  /\ composer /\ choices < MaxChoices /\ choices' = choices + 1
  /\ slots' = [slots EXCEPT ![k] = v]
  /\ latest' = [latest EXCEPT ![k] = choices'] /\ picked' = [picked EXCEPT ![k] = v]
  /\ saving' = Append(saving, <<k, v>>) /\ unsaved' = unsaved \ {k}
  /\ IF place = "live"
     THEN /\ toHost' = Append(toHost, [type |-> "set", kind |-> k, value |-> v, n |-> choices'])
          /\ astray' = astray \ {k}
     ELSE UNCHANGED toHost /\ astray' = astray \cup {k}
  /\ UNCHANGED <<place, composer, prefs, link, toView, records, agent, runs, mishaps>>

(* updateHarnessPrefs, whose overlaps ConfigRecords models.  Nobody hears of a       *)
(* failure.                                                                *)
ReplacesPrefs(saved) ==                        \* mutant: the entry is built anew
  /\ saving # <<>> /\ saving' = Tail(saving)
  /\ IF saved THEN prefs' = [Nothing EXCEPT ![Head(saving)[1]] = Head(saving)[2]]
                   /\ UNCHANGED <<unsaved, mishaps>>
     ELSE /\ mishaps < MaxMishaps /\ mishaps' = mishaps + 1
          /\ unsaved' = unsaved \cup {Head(saving)[1]} /\ UNCHANGED prefs
  /\ UNCHANGED <<page, socket, records, agent, runs, choices, latest, picked, astray>>
SavesPrefs(saved) ==
  /\ saving # <<>> /\ saving' = Tail(saving)
  /\ IF saved THEN prefs' = [prefs EXCEPT ![Head(saving)[1]] = Head(saving)[2]]
                   /\ UNCHANGED <<unsaved, mishaps>>
     ELSE /\ mishaps < MaxMishaps /\ mishaps' = mishaps + 1
          /\ unsaved' = unsaved \cup {Head(saving)[1]} /\ UNCHANGED prefs
  /\ UNCHANGED <<page, socket, records, agent, runs, choices, latest, picked, astray>>

(* A send; from a replay it turns the view live, which shows a composer when the      *)
(* manager has replayed the log to it.                                         *)
SendsTurn ==
  /\ composer /\ run.at = "none" /\ runs < MaxRuns
  /\ \A f \in ToSet(toHost) : f.type # "send"
  /\ toHost' = Append(toHost, [type |-> "send"])
  /\ place' = "live" /\ composer' = (place = "live")
  /\ UNCHANGED <<slots, store, link, toView, records, agent, counts, astray>>

(* applyEvent and seedModeModel fill what is not set.                            *)
SeededAnew(s, e) ==                            \* mutant: the run tells, whatever was chosen
  [k \in Kinds |-> IF e[k] = None THEN s[k] ELSE e[k]]
Seeded(s, e) == [k \in Kinds |-> IF s[k] = None THEN e[k] ELSE s[k]]

Delivers ==
  /\ toView # <<>> /\ toView' = Tail(toView)
  /\ slots' = Seeded(slots, Head(toView))
  /\ composer' = (place = "live" \/ composer)
  /\ UNCHANGED <<place, store, link, toHost, records, agent, counts, astray>>

(* foldRun: the seed is the first root's that tells anything.                     *)
Folds ==
  /\ place = "replay" /\ ~composer
  /\ composer' = TRUE
  /\ LET told == SelectSeq(log, LAMBDA e : e # Nothing) IN
       slots' = IF told = <<>> THEN slots ELSE Seeded(slots, Head(told))
  /\ UNCHANGED <<place, store, socket, records, agent, counts, astray>>

----------------------------------------------------------------------------
(* handleInbound.  Without an agent, and during a resume, a setting is dropped.        *)
HostTakes ==
  /\ link = "open" /\ toHost # <<>> /\ toHost' = Tail(toHost)
  /\ LET f == Head(toHost) IN
     \/ /\ f.type = "attach" /\ toView' = toView \o log
        /\ UNCHANGED <<agent, astray>>
     \/ /\ f.type = "send"      \* resolveResumeInput reads the effort; no mode is kept
        /\ run' = IF run.at # "none" THEN run
                  ELSE [at |-> "resuming", n |-> 0, mode |-> None, effort |-> prefs.effort]
        /\ UNCHANGED <<toView, asked, resolving, options, wire, has, applied, astray>>
     \/ /\ f.type = "set" /\ run.at \in {"none", "resuming"}
        /\ astray' = astray \cup Latest(<<f>>)
        /\ UNCHANGED <<toView, agent>>
     \/ /\ f.type = "set" /\ run.at \in {"starting", "ready"} /\ f.kind # "model"
        /\ RunOrQueue(f) /\ astray' = astray \cup Refused(f)
        /\ UNCHANGED <<toView, run, resolving, options, has, applied>>
     \/ /\ f.type = "set" /\ run.at \in {"starting", "ready"} /\ f.kind = "model"
        /\ resolving' = resolving \cup {[choice |-> f, for |-> run.n]}
        /\ UNCHANGED <<toView, run, asked, options, wire, has, applied, astray>>
  /\ UNCHANGED <<page, store, link, records, counts>>

(* resolveModelEnv: of two, either may be first, and it may fail.                   *)
Resolves(r, ok) ==
  /\ r \in resolving /\ resolving' = resolving \ {r}
  /\ IF r.for = run.n /\ ok
     THEN /\ RunOrQueue(r.choice)
          /\ applied' = r.choice.n
          /\ astray' = astray \cup Refused(r.choice)
                              \cup IF r.choice.n < applied THEN {"model"} ELSE {}
          /\ UNCHANGED mishaps
     ELSE /\ ~ok => mishaps < MaxMishaps /\ r.for = run.n
          /\ mishaps' = IF ok THEN mishaps ELSE mishaps + 1
          /\ astray' = astray \cup Latest(<<r.choice>>)
          /\ UNCHANGED <<wire, asked, applied>>
  /\ UNCHANGED <<page, store, socket, records, run, options, has, runs, choices, latest, picked>>

(* The end of doResume: the model is the row's, the mode nobody's.                   *)
ResumeStarts ==
  /\ run.at = "resuming" /\ runs < MaxRuns /\ runs' = runs + 1
  /\ run' = [run EXCEPT !.at = "starting", !.n = runs']
  /\ row' = row
  /\ log' = Append(log, Started(None, run.effort))
  /\ toView' = Push(log')
  /\ astray' = {"mode", "effort"} \cup
                IF slots.model \in {None, row} /\ \A f \in ToSet(toHost) : f.type # "set"
                THEN {} ELSE {"model"}
  /\ UNCHANGED <<page, store, link, toHost, asked, resolving, options, wire, has, applied,
                 choices, mishaps, latest, picked>>
ResumeFails ==
  /\ run.at = "resuming" /\ mishaps < MaxMishaps /\ mishaps' = mishaps + 1
  /\ run' = NoAgent
  /\ UNCHANGED <<page, store, socket, records, asked, resolving, options, wire, has, applied,
                 runs, choices, latest, picked, astray>>

(* The adapter's start: the mode is applied and awaited, and then the runtime hands    *)
(* over what it has queued.                                                   *)
DropsAsked(m, os) ==                           \* mutant: the queue is not handed over
  /\ run.at = "starting" /\ run' = [run EXCEPT !.at = "ready"]
  /\ options' = os /\ asked' = <<>>
  /\ has' = [mode |-> m, model |-> row, effort |-> Own]
  /\ UNCHANGED <<page, store, socket, records, resolving, applied, counts, wire, astray>>
AdapterReady(m, os) ==
  /\ run.at = "starting" /\ run' = [run EXCEPT !.at = "ready"]
  /\ options' = os
  /\ m \in {Own} \cup LET o == OptionFor(os, "mode")
                          mode == IF run.mode = None THEN "manual" ELSE run.mode
                      IN IF o # None /\ mode \in o.values THEN {mode} ELSE {}
  /\ has' = [mode |-> m, model |-> row, effort |-> Own]
  /\ wire' = FlattenSeq([i \in DOMAIN asked |-> Request(os, asked[i])])
  /\ asked' = <<>>
  /\ astray' = astray \cup Unhonoured(os, asked)
                      \cup IF m = Own /\ \A c \in ToSet(asked) : c.kind # "mode" THEN {"mode"} ELSE {}
  /\ UNCHANGED <<page, store, socket, records, resolving, applied, counts>>

(* The agent takes requests in turn, accepts them or not, and has a mind of its own:   *)
(* its change of mode is an annotation of the run (map-acp-update.ts).                *)
AgentAnswers(accepted) ==
  /\ run.at = "ready" /\ wire # <<>> /\ wire' = Tail(wire)
  /\ LET c == Head(wire) IN
     IF accepted
     THEN /\ has' = IF c.means \in Kinds THEN [has EXCEPT ![c.means] = c.value] ELSE has
          /\ UNCHANGED <<astray, mishaps>>
     ELSE /\ mishaps < MaxMishaps /\ mishaps' = mishaps + 1
          /\ astray' = astray \cup Latest(<<c>>) /\ UNCHANGED has
  /\ UNCHANGED <<page, store, socket, records, run, asked, resolving, options, applied, runs,
                 choices, latest, picked>>
AgentSwitches(mode) ==
  /\ run.at = "ready" /\ has.mode \notin {Own, mode} /\ mishaps < MaxMishaps
  /\ mishaps' = mishaps + 1
  /\ has' = [has EXCEPT !.mode = mode] /\ astray' = astray \cup {"mode"}
  /\ UNCHANGED <<page, store, socket, records, run, asked, resolving, options, wire, applied,
                 runs, choices, latest, picked>>

RunEnds ==
  /\ run.at \in {"starting", "ready"} /\ runs < MaxRuns
  /\ run' = NoAgent /\ asked' = <<>> /\ wire' = <<>> /\ options' = <<>> /\ has' = Nothing
  /\ UNCHANGED <<page, store, socket, records, resolving, applied, counts, astray>>

(* What is on its way is lost, and what is sent while the socket is down waits in the    *)
(* client.  When it is back, the slice of the session is reset and attached again.       *)
Drops ==
  /\ link = "open" /\ mishaps < MaxMishaps /\ mishaps' = mishaps + 1
  /\ link' = "down" /\ toHost' = <<>> /\ toView' = <<>>
  /\ astray' = astray \cup Latest(SelectSeq(toHost, LAMBDA f : f.type = "set"))
  /\ UNCHANGED <<page, store, records, agent, runs, choices, latest, picked>>
Reopens ==
  /\ link = "down" /\ link' = "open"
  /\ IF place = "live"
     THEN /\ slots' = Nothing /\ composer' = FALSE
          /\ toHost' = Append(toHost, [type |-> "attach"])
          /\ astray' = astray \cup {k \in Kinds : latest[k] # 0}
     ELSE UNCHANGED <<slots, composer, toHost, astray>>
  /\ UNCHANGED <<place, store, toView, records, agent, counts>>

(* The application exits and starts: the session is there to be replayed.               *)
Restarts ==
  /\ place # None /\ mishaps < MaxMishaps /\ mishaps' = mishaps + 1
  /\ slots' = Nothing /\ place' = "replay" /\ composer' = FALSE
  /\ link' = "open" /\ toHost' = <<>> /\ toView' = <<>>
  /\ run' = NoAgent /\ asked' = <<>> /\ resolving' = {} /\ wire' = <<>> /\ options' = <<>>
  /\ has' = Nothing
  /\ saving' = <<>> /\ unsaved' = unsaved \cup {saving[i][1] : i \in DOMAIN saving}
  /\ UNCHANGED <<prefs, records, applied, runs, choices, latest, picked, astray>>

SettingsNext ==
  \/ \E first \in {None, "m1"} : Launches(first)
  \/ \E k \in Kinds : \E v \in Values(k) : Chooses(k, v)
  \/ \E ok \in BOOLEAN : SavesPrefs(ok) \/ AgentAnswers(ok) \/ \E r \in resolving : Resolves(r, ok)
  \/ SendsTurn \/ Delivers \/ Folds \/ HostTakes \/ ResumeStarts \/ ResumeFails
  \/ \E m \in Values("mode") \cup {Own}, os \in Offers : AdapterReady(m, os)
  \/ \E m \in Values("mode") : AgentSwitches(m)
  \/ RunEnds \/ Drops \/ Reopens \/ Restarts

SettingsSpec == SettingsInit /\ [][SettingsNext]_settingsVars

----------------------------------------------------------------------------
SettingsTypeOK ==
  /\ \A k \in Kinds : /\ slots[k] \in Values(k) \cup {None} /\ prefs[k] \in Values(k) \cup {None}
                      /\ has[k] \in Values(k) \cup {None, Own}
  /\ place \in {None, "live", "replay"} /\ composer \in BOOLEAN /\ link \in {"open", "down"}
  /\ run.at \in {"none", "resuming", "starting", "ready"} /\ row \in Values("model")
  /\ astray \subseteq Kinds /\ unsaved \subseteq Kinds
  /\ run.at # "ready" => wire = <<>>
  /\ run.at # "starting" => asked = <<>>

Settled == /\ run.at = "ready" /\ composer /\ link = "open"
           /\ toHost = <<>> /\ toView = <<>> /\ asked = <<>> /\ wire = <<>>
           /\ \A r \in resolving : r.for # run.n
ShownAs(k) == IF slots[k] = None THEN Default[k] ELSE slots[k]

(* When everything has arrived, the composer shows what the agent works with, except in    *)
(* the kinds where the code lets them part (useComposerModeModel.ts, manager.ts, adapter.ts).  *)
ShowsWhatIs == Settled => \A k \in Kinds \ astray : ShownAs(k) = has[k]

(* What was chosen last is remembered for the harness, each kind beside the others           *)
(* (handlers.ts, updateHarnessPrefs), unless it could not be saved.                       *)
ChoicesAreRemembered ==
  saving = <<>> => \A k \in Kinds \ unsaved : picked[k] # None => prefs[k] = picked[k]

SettingsAgree == ShowsWhatIs /\ ChoicesAreRemembered
===============================================================================

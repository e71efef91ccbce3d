----------------------------- MODULE ProxyRoutes -----------------------------
(***************************************************************************)
(* One port, one key file, several processes. The window's application starts  *)
(* the proxy when it starts (main.ts) and hands its agents a key                *)
(* (create-app-context.ts); commands on the command line reuse the proxy that    *)
(* answers, or start one of their own (launch-command.ts). The key of the        *)
(* proxy that is up travels in a file (runtime-state.ts).                      *)
(*                                                                         *)
(* The port is the same for all, as on the stable channel. A key is a number;    *)
(* the model encoded behind it is left out.                                  *)
(***************************************************************************)
EXTENDS Naturals

CONSTANTS
  None,
  Commands,    (* processes of the command line                                *)
  MaxRuns,     (* bound: starts of the application                              *)
  MaxAgents,   (* bound: agents the application starts or re-routes                *)
  MaxTurmoil   (* bound: writes that fail, processes killed                       *)

App == "app"

VARIABLES
  proxy,       (* who listens on the port: [owner, key], or None                  *)
  keyFile,     (* the key in the file, or None                                   *)
  gui,         (* the application: "off", "loading", "started" (its key is being     *)
               (* written), "up", "down" (it has no proxy), "clearing"               *)
  agent,       (* the environment of the application's agent: [key, met], or None     *)
  cli,         (* what each command is at: [at, key, met, own]                        *)
  keys, runs, agents, turmoil,
  misfiled     (* history: a key could not be written, was cleared under another's       *)
               (* proxy, or was asked for before it was written                       *)

counters == <<keys, runs, agents, turmoil>>
routeVars == <<proxy, keyFile, gui, agent, cli, counters, misfiled>>

NoCommand == [at |-> "idle", key |-> None, met |-> None, own |-> FALSE]

RouteInit ==
  /\ proxy = None /\ keyFile = None /\ gui = "off" /\ agent = None
  /\ cli = [c \in Commands |-> NoCommand]
  /\ keys = 0 /\ runs = 0 /\ agents = 0 /\ turmoil = 0
  /\ misfiled = FALSE

Fresh == keys + 1
ProxyKey == IF proxy = None THEN None ELSE proxy.key
Owns(p) == proxy # None /\ proxy.owner = p
Goes(p) == IF Owns(p) THEN None ELSE proxy

(* writeProxyKey: a temporary file renamed; it may fail, which is only logged.             *)
Writes(key) ==
  \/ keyFile' = key /\ UNCHANGED <<turmoil, misfiled>>
  \/ /\ turmoil < MaxTurmoil /\ turmoil' = turmoil + 1
     /\ misfiled' = TRUE /\ UNCHANGED keyFile

(* mintSessionProxyKey: the key in the file, or a new one that no proxy knows.              *)
Minted == IF keyFile = None THEN Fresh ELSE keyFile
Mints ==
  /\ keys' = IF keyFile = None THEN Fresh ELSE keys
  /\ misfiled' = (misfiled \/ gui = "started" \/ \E c \in Commands : cli[c].at = "writing")

-----------------------------------------------------------------------------
(* The application.                                                          *)

GuiLoads ==
  /\ gui = "off" /\ runs < MaxRuns /\ runs' = runs + 1 /\ gui' = "loading"
  /\ UNCHANGED <<proxy, keyFile, agent, cli, keys, agents, turmoil, misfiled>>
(* The configuration cannot be read, or the port is taken: the window opens all the same.     *)
GuiGoesWithout ==
  /\ gui = "loading" /\ gui' = "down"
  /\ UNCHANGED <<proxy, keyFile, agent, cli, counters, misfiled>>
GuiStarts ==
  /\ gui = "loading" /\ proxy = None
  /\ proxy' = [owner |-> App, key |-> Fresh] /\ keys' = Fresh /\ gui' = "started"
  /\ UNCHANGED <<keyFile, agent, cli, runs, agents, turmoil, misfiled>>
GuiWrites ==
  /\ gui = "started" /\ gui' = "up" /\ Writes(proxy.key)
  /\ UNCHANGED <<proxy, agent, cli, keys, runs, agents>>

StopsAny ==                                       \* mutant: whatever listens is stopped
  /\ gui \in {"started", "up", "down"} /\ gui' = "clearing"
  /\ proxy' = None /\ agent' = None
  /\ UNCHANGED <<keyFile, cli, counters, misfiled>>
(* stop: its own proxy, if it has one; then the file, whoever wrote it.                    *)
GuiStops ==
  /\ gui \in {"started", "up", "down"} /\ gui' = "clearing"
  /\ proxy' = Goes(App) /\ agent' = None
  /\ UNCHANGED <<keyFile, cli, counters, misfiled>>
GuiClears ==
  /\ gui = "clearing" /\ gui' = "off"
  /\ \/ keyFile' = None /\ misfiled' = (misfiled \/ proxy # None)
     \/ UNCHANGED <<keyFile, misfiled>>
  /\ UNCHANGED <<proxy, agent, cli, counters>>
GuiDies ==
  /\ gui # "off" /\ turmoil < MaxTurmoil /\ turmoil' = turmoil + 1
  /\ gui' = "off" /\ proxy' = Goes(App) /\ agent' = None
  /\ UNCHANGED <<keyFile, cli, keys, runs, agents, misfiled>>

(* Launched, resumed or given another model: the agent's environment has the key of          *)
(* the moment, unless it goes without a model.                                      *)
Routed(now) ==
  /\ gui \in {"started", "up", "down"} /\ agents < MaxAgents /\ agents' = agents + 1
  /\ agent' = [key |-> now, met |-> ProxyKey]
  /\ UNCHANGED <<proxy, keyFile, gui, cli, runs, turmoil>>
LaunchInput == agent = None /\ Mints /\ Routed(Minted)
ModelEnv == agent # None /\ Mints /\ Routed(Minted)
Direct == Routed(None) /\ UNCHANGED <<keys, misfiled>>
AgentEnds ==
  /\ agent # None /\ agent' = None
  /\ UNCHANGED <<proxy, keyFile, gui, cli, counters, misfiled>>

-----------------------------------------------------------------------------
(* A command: launch with a model.                                             *)

Goto(c, at, key, met) ==
  cli' = [cli EXCEPT ![c] = [at |-> at, key |-> key, met |-> met,
                             own |-> at = "writing" \/ (@.own /\ at # "done")]]

(* isProxyRunning: does anything answer on the port? A slow proxy may not in time.            *)
Probes(c) ==
  /\ cli[c].at = "idle"
  /\ \E answer \in {"reuse", "own"} :
       /\ answer = "reuse" => proxy # None
       /\ Goto(c, answer, None, None)
  /\ UNCHANGED <<proxy, keyFile, gui, agent, counters, misfiled>>
MintsAnyway(c) ==                                 \* mutant: a key of its own for another's proxy
  /\ cli[c].at = "reuse" /\ Goto(c, "routed", Fresh, ProxyKey) /\ keys' = Fresh
  /\ UNCHANGED <<proxy, keyFile, gui, agent, runs, agents, turmoil, misfiled>>
Reuses(c) ==
  /\ cli[c].at = "reuse" /\ Mints /\ Goto(c, "routed", Minted, ProxyKey)
  /\ UNCHANGED <<proxy, keyFile, gui, agent, runs, agents, turmoil>>
(* A proxy of its own; if the port is taken by now, the command fails.                       *)
StartsOwn(c) ==
  /\ cli[c].at = "own"
  /\ \/ /\ proxy = None /\ proxy' = [owner |-> c, key |-> Fresh] /\ keys' = Fresh
        /\ Goto(c, "writing", Fresh, Fresh)
     \/ proxy # None /\ Goto(c, "done", None, None) /\ UNCHANGED <<proxy, keys>>
  /\ UNCHANGED <<keyFile, gui, agent, runs, agents, turmoil, misfiled>>
WritesOwn(c) ==
  /\ cli[c].at = "writing" /\ Writes(cli[c].key) /\ Goto(c, "routed", cli[c].key, cli[c].met)
  /\ UNCHANGED <<proxy, gui, agent, keys, runs, agents>>
Spawns(c) ==
  /\ cli[c].at = "routed" /\ Goto(c, "running", cli[c].key, cli[c].met)
  /\ UNCHANGED <<proxy, keyFile, gui, agent, counters, misfiled>>
FailsLeaking(c) ==                                \* mutant: its proxy is left listening
  /\ cli[c].at = "routed" /\ Goto(c, "done", None, None)
  /\ UNCHANGED <<proxy, keyFile, gui, agent, counters, misfiled>>
(* The harness cannot be spawned, or its session cannot be recorded.                         *)
Fails(c) ==
  /\ cli[c].at = "routed" /\ Goto(c, "done", None, None) /\ proxy' = Goes(c)
  /\ UNCHANGED <<keyFile, gui, agent, counters, misfiled>>
(* The harness exits; the proxy that this command started goes with it.                       *)
Ends(c) ==
  /\ cli[c].at = "running" /\ Goto(c, "done", None, None) /\ proxy' = Goes(c)
  /\ UNCHANGED <<keyFile, gui, agent, counters, misfiled>>
Killed(c) ==
  /\ cli[c].at \in {"writing", "routed", "running"} /\ turmoil < MaxTurmoil
  /\ turmoil' = turmoil + 1 /\ Goto(c, "done", None, None) /\ proxy' = Goes(c)
  /\ UNCHANGED <<keyFile, gui, agent, keys, runs, agents, misfiled>>

RouteNext ==
  \/ GuiLoads \/ GuiGoesWithout \/ GuiStarts \/ GuiWrites \/ GuiStops \/ GuiClears \/ GuiDies
  \/ LaunchInput \/ ModelEnv \/ Direct \/ AgentEnds
  \/ \E c \in Commands : \/ Probes(c) \/ Reuses(c) \/ StartsOwn(c) \/ WritesOwn(c)
                         \/ Spawns(c) \/ Fails(c) \/ Ends(c) \/ Killed(c)

RouteSpec == RouteInit /\ [][RouteNext]_routeVars

-----------------------------------------------------------------------------
RouteTypeOK ==
  /\ proxy # None => proxy.owner \in Commands \cup {App} /\ proxy.key \in 1..keys
  /\ keyFile \in 1..keys \cup {None}
  /\ gui \in {"off", "loading", "started", "up", "down", "clearing"}
  /\ \A c \in Commands :
       cli[c].at \in {"idle", "reuse", "own", "writing", "routed", "running", "done"}

(* Whoever met a proxy when its key was handed over has the key of that proxy, unless it   *)
(* could not be written, was cleared by another, or was asked for too early.                     *)
KeysOpen ==
  ~misfiled =>
    /\ \A c \in Commands : cli[c].met # None => cli[c].key = cli[c].met
    /\ agent # None /\ agent.met # None => agent.key \in {agent.met, None}

(* A command that is over has left no proxy, and whoever started one has it until it stops it.    *)
ProxiesHaveOwners ==
  /\ proxy # None /\ proxy.owner # App => cli[proxy.owner].at \in {"writing", "routed", "running"}
  /\ gui \in {"started", "up"} <=> Owns(App)
  /\ \A c \in Commands : cli[c].own => Owns(c)

RoutesAreSound == KeysOpen /\ ProxiesHaveOwners
=============================================================================

--------------------------- MODULE ProviderFactory ---------------------------
(***************************************************************************)
(* What the proxy does with a request before its stream: authentication,   *)
(* routing against the configuration of the moment, and the factory that   *)
(* builds or reuses an SDK instance, while the user edits the              *)
(* configuration, extensions come and go and supervised providers restart  *)
(* on fresh ports.  Tokens, bodies and ids are kinds; the secrets and the  *)
(* SDK modules are external.                                               *)
(***************************************************************************)
EXTENDS Naturals, FiniteSets

CONSTANTS
  RequestIds,    \* requests, each handled once
  MaxPort,     \* bound: ports a supervised provider listens on in turn
  MaxVersion,  \* bound: edits of a provider's fields and secrets
  MaxChanges   \* bound: other changes of the configuration and the registry

Models == 1..2          \* the routes, in the order of the configuration
Providers == {"built-in", "plugin"}
ProviderOf == <<"built-in", "plugin">>
\* Both routes claim the family "tier"; the native model of the second is "big".
Aliases == <<{"tier"}, {"tier", "two"}>>
Native == <<"small", "big">>
\* familyOf: the keyword an id contains.
FamilyOf(name) == IF name \in {"tier", "tier-4"} THEN "tier" ELSE "none"
Names == {"1", "2", "two", "tier-4", "big", "other"}
Asked == [wire : BOOLEAN, name : Names]
Id == <<"1", "2">>
NoModel == 0

VARIABLES
  models,      \* the routes configured
  configured,  \* the providers configured
  version,     \* of each provider's fields and secret references
  described,   \* the providers that have a descriptor
  port,        \* of each provider: 0 when it is not supervised
  instanceCache,       \* a set of [key, url]
  stage,       \* of each request
  key, url,    \* of each request: its instance key and the URL it resolved
  handle,      \* of each request: the instance its model is made of
  changes

factoryVars == <<models, configured, version, described, port, instanceCache, stage, key, url,
                 handle, changes>>

Key(p) == <<p, version[p]>>
NoKey == <<"none", 0>>
Nothing == [key |-> NoKey, url |-> 0]
Stages == {"idle", "secrets", "resolving", "resolved", "loading", "served", "unauthorized",
           "bad-request", "unknown-model", "unknown-provider", "unsupported", "failed"}

FactoryInit ==
  /\ models = Models /\ configured = Providers /\ described = Providers
  /\ version = [p \in Providers |-> 0]
  /\ port = [p \in Providers |-> IF p = "plugin" THEN 1 ELSE 0]
  /\ instanceCache = {} /\ changes = 0
  /\ stage = [r \in RequestIds |-> "idle"] /\ handle = [r \in RequestIds |-> Nothing]
  /\ key = [r \in RequestIds |-> NoKey] /\ url = [r \in RequestIds |-> 0]

-----------------------------------------------------------------------------
(* resolveIn, over the routes there are.                                   *)

First(S) == IF S = {} THEN NoModel ELSE CHOOSE m \in S : \A n \in S : m <= n
Suffixed(asked) == First({m \in models : asked.wire /\ Id[m] = asked.name})
Exact(asked) == First({m \in models : ~asked.wire /\ Id[m] = asked.name})
\* A wire alias no route has still takes part with its family.
ByAlias(asked) ==
  First({m \in models : FamilyOf(asked.name) \in Aliases[m]
                        \/ (~asked.wire /\ asked.name \in Aliases[m])})
ByNative(asked) == First({m \in models : ~asked.wire /\ Native[m] = asked.name})

\* Wire alias, exact id, alias or family, native model, the model of the session.
Resolve(asked, session) ==
  LET found(m, otherwise) == IF m # NoModel THEN m ELSE otherwise
  IN found(Suffixed(asked), found(Exact(asked), found(ByAlias(asked), found(ByNative(asked),
       IF session \in models THEN session ELSE NoModel))))

-----------------------------------------------------------------------------
Moves(r, s) == stage' = [stage EXCEPT ![r] = s]
Config == <<models, configured, version, described, port, changes>>

\* handleChat up to its first await in the factory.  The session is the model
\* of the token, or NoModel for the master key.
Asks(r, asked, session) ==
  /\ stage[r] = "idle"
  /\ LET m == Resolve(asked, session)
     IN IF m = NoModel THEN Moves(r, "unknown-model") /\ UNCHANGED key
        ELSE IF ProviderOf[m] \notin configured THEN Moves(r, "unknown-provider") /\ UNCHANGED key
        ELSE Moves(r, "secrets") /\ key' = [key EXCEPT ![r] = Key(ProviderOf[m])]
  /\ UNCHANGED <<Config, instanceCache, url, handle>>

\* A key that is not the proxy's, or a body that does not parse.
Refuses(r) ==
  /\ stage[r] = "idle" /\ \E s \in {"unauthorized", "bad-request"} : Moves(r, s)
  /\ UNCHANGED <<Config, instanceCache, key, url, handle>>

\* resolveSecrets, and then the descriptor.
Secrets(r) ==
  /\ stage[r] = "secrets"
  /\ \/ Moves(r, "failed")
     \/ Moves(r, IF key[r][1] \in described THEN "resolving" ELSE "unsupported")
  /\ UNCHANGED <<Config, instanceCache, key, url, handle>>

\* resolveBaseUrl, which for a supervised provider waits for its child.
Resolves(r) ==
  /\ stage[r] = "resolving"
  /\ \/ Moves(r, "failed") /\ UNCHANGED url
     \/ Moves(r, "resolved") /\ url' = [url EXCEPT ![r] = port[key[r][1]]]
  /\ UNCHANGED <<Config, instanceCache, key, handle>>

\* handleChat looks the descriptor up again for the stream.
Hands(r, instance) ==
  /\ handle' = [handle EXCEPT ![r] = instance]
  /\ Moves(r, IF key[r][1] \in described THEN "served" ELSE "unsupported")

\* Had the cache been read under the key alone.
ReadsByKey(r) ==
  /\ stage[r] = "resolved"
  /\ IF \E c \in instanceCache : c.key = key[r]
     THEN Hands(r, CHOOSE c \in instanceCache : c.key = key[r])
     ELSE Moves(r, "loading") /\ UNCHANGED handle
  /\ UNCHANGED <<Config, instanceCache, key, url>>

\* The cache is read under the key and the URL together.
ReadsCache(r) ==
  /\ stage[r] = "resolved"
  /\ LET entry == [key |-> key[r], url |-> url[r]]
     IN IF entry \in instanceCache THEN Hands(r, entry)
        ELSE Moves(r, "loading") /\ UNCHANGED handle
  /\ UNCHANGED <<Config, instanceCache, key, url>>

\* loadSdk resolves: the instance is made, and takes the place of every other
\* of its key; or it fails.
Loads(r) ==
  /\ stage[r] = "loading"
  /\ \/ Moves(r, "unsupported") /\ UNCHANGED <<instanceCache, handle>>
     \/ LET entry == [key |-> key[r], url |-> url[r]]
        IN /\ instanceCache' = {c \in instanceCache : c.key # key[r]} \union {entry}
           /\ Hands(r, entry)
  /\ UNCHANGED <<Config, key, url>>

\* A supervised provider comes back on a fresh port.
Restarts ==
  /\ port["plugin"] < MaxPort
  /\ port' = [port EXCEPT !["plugin"] = @ + 1]
  /\ UNCHANGED <<models, configured, version, described, instanceCache, stage, key, url, handle, changes>>

\* The user edits a provider: its key is another from here on.
Edits(p) ==
  /\ version[p] < MaxVersion /\ version' = [version EXCEPT ![p] = @ + 1]
  /\ UNCHANGED <<models, configured, described, port, instanceCache, stage, key, url, handle, changes>>

\* Routes and providers are removed, and an extension takes its descriptors
\* with it or brings them back.
Changes ==
  /\ changes < MaxChanges /\ changes' = changes + 1
  /\ \/ \E m \in models : models' = models \ {m} /\ UNCHANGED <<configured, described>>
     \/ \E p \in configured : configured' = configured \ {p} /\ UNCHANGED <<models, described>>
     \/ /\ described' = IF "plugin" \in described THEN {"built-in"} ELSE Providers
        /\ UNCHANGED <<models, configured>>
  /\ UNCHANGED <<version, port, instanceCache, stage, key, url, handle>>

FactoryNext ==
  \/ \E r \in RequestIds :
       \/ \E asked \in Asked, session \in Models \union {NoModel} : Asks(r, asked, session)
       \/ Refuses(r) \/ Secrets(r) \/ Resolves(r) \/ ReadsCache(r) \/ Loads(r)
  \/ Restarts \/ Changes
  \/ \E p \in Providers : Edits(p)

FactorySpec == FactoryInit /\ [][FactoryNext]_factoryVars

-----------------------------------------------------------------------------
FactoryTypeOK ==
  /\ models \subseteq Models /\ configured \subseteq Providers /\ described \subseteq Providers
  /\ version \in [Providers -> 0..MaxVersion] /\ port \in [Providers -> 0..MaxPort]
  /\ \A c \in instanceCache : c.key[1] \in Providers /\ c.url \in 0..MaxPort
  /\ stage \in [RequestIds -> Stages] /\ url \in [RequestIds -> 0..MaxPort]

\* Whatever restarts and edits cross the awaits of two requests: a request is
\* served by an instance made for the very fields, secrets and address it
\* resolved, and the cache holds one instance of a key, however many requests
\* miss it at once.
HandlesAreCurrent ==
  /\ \A r \in RequestIds : stage[r] = "served" => handle[r] = [key |-> key[r], url |-> url[r]]
  /\ \A c, d \in instanceCache : c.key = d.key => c = d
=============================================================================

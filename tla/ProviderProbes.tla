--------------------------- MODULE ProviderProbes ---------------------------
(***************************************************************************)
(* What the settings pages ask providers: the connection test of a provider *)
(* that is not saved yet (ProvidersPage.tsx with its two draft hooks), and  *)
(* the models a provider offers with what they receive (ModelsPage.tsx,     *)
(* useAsyncResource.ts), answered by model-lister.ts and provider-tester.ts.*)
(* Only one of the two pages is open; which one is chosen at the start.     *)
(***************************************************************************)
EXTENDS Naturals, FiniteSets

CONSTANTS
  None,
  Sources,         \* the providers a model may come from
  Silent,          \* those that do not say what their models receive
  MaxDrafts,       \* bound: versions of the provider being added
  MaxProbes,       \* bound: attempted on "Test connection"
  MaxListings      \* bound: changes of the provider in the model's form

VARIABLES
  openPage,     \* "providers" or "models"
  draft,        \* the version of the provider's form
  probes,       \* tests under way: discovery first, then the ping
  discovering, testing, \* the spinners of the two hooks
  verdict,      \* the shown result of a test, None without
  descriptor,   \* how the tested or listed provider is reached
  form,         \* the model's form, None while closed
  asks,         \* lists being fetched, by the page or by the field
  fetched,        \* the number of the latest fetch of each of the two
  lists,        \* what each of the two holds
  saved,        \* the models saved
  attempted, listings  \* bounded counters

probeVars == <<openPage, draft, probes, discovering, testing, verdict, descriptor, form, asks,
               fetched, lists, saved, attempted, listings>>

Subscribers == {"page", "field"}
NoList == [of |-> None, loading |-> FALSE, error |-> FALSE]

\* A provider is an extension's or built in; its url is the user's, its
\* supervisor's or its descriptor's.
Descriptors ==
  [plugin : BOOLEAN, strategy : {"none", "tags", "models"}, supervised : BOOLEAN,
   serverUrl : {None, "loopback", "remote"}, defaultUrl : {None, "loopback", "remote"}]
Plain == [plugin |-> FALSE, strategy |-> "models", supervised |-> FALSE, serverUrl |-> None,
          defaultUrl |-> "remote"]

ProbesInit ==
  /\ openPage \in {"providers", "models"}
  /\ draft = 1 /\ probes = {} /\ discovering = FALSE /\ testing = FALSE /\ verdict = None
  /\ descriptor \in {d \in Descriptors : d.supervised => d.plugin}
  /\ openPage = "providers" => descriptor = Plain
  /\ form = None /\ asks = {} /\ fetched = [s \in Subscribers |-> 0]
  /\ lists = [s \in Subscribers |-> NoList] /\ saved = {}
  /\ attempted = 0 /\ listings = 0

----------------------------------------------------------------------------
\* Where a listing goes: the supervisor's address, else the user's, else, for a
\* built-in provider, the default. An extension is reached on loopback or not at all.
Configured(d) ==
  IF d.serverUrl # None THEN d.serverUrl ELSE IF d.plugin THEN None ELSE d.defaultUrl
Base(d) ==
  IF d.strategy = "none" THEN None ELSE IF d.supervised THEN "loopback" ELSE Configured(d)
ReachedAnywhere(d) == Base(d)
Reached(d) == IF d.plugin /\ Base(d) # "loopback" THEN None ELSE Base(d)

Forgets == verdict' = None /\ discovering' = FALSE /\ testing' = FALSE

EditsKeeping ==
  /\ draft < MaxDrafts /\ draft' = draft + 1
  /\ probes' = {[p EXCEPT !.overtaken = TRUE] : p \in probes}
  /\ UNCHANGED <<openPage, discovering, testing, verdict, descriptor, form, asks, fetched, lists,
                 saved, attempted, listings>>

\* Every edit of the form drops what the probes have shown, not what they will show.
EditsDraft ==
  /\ draft < MaxDrafts /\ draft' = draft + 1
  /\ Forgets
  /\ probes' = {[p EXCEPT !.overtaken = TRUE] : p \in probes}
  /\ UNCHANGED <<openPage, descriptor, form, asks, fetched, lists, saved, attempted, listings>>

\* An extension's provider is not tested before it is saved.
TestsConnection ==
  /\ ~descriptor.plugin
  /\ ~discovering /\ ~testing
  /\ attempted < MaxProbes /\ attempted' = attempted + 1
  /\ discovering' = TRUE
  /\ probes' = probes \cup {[n |-> attempted + 1, of |-> draft, step |-> "discover",
                             overtaken |-> FALSE]}
  /\ UNCHANGED <<openPage, draft, testing, verdict, descriptor, form, asks, fetched, lists, saved,
                 listings>>

\* The listing has been answered, well or not; the ping follows with the first model.
Discovers(p) ==
  /\ p.step = "discover"
  /\ discovering' = FALSE /\ testing' = TRUE /\ verdict' = None
  /\ probes' = (probes \ {p}) \cup {[p EXCEPT !.step = "test"]}
  /\ UNCHANGED <<openPage, draft, descriptor, form, asks, fetched, lists, saved, attempted, listings>>

\* A provider that refuses is a result as well.
Pings(p) ==
  /\ p.step = "test"
  /\ \E ok \in BOOLEAN : verdict' = [of |-> p.of, ok |-> ok, overtaken |-> p.overtaken]
  /\ testing' = FALSE
  /\ probes' = probes \ {p}
  /\ UNCHANGED <<openPage, draft, discovering, descriptor, form, asks, fetched, lists, saved,
                 attempted, listings>>

----------------------------------------------------------------------------
\* The page and the field of the form each fetch the list of the form's provider; without
\* one the list is empty at once.
Fetches(who, of) ==
  /\ fetched' = [s \in Subscribers |-> IF s \in who THEN fetched[s] + 1 ELSE fetched[s]]
  /\ asks' = asks \cup {[by |-> s, n |-> fetched[s] + 1, of |-> of] : s \in who}
  /\ lists' = [s \in Subscribers |->
                 IF s \in who THEN [lists[s] EXCEPT !.loading = TRUE] ELSE lists[s]]

\* What the one model of a provider receives: what its list says, in the terms of the
\* dialect, which may know no documents; else what its name suggests.
Said == IF descriptor.strategy = "tags" THEN {"image"} ELSE {"pdf"}
Guessed == {"image", "pdf"}
Receives(source) == IF source = None \/ source \in Silent THEN Guessed ELSE Said

\* What is chosen by default receives nothing: no model, no capabilities.
Blank(source) == [of |-> source, picked |-> FALSE, takes |-> {}, early |-> FALSE, auto |-> TRUE]

OpensForm ==
  /\ form = None /\ listings < MaxListings /\ listings' = listings + 1
  /\ \E s \in Sources : form' = Blank(s) /\ Fetches(Subscribers, s)
  /\ UNCHANGED <<openPage, draft, probes, discovering, testing, verdict, descriptor, saved, attempted>>
\* The field goes with the form and its answers are for no one; the page stays.
ClosesForm ==
  /\ form # None /\ form' = None
  /\ fetched' = [s \in Subscribers |-> fetched[s] + 1]
  /\ lists' = [s \in Subscribers |-> NoList]
  /\ UNCHANGED <<openPage, draft, probes, discovering, testing, verdict, descriptor, asks, saved,
                 attempted, listings>>

PicksSourceOnly ==
  /\ form # None /\ listings < MaxListings /\ listings' = listings + 1
  /\ \E s \in Sources \ {form.of} : form' = [form EXCEPT !.of = s] /\ Fetches(Subscribers, s)
  /\ UNCHANGED <<openPage, draft, probes, discovering, testing, verdict, descriptor, saved, attempted>>
\* Another provider: the model is cleared and what it receives, for it may not have it.
PicksSource ==
  /\ form # None /\ listings < MaxListings /\ listings' = listings + 1
  /\ \E s \in Sources \ {form.of} : form' = Blank(s) /\ Fetches(Subscribers, s)
  /\ UNCHANGED <<openPage, draft, probes, discovering, testing, verdict, descriptor, saved, attempted>>

\* A listing that cannot be asked for, fails, or has another shape than the dialect's
\* is an error.
Bodies == {"unreachable", "refused", "garbled", "list"}
Listed(body) == Reached(descriptor) # None /\ body = "list"

AnyAnswer(a) == TRUE

\* An answer to any but the latest fetch is dropped. An error leaves the list as it was.
Current(a) == a.n = fetched[a.by]
Lists(a) ==
  /\ asks' = asks \ {a}
  /\ IF Current(a)
     THEN \E body \in Bodies :
            lists' = [lists EXCEPT ![a.by] =
                        [of |-> IF Listed(body) THEN a.of ELSE @.of, loading |-> FALSE,
                         error |-> ~Listed(body)]]
     ELSE UNCHANGED lists
  /\ UNCHANGED <<openPage, draft, probes, discovering, testing, verdict, descriptor, form, fetched,
                 saved, attempted, listings>>

\* A model is picked from the field's list, or typed when there is none; unless the user has
\* set them, its capabilities are those the page's list has for it, else guessed by name.
Settled(s) == ~lists[s].loading /\ ~lists[s].error
PicksRoute ==
  /\ form # None /\ ~lists["field"].loading
  /\ form' = IF form.auto
             THEN [form EXCEPT !.picked = TRUE, !.takes = Receives(lists["page"].of),
                               !.early = ~Settled("page")]
             ELSE [form EXCEPT !.picked = TRUE]
  /\ UNCHANGED <<openPage, draft, probes, discovering, testing, verdict, descriptor, asks, fetched,
                 lists, saved, attempted, listings>>
SetsCapabilities ==
  /\ form # None /\ form.auto /\ form' = [form EXCEPT !.auto = FALSE]
  /\ UNCHANGED <<openPage, draft, probes, discovering, testing, verdict, descriptor, asks, fetched,
                 lists, saved, attempted, listings>>
SavesModel ==
  /\ form # None /\ form.picked /\ saved = {}
  /\ saved' = {form} /\ form' = None
  /\ fetched' = [s \in Subscribers |-> fetched[s] + 1]
  /\ lists' = [s \in Subscribers |-> NoList]
  /\ UNCHANGED <<openPage, draft, probes, discovering, testing, verdict, descriptor, asks, attempted,
                 listings>>

\* A saved model is edited with the choices it was saved with.
EditsModel ==
  /\ form = None /\ listings < MaxListings /\ listings' = listings + 1
  /\ \E r \in saved : form' = r /\ Fetches(Subscribers, r.of)
  /\ saved' = {}
  /\ UNCHANGED <<openPage, draft, probes, discovering, testing, verdict, descriptor, attempted>>

ProbesNext ==
  \/ openPage = "providers" /\ \/ EditsDraft \/ TestsConnection
                               \/ \E p \in probes : Discovers(p) \/ Pings(p)
  \/ openPage = "models" /\ \/ OpensForm \/ ClosesForm \/ PicksSource \/ PicksRoute
                            \/ SetsCapabilities \/ SavesModel \/ EditsModel
                            \/ \E a \in asks : Lists(a)

ProbesSpec == ProbesInit /\ [][ProbesNext]_probeVars

----------------------------------------------------------------------------
ProbesTypeOK ==
  /\ openPage \in {"providers", "models"} /\ draft \in 1..MaxDrafts
  /\ discovering \in BOOLEAN /\ testing \in BOOLEAN /\ descriptor \in Descriptors
  /\ \A p \in probes : p.of \in 1..draft /\ p.step \in {"discover", "test"}
  /\ verdict # None => verdict.of \in 1..draft
  /\ \A s \in Subscribers : lists[s].of \in Sources \cup {None}
  /\ \A a \in asks : a.by \in Subscribers /\ a.of \in Sources

\* The result a form shows is of the values it holds, but for a test that was under way
\* when they were changed, and a spinner turns while something is awaited
\* (useDraftConnectionTest.ts, useDraftProviderModels.ts, ProvidersPage.tsx).
VerdictIsOfDraft ==
  /\ verdict # None => verdict.of = draft \/ verdict.overtaken
  /\ discovering => \E p \in probes : p.step = "discover"
  /\ testing => \E p \in probes : p.step = "test"

\* A list that is shown is that of the provider in the form, whatever order the answers
\* came in (useAsyncResource.ts).
ListIsOfSource ==
  \A s \in Subscribers : form # None /\ Settled(s) => lists[s].of = form.of

\* A model saved without the user's word on what it receives has what its own provider
\* said of it, but for one picked before the page's list was there (ModelsPage.tsx).
CapabilitiesAreTheModels ==
  \A r \in saved : r.auto /\ ~r.early => r.takes = Receives(r.of)

\* Listing the models of an extension asks this computer only (model-lister.ts).
ExtensionsAskedLocally ==
  descriptor.plugin => Reached(descriptor) \in {None, "loopback"}

ProbesAreSound ==
  VerdictIsOfDraft /\ ListIsOfSource /\ CapabilitiesAreTheModels /\ ExtensionsAskedLocally
=============================================================================

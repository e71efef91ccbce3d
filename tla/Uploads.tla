------------------------------ MODULE Uploads ------------------------------
(***************************************************************************)
(* The files of a conversation's composer: the tray of useUploads.ts, the   *)
(* ingestion by the host (ingest-uploads.ts, upload-store-fs.ts), the       *)
(* drop target of Composer.tsx and the sends of RunDetail.tsx. Contents are *)
(* three sample files; text files go as binary ones, previews are left out. *)
(***************************************************************************)
EXTENDS Naturals, FiniteSets, Functions

CONSTANTS
  None,         \* not known yet, or no route selected
  MaxIngests,   \* bound: picks and drops
  MaxSends,     \* bound: messages, resends among them
  MaxSwitches,  \* bound: model changes and losses of the root runner
  MaxLosses     \* bound: files that cannot be read, calls that fail

VARIABLES
  harness,   \* kinds the root runner's harness sends; None while there is no root
  route,     \* kinds the selected model receives; None on the harness's own route
  staged,    \* the files in the tray
  ingests,   \* calls that bring files in
  reading,   \* messages whose files are being read before they are sent
  bubbles,   \* messages shown as sending or failed
  stored,    \* the names in the uploads directory
  over,      \* how many elements of the card a file drag is over; the pointer does nothing else
  dragDepth, \* how many of them the composer counts
  switches, losses, ingested, messages, \* bounded counters
  owed,      \* history: files the user gave and has not been told about or seen sent
  swept      \* history: files that left the composer without a word

uploadVars == <<harness, route, staged, ingests, reading, bubbles, stored, over, dragDepth,
                switches, losses, ingested, messages, owed, swept>>

Kinds == {"image", "pdf", "binary"}

Photo == [id |-> "photo", kind |-> "image", dotted |-> TRUE]
\* The same bytes under a name without an extension: the same content hash.
Bare  == [id |-> "photo", kind |-> "binary", dotted |-> FALSE]
Paper == [id |-> "paper", kind |-> "pdf", dotted |-> TRUE]
Files == {Photo, Bare, Paper}

\* A file the user gave, with the call it came in.
Given == [file : Files, n : 1..MaxIngests]
\* The files of a batch keep their places in it, whichever of them go on.
Only(files, kept) == Restrict(files, {i \in DOMAIN files : files[i] \in kept})
Batches == {<<f>> : f \in Files} \cup {<<Photo, Bare>>, <<Bare, Photo>>}

UploadsInit ==
  /\ harness \in {None, Kinds} /\ route = None
  /\ staged = {} /\ ingests = {} /\ reading = {} /\ bubbles = {} /\ stored = {}
  /\ over = 0 /\ dragDepth = 0
  /\ switches = 0 /\ losses = 0 /\ ingested = 0 /\ messages = 0
  /\ owed = {} /\ swept = {}

\* What the composer takes: what the harness sends and the routed model receives.
CapsOf(h, r) == IF h = None \/ r = None THEN h ELSE h \cap (r \cup {"binary"})
Caps == CapsOf(harness, route)

----------------------------------------------------------------------------
\* The effect of the hook after every change: files the model does not receive
\* leave the tray, each with a warning.
Settled(refs, caps) ==
  IF caps = None THEN refs ELSE {r \in refs : r.file.kind \in caps}
Tray(refs, caps, owing) ==
  /\ staged' = Settled(refs, caps)
  /\ owed' = owing \ (refs \ Settled(refs, caps))

\* A drag is only counted while the composer takes files; when it stops, the
\* count goes back to zero. Without a root there is no composer.
TakesFiles(caps) == caps # None /\ caps # {}
Resynced(depth, caps) == IF TakesFiles(caps) THEN depth ELSE 0

Changes(h, r) ==
  /\ switches < MaxSwitches /\ switches' = switches + 1
  /\ harness' = h /\ route' = r
  /\ Tray(staged, CapsOf(h, r), owed)
  /\ dragDepth' = Resynced(dragDepth, CapsOf(h, r))
  /\ UNCHANGED <<ingests, reading, bubbles, stored, over, losses, ingested, messages, swept>>

RunnerStarts ==
  /\ harness = None
  /\ \E kinds \in {Kinds, {"image"}} : Changes(kinds, route)
\* The slice is reset for a new replay, and its root is gone until it comes.
RunnerGoes == harness # None /\ Changes(None, route)
PicksModel ==
  /\ harness # None
  /\ \E kinds \in {None, {"image"}, {}} : kinds # route /\ Changes(harness, kinds)

----------------------------------------------------------------------------
\* The kinds are those of the moment of the click.
Ingests(batch) ==
  /\ ingested < MaxIngests /\ ingested' = ingested + 1
  /\ ingests' = ingests \cup {[n |-> ingested + 1, kinds |-> Caps, batch |-> batch,
                               uploads |-> None]}
  /\ owed' = owed \cup {[file |-> f, n |-> ingested + 1] : f \in Range(batch)}

Pick ==
  /\ Caps # None /\ over = 0
  /\ \E batch \in Batches : Ingests(batch)
  /\ UNCHANGED <<harness, route, staged, reading, bubbles, stored, over, dragDepth, switches,
                 losses, messages, swept>>

DragEnters ==
  /\ over < 2 /\ harness # None /\ ingested < MaxIngests
  /\ over' = over + 1
  /\ dragDepth' = IF TakesFiles(Caps) THEN dragDepth + 1 ELSE dragDepth
  /\ UNCHANGED <<harness, route, staged, ingests, reading, bubbles, stored, switches, losses,
                 ingested, messages, owed, swept>>
DragLeaves ==
  /\ over > 0 /\ over' = over - 1
  /\ dragDepth' = IF TakesFiles(Caps) /\ dragDepth > 0 THEN dragDepth - 1 ELSE dragDepth
  /\ UNCHANGED <<harness, route, staged, ingests, reading, bubbles, stored, switches, losses,
                 ingested, messages, owed, swept>>

\* Files that are too large or cannot be read are named at once; the others are sent in.
Drop ==
  /\ over > 0 /\ over' = 0
  /\ IF TakesFiles(Caps)
     THEN /\ dragDepth' = 0
          /\ \E batch \in Batches : Ingests(batch)
     ELSE UNCHANGED <<dragDepth, ingests, ingested, owed>>
  /\ UNCHANGED <<harness, route, staged, reading, bubbles, stored, switches, losses,
                 messages, swept>>
Unreadable(c, file) ==
  /\ c.uploads = None /\ losses < MaxLosses /\ losses' = losses + 1
  /\ LET rest == Only(c.batch, Files \ {file})
     IN  ingests' = (ingests \ {c})
                    \cup (IF Range(rest) = {} THEN {} ELSE {[c EXCEPT !.batch = rest]})
  /\ owed' = owed \ {[file |-> file, n |-> c.n]}
  /\ UNCHANGED <<harness, route, staged, reading, bubbles, stored, over, dragDepth, switches,
                 ingested, messages, swept>>

\* The host stores the files of the kinds asked for under their content hash and
\* extension, and lists the others, and those it could not save, by name.
SavedAs(file) == [id |-> file.id, dotted |-> file.dotted]
Saves(c) ==
  /\ c.uploads = None
  /\ \E broken \in {{}} \cup {{f} : f \in Range(c.batch)} :
       LET saved == Only(c.batch, {f \in Files \ broken : f.kind \in c.kinds})
       IN  /\ broken # {} => losses < MaxLosses
           /\ losses' = losses + Cardinality(broken)
           /\ stored' = stored \cup {SavedAs(f) : f \in Range(saved)}
           /\ ingests' = (ingests \ {c}) \cup {[c EXCEPT !.uploads = saved]}
  /\ UNCHANGED <<harness, route, staged, reading, bubbles, over, dragDepth, switches,
                 ingested, messages, owed, swept>>

\* Failures are named; the rest join the tray unless their content is in it.
Joined(tray, files, n) ==
  LET fresh == {i \in DOMAIN files : /\ \A r \in tray : r.file.id # files[i].id
                                    /\ \A j \in DOMAIN files : j < i => files[j].id # files[i].id}
  IN  tray \cup {[file |-> files[i], n |-> n] : i \in fresh}

Arrives(c) ==
  /\ c.uploads # None
  /\ LET tray == Joined(staged, c.uploads, c.n)
     IN  Tray(tray, Caps, {g \in owed : g.n # c.n} \cup {g \in tray : g.n = c.n})
  /\ ingests' = ingests \ {c}
  /\ UNCHANGED <<harness, route, reading, bubbles, stored, over, dragDepth, switches, losses,
                 ingested, messages, swept>>

\* A call that timed out, or an operating system that shows no dialog.
CallFails(c) ==
  /\ losses < MaxLosses /\ losses' = losses + 1
  /\ ingests' = ingests \ {c}
  /\ owed' = {g \in owed : g.n # c.n}
  /\ UNCHANGED <<harness, route, staged, reading, bubbles, stored, over, dragDepth, switches,
                 ingested, messages, swept>>

Removes(r) ==
  /\ over = 0
  /\ staged' = staged \ {r}
  /\ owed' = owed \ {r}
  /\ UNCHANGED <<harness, route, ingests, reading, bubbles, stored, over, dragDepth, switches,
                 losses, ingested, messages, swept>>

----------------------------------------------------------------------------
\* The bytes of what is staged are read before the message goes.
Begins ==
  /\ harness # None /\ messages < MaxSends /\ messages' = messages + 1
  /\ reading' = reading \cup {[n |-> messages + 1, refs |-> staged]}
Sends ==
  /\ Begins /\ over = 0
  /\ UNCHANGED <<harness, route, staged, ingests, bubbles, stored, over, dragDepth, switches,
                 losses, ingested, owed, swept>>

\* A stored file is found by its content hash and a dot.
Found(file) == [id |-> file.id, dotted |-> TRUE] \in stored

DeliversKeeping(m) ==
  /\ LET found == {r \in m.refs : Found(r.file)}
     IN  /\ bubbles' = bubbles \cup {[n |-> m.n, failed |-> FALSE, refs |-> found]}
         /\ owed' = owed \ (m.refs \ found)
  /\ reading' = reading \ {m}
  /\ UNCHANGED <<harness, route, staged, ingests, stored, over, dragDepth, switches, losses,
                 ingested, messages, swept>>

\* What cannot be read is dropped, with one warning; the message goes with the rest,
\* and the tray is cleared, of what came meanwhile too.
Delivers(m) ==
  /\ LET found == {r \in m.refs : Found(r.file)}
     IN  /\ bubbles' = bubbles \cup {[n |-> m.n, failed |-> FALSE,
                                      refs |-> IF found = {} THEN {} ELSE m.refs]}
         /\ owed' = owed \ (m.refs \ found)
  /\ reading' = reading \ {m}
  /\ staged' = {}
  /\ swept' = swept \cup (staged \ m.refs)
  /\ UNCHANGED <<harness, route, ingests, stored, over, dragDepth, switches, losses, ingested,
                 messages>>
\* The echo of the message, however late, removes its bubble.
Echoes(b) ==
  /\ bubbles' = bubbles \ {b}
  /\ owed' = owed \ b.refs
  /\ UNCHANGED <<harness, route, staged, ingests, reading, stored, over, dragDepth, switches,
                 losses, ingested, messages, swept>>
\* The time to wait for it is over, or the connection is lost.
TimesOut(b) ==
  /\ ~b.failed /\ losses < MaxLosses /\ losses' = losses + 1
  /\ bubbles' = (bubbles \ {b}) \cup {[b EXCEPT !.failed = TRUE]}
  /\ UNCHANGED <<harness, route, staged, ingests, reading, stored, over, dragDepth, switches,
                 ingested, messages, owed, swept>>

\* A message that is sent again, or put back into the composer, loses its files.
Resends(b) ==
  /\ b.failed /\ Begins /\ over = 0
  /\ bubbles' = bubbles \ {b} /\ swept' = swept \cup b.refs
  /\ UNCHANGED <<harness, route, staged, ingests, stored, over, dragDepth, switches, losses,
                 ingested, owed>>
Cancels(b) ==
  /\ b.failed /\ over = 0
  /\ bubbles' = bubbles \ {b} /\ swept' = swept \cup b.refs
  /\ UNCHANGED <<harness, route, staged, ingests, reading, stored, over, dragDepth, switches,
                 losses, ingested, messages, owed>>

UploadsNext ==
  \/ RunnerStarts \/ RunnerGoes \/ PicksModel
  \/ Pick \/ DragEnters \/ DragLeaves \/ Drop
  \/ \E c \in ingests : \/ Saves(c) \/ Arrives(c) \/ CallFails(c)
                        \/ \E f \in Range(c.batch) : Unreadable(c, f)
  \/ \E r \in staged : Removes(r)
  \/ Sends \/ \E m \in reading : Delivers(m)
  \/ \E b \in bubbles : Echoes(b) \/ TimesOut(b) \/ Resends(b) \/ Cancels(b)

UploadsSpec == UploadsInit /\ [][UploadsNext]_uploadVars

----------------------------------------------------------------------------
UploadsTypeOK ==
  /\ harness \in {None} \cup SUBSET Kinds /\ route \in {None} \cup SUBSET Kinds
  /\ staged \subseteq Given /\ stored \subseteq {SavedAs(f) : f \in Files}
  /\ \A c \in ingests : c.n \in 1..ingested /\ c.kinds \subseteq Kinds
  /\ \A m \in reading \cup bubbles : m.n \in 1..messages /\ m.refs \subseteq Given
  /\ over \in 0..2 /\ dragDepth \in 0..2
  /\ owed \subseteq Given /\ swept \subseteq Given

\* A file the user gave is in the tray, on its way, with a message, or the user has
\* been told what became of it, and the tray holds no file that is done with. Left
\* out are files that came while a message was being read, which its end clears, and
\* the files of a failed message that is sent again or taken back (RunDetail.tsx
\* handleSend, handleResend and handleCancel; useUploads.ts).
FilesAreAccounted ==
  /\ staged \subseteq owed
  /\ \A g \in owed :
       \/ g \in staged \cup swept
       \/ \E c \in ingests : c.n = g.n
       \/ \E b \in bubbles : g \in b.refs

\* The tray shows each content once, and nothing the selected model does not receive,
\* whenever the model was changed and the files arrived (useUploads.ts).
TrayIsSendable ==
  /\ \A q, r \in staged : q.file.id = r.file.id => q = r
  /\ Caps # None => \A r \in staged : r.file.kind \in Caps

\* The highlight of the drop target goes when the drag does, although the composer may
\* stop taking files in the middle of one (Composer.tsx).
HighlightFollowsDrag == dragDepth <= over

UploadsAreSound == FilesAreAccounted /\ TrayIsSendable /\ HighlightFollowsDrag
=============================================================================

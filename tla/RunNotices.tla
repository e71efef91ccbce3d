------------------------------ MODULE RunNotices ------------------------------
(***************************************************************************)
(* How the user hears that a run is over: the native notification of the    *)
(* process (composition.ts, notification-service.ts, runner-sink.ts) and the  *)
(* toast of the window (app.tsx, notifications-model.ts).  Both classify each *)
(* frame of the event stream on their own, the replayed ones included.       *)
(***************************************************************************)
EXTENDS Naturals, SequencesExt

CONSTANTS
  None,
  Sessions,
  MaxToasts,     \* MAX_TOASTS
  MaxEpisodes,   \* bound: runs of a session, the resumed ones included
  MaxReplays,    \* bound: attachments of the window to a session
  MaxOthers      \* bound: toasts about other things

VARIABLES
  log,           \* the events stored of each session
  episode,       \* the number of its run
  running,       \* the runners of that run that have not finished
  rootsSeen,     \* the first root of each session, for the process and for the window
  focusedFlag,   \* isWindowFocused
  viewing,       \* the session on show, None without
  connection,    \* the window receives frames
  toasts,        \* the stack of toasts
  native,        \* history: the notifications shown
  retold,        \* history: a live end was told that had been told live before
  owedNotes,     \* history: runs that ended while the window was not focused
  shoved,        \* history: sticky toasts dropped while a passing one could go
  replays, others   \* bounded counters

noticeVars == <<log, episode, running, rootsSeen, focusedFlag, viewing, connection, toasts, native,
                retold, owedNotes, shoved, replays, others>>

\* The root of a run has a new id in each; sub-agents have theirs.
Root(n) == <<n, "root">>
Kid(n) == <<n, "kid">>
Taps == {"process", "window"}

NoticesInit ==
  /\ log = [s \in Sessions |-> <<>>] /\ episode = [s \in Sessions |-> 0]
  /\ running = [s \in Sessions |-> {}]
  /\ rootsSeen = [t \in Taps |-> [s \in Sessions |-> None]]
  /\ focusedFlag = TRUE /\ viewing = None /\ connection = FALSE
  /\ toasts = <<>> /\ native = {} /\ retold = FALSE /\ owedNotes = {} /\ shoved = FALSE
  /\ replays = 0 /\ others = 0

----------------------------------------------------------------------------
(* What a frame does.                                                      *)

Tracks(root, e) == IF e.type = "started" /\ e.parent = None /\ root = None THEN e.runner ELSE root
Finishes(root, e) == e.type = "finished"
EndsSession(root, e) == e.type = "finished" /\ root # None /\ e.runner = root

\* An interrupted run is no news.
Note(s, e, how) == [session |-> s, runner |-> e.runner, status |-> e.status, how |-> how]
IsNews(root, e) == EndsSession(root, e) /\ e.status # "interrupted"

Sticky(t) == t.tone = "error"
DropsOldest(stack) == IF Len(stack) <= MaxToasts THEN stack ELSE Tail(stack)
\* Over the limit the oldest that would go by itself is dropped, else the oldest.
Trimmed(stack) ==
  IF Len(stack) <= MaxToasts THEN stack
  ELSE LET passing == {i \in DOMAIN stack : ~Sticky(stack[i])}
           at == IF passing = {} THEN 1 ELSE CHOOSE i \in passing : \A j \in passing : i <= j
       IN RemoveAt(stack, at)

\* A toast that says what one on show says is dropped.
Shown(stack, t) ==
  IF \E i \in DOMAIN stack : stack[i].tone = t.tone /\ stack[i].message = t.message
  THEN stack ELSE Trimmed(Append(stack, t))
Shoves(stack, t) ==
  LET next == Shown(stack, t) IN
    /\ \E u \in ToSet(stack) \ ToSet(next) : Sticky(u)
    /\ \E u \in ToSet(Append(stack, t)) : ~Sticky(u)
\* Message 0 is that of the runs, whatever the session; others are numbered.
RunToast(s, e) ==
  [tone |-> IF e.status = "errored" THEN "error" ELSE "info", message |-> 0, of |-> s]

ToldLive(notes, s, e) == \E n \in notes : n.session = s /\ n.runner = e.runner /\ n.how = "live"

\* The state of the two taps after a frame of session `s`.
Tap(st, s, e, how) ==
  LET host == Tracks(st.process, e)
      page == Tracks(st.window, e)
      toast == connection /\ IsNews(page, e) /\ viewing # s
  IN [process |-> host, window |-> IF connection THEN page ELSE st.window,
      native |-> IF IsNews(host, e) /\ ~focusedFlag
                 THEN st.native \cup {Note(s, e, how)} ELSE st.native,
      retold |-> st.retold \/ (/\ IsNews(host, e) /\ ~focusedFlag
                               /\ how = "live" /\ ToldLive(st.native, s, e)),
      toasts |-> IF toast THEN Shown(st.toasts, RunToast(s, e)) ELSE st.toasts,
      shoved |-> st.shoved \/ (toast /\ Shoves(st.toasts, RunToast(s, e)))]
Now(s) == [process |-> rootsSeen["process"][s], window |-> rootsSeen["window"][s],
           native |-> native, retold |-> retold, toasts |-> toasts, shoved |-> shoved]
Leaves(s, st) ==
  /\ rootsSeen' = [process |-> [rootsSeen["process"] EXCEPT ![s] = st.process],
                   window |-> [rootsSeen["window"] EXCEPT ![s] = st.window]]
  /\ native' = st.native /\ retold' = st.retold /\ toasts' = st.toasts /\ shoved' = st.shoved

\* An event of a live run is stored and sent.
Emits(s, e) ==
  /\ log' = [log EXCEPT ![s] = Append(@, e)]
  /\ Leaves(s, Tap(Now(s), s, e, "live"))
  /\ UNCHANGED <<focusedFlag, viewing, connection, replays, others>>

Started(r, parent) == [type |-> "started", runner |-> r, parent |-> parent, status |-> None]
Finished(r, status) == [type |-> "finished", runner |-> r, parent |-> None, status |-> status]

\* A launch, or a resumption of what has ended.
RunStarts(s) ==
  /\ running[s] = {} /\ episode[s] < MaxEpisodes
  /\ LET n == episode[s] + 1 IN
       /\ episode' = [episode EXCEPT ![s] = n]
       /\ running' = [running EXCEPT ![s] = {Root(n)}]
       /\ Emits(s, Started(Root(n), None))
  /\ UNCHANGED owedNotes
KidStarts(s) ==
  LET n == episode[s] IN
    /\ running[s] = {Root(n)} /\ \A i \in DOMAIN log[s] : log[s][i].runner # Kid(n)
    /\ running' = [running EXCEPT ![s] = @ \cup {Kid(n)}]
    /\ Emits(s, Started(Kid(n), Root(n)))
    /\ UNCHANGED <<episode, owedNotes>>
RunnerFinishes(s, r) ==
  /\ r \in running[s]
  /\ r = Root(episode[s]) => running[s] = {r}
  /\ \E status \in {"completed", "errored", "interrupted"} :
       /\ running' = [running EXCEPT ![s] = @ \ {r}]
       /\ Emits(s, Finished(r, status))
       /\ owedNotes' = IF r = Root(episode[s]) /\ status # "interrupted" /\ ~focusedFlag
                       THEN owedNotes \cup {<<s, r>>} ELSE owedNotes
  /\ UNCHANGED episode

\* The window attaches, at a mount or after it has connected again: what is stored of the
\* session is sent once more, through the same sink.
Replayed(s) ==
  LET seen[i \in 0..Len(log[s])] ==
        IF i = 0 THEN Now(s) ELSE Tap(seen[i - 1], s, log[s][i], "replay")
  IN seen[Len(log[s])]
Attaches(s) ==
  /\ connection /\ replays < MaxReplays /\ replays' = replays + 1
  /\ Leaves(s, Replayed(s))
  /\ UNCHANGED <<log, episode, running, focusedFlag, viewing, connection, owedNotes, others>>

\* The window connects; a reload has forgotten its roots and its toasts.
Connects ==
  /\ ~connection /\ connection' = TRUE
  /\ \/ UNCHANGED <<rootsSeen, toasts>>
     \/ /\ rootsSeen' = [rootsSeen EXCEPT !["window"] = [s \in Sessions |-> None]]
        /\ toasts' = <<>>
  /\ UNCHANGED <<log, episode, running, focusedFlag, viewing, native, retold, owedNotes,
                 shoved, replays, others>>
Disconnects ==
  /\ connection /\ connection' = FALSE /\ replays < MaxReplays
  /\ UNCHANGED <<log, episode, running, rootsSeen, focusedFlag, viewing, toasts, native,
                 retold, owedNotes,
                 shoved, replays, others>>

FocusChanges ==
  /\ focusedFlag' = ~focusedFlag
  /\ UNCHANGED <<log, episode, running, rootsSeen, viewing, connection, toasts, native, retold,
                 owedNotes,
                 shoved, replays, others>>
Views(s) ==
  /\ viewing # s /\ viewing' = s
  /\ UNCHANGED <<log, episode, running, rootsSeen, focusedFlag, connection, toasts, native,
                 retold, owedNotes,
                 shoved, replays, others>>

\* Other errors and successes have toasts too; each goes by a click, the passing ones by time.
Toasts ==
  /\ others < MaxOthers /\ others' = others + 1
  /\ \E tone \in {"error", "info"} :
       LET t == [tone |-> tone, message |-> others + 1, of |-> None] IN
         /\ toasts' = Shown(toasts, t)
         /\ shoved' = (shoved \/ Shoves(toasts, t))
  /\ UNCHANGED <<log, episode, running, rootsSeen, focusedFlag, viewing, connection, native,
                 retold, owedNotes,
                 replays>>
Dismisses ==
  /\ \E i \in DOMAIN toasts : toasts' = RemoveAt(toasts, i)
  /\ UNCHANGED <<log, episode, running, rootsSeen, focusedFlag, viewing, connection, native,
                 retold, owedNotes,
                 shoved, replays, others>>

NoticesNext ==
  \/ \E s \in Sessions : \/ RunStarts(s) \/ KidStarts(s) \/ Attaches(s) \/ Views(s)
                         \/ \E r \in running[s] : RunnerFinishes(s, r)
  \/ Connects \/ Disconnects \/ FocusChanges \/ Toasts \/ Dismisses

NoticesSpec == NoticesInit /\ [][NoticesNext]_noticeVars

----------------------------------------------------------------------------
NoticesTypeOK ==
  /\ \A s \in Sessions : episode[s] \in 0..MaxEpisodes
                         /\ running[s] \subseteq {Root(episode[s]), Kid(episode[s])}
  /\ \A t \in Taps, s \in Sessions :
       rootsSeen[t][s] # None => rootsSeen[t][s] \in {Root(n) : n \in 1..episode[s]}
  /\ focusedFlag \in BOOLEAN /\ viewing \in Sessions \cup {None} /\ connection \in BOOLEAN

\* The process tells the end of a session's first run as it happens, once, if the window is
\* not focused then, and tells nothing else live: not the end of a sub-agent, of an interrupted
\* run, or of a resumed one, whose root is not the session's first, which alone is known. The
\* replay of a log goes through the same tap and tells the end again, once for each attachment
\* of a window that is not focused: of those notes only what they are about is claimed
\* (composition.ts notifyOnRunFinished, runner-sink.ts, root-runner.ts).
EndsAreTold ==
  /\ \A n \in native : n.runner[2] = "root" /\ n.status # "interrupted"
                       /\ n.runner \notin running[n.session]
  /\ \A o \in owedNotes : o[2] = Root(1) =>
       \E n \in native : n.session = o[1] /\ n.runner = o[2] /\ n.how = "live"
  /\ \A n \in native : n.how = "live" => <<n.session, n.runner>> \in owedNotes
  /\ ~retold

\* The toasts are few and all different, so that the end of a run in the words of a toast on
\* show gets none; one about a run names a session that has ended, and one that waits for the
\* user gives way to none that would go by itself
\* (notifications-model.ts).
ToastsKept ==
  /\ Len(toasts) <= MaxToasts
  /\ \A i, j \in DOMAIN toasts : i # j =>
       toasts[i].tone # toasts[j].tone \/ toasts[i].message # toasts[j].message
  /\ \A i \in DOMAIN toasts : toasts[i].of # None =>
       \E k \in DOMAIN log[toasts[i].of] : log[toasts[i].of][k].type = "finished"
                                           /\ log[toasts[i].of][k].runner[2] = "root"
  /\ ~shoved

NoticesAreSound == EndsAreTold /\ ToastsKept
=============================================================================

--------------------------- MODULE TranscriptEdits ---------------------------
(***************************************************************************)
(* The transcript of one chronicle: the lines, speakers and summaries of   *)
(* its project database, the snapshots beside it, the IMPORT, CLEAN and    *)
(* SUMMARIZE handlers (core/processing/handlers), and the users who edit   *)
(* lines meanwhile (services/transcript_service.py).                       *)
(*                                                                         *)
(* A step is one commit, or one read whose result is used after an await.  *)
(* The worker and the users have sessions of their own: a read takes no    *)
(* lock, and the first write of a session keeps the others' writes out     *)
(* until its commit.  As in AudioTracks, the queue is TaskLifecycle.       *)
(*                                                                         *)
(* What a line says is a set of pieces, one for each imported line it was  *)
(* made from.  Lines are numbered in the order they are written, which is  *)
(* the order they are spoken in: an appended import starts at the last     *)
(* line's end.                                                             *)
(***************************************************************************)
EXTENDS TaskLifecycle, Sequences, FiniteSets

CONSTANTS
    Names,          \* speakers
    Clients,        \* editors of this transcript
    None,           \* nothing held, nothing pending
    NoTask,         \* the worker is between tasks
    TextOf,         \* the lines of each IMPORT task's file: "speech" or "junk"
    NameIn,         \* the speaker of each such file
    Appending,      \* IMPORT tasks with "append" in their data
    MaxAttempts,    \* bound: a task with this many attempts is not retried
    MaxRetries,     \* bound: retries by users
    MaxEdits,       \* bound: changes by users to lines and summaries
    MaxFaults,      \* bound: crashes, stops and statements that raise, together
    SnapshotsKept   \* SNAPSHOTS_KEPT, 3 in the code

Imports == {t \in Tasks : TypeOf[t] = "IMPORT"}

ASSUME EditsAssumption ==
    /\ NoTask \notin Tasks
    /\ TypeOf \in [Tasks -> {"IMPORT", "CLEAN", "SUMMARIZE"}]
    /\ TextOf \in [Tasks -> Seq({"speech", "junk"})]
    /\ NameIn \in [Tasks -> Names]
    /\ Appending \subseteq Imports
    /\ MaxAttempts \in Nat
    /\ MaxRetries \in Nat
    /\ MaxEdits \in Nat
    /\ MaxFaults \in Nat
    /\ SnapshotsKept \in Nat /\ SnapshotsKept >= 2

VARIABLES
    lines,      \* transcript_lines: a function on the numbers of the lines there are
    written,    \* how many lines were ever imported
    speakers,   \* how many rows the speakers table has of each name
    summaries,  \* the numbers of the summaries, in the order they were added
    snapshots,  \* the files before-clean-<id>-<time>.db, in the order of their names
    cur,        \* the task the worker runs
    step,       \* where its handler is
    held,       \* what the handler has read and not used yet
    shown,      \* the lines each editor has loaded
    pending,    \* the speaker each editor is saving
    touched,    \* history: a user changed the lines since the last snapshot
    rewrites,   \* history: a clean has rewritten the lines
    torn,       \* history: a snapshot was cut short, by a crash or by its failure
    spent       \* history: how often each bounded thing happened

queue == <<status, attempts>>
project == <<lines, written, speakers, summaries>>
run == <<cur, step, held>>
editors == <<shown, pending>>
history == <<touched, rewrites, torn>>
vars == <<queue, project, snapshots, run, editors, history, spent>>

Piece == [of : Imports, no : Nat, is : {"speech", "junk", "corrected"}]
Line == [speaker : Names, text : SUBSET Piece]
IsTranscript(L) == DOMAIN L \subseteq 1 .. written /\ \A n \in DOMAIN L : L[n] \in Line
Pieces(L) == UNION {L[n].text : n \in DOMAIN L}

\* A snapshot that was cut short holds no lines.
Whole(s) == s.lines # None

Bounded == {"fault", "retry", "edit"}
Step == {"down", "idle", "look up", "import", "snapshot", "vacuum", "read", "rewrite",
         "digest", "model", "number", "add", "tag"}

TypeOK ==
    /\ status \in [Tasks -> {"none", "PENDING", "WORKING", "DONE", "FAILED"}]
    /\ attempts \in [Tasks -> Nat]
    /\ written \in Nat
    /\ IsTranscript(lines)
    /\ speakers \in [Names -> Nat]
    /\ \A n \in DOMAIN lines : speakers[lines[n].speaker] > 0
    /\ summaries \in Seq(Nat \ {0})
    /\ \A i \in DOMAIN snapshots : Whole(snapshots[i]) => IsTranscript(snapshots[i].lines)
    /\ cur \in Tasks \cup {NoTask}
    /\ step \in Step
    /\ cur = NoTask <=> step \in {"down", "idle"}
    /\ CASE step = "rewrite" -> IsTranscript(held)
         [] step = "import" -> held \in BOOLEAN
         [] step = "add" -> held \in Nat
         [] OTHER -> held = None
    /\ \A v \in Clients : IsTranscript(shown[v])
    /\ \A v \in Clients :
          pending[v] = None \/ pending[v] \in [line : Nat, name : Names, new : BOOLEAN]
    /\ <<touched, rewrites, torn>> \in BOOLEAN \X BOOLEAN \X BOOLEAN
    /\ spent \in [Bounded -> Nat]

Init ==
    /\ LInit
    /\ lines = <<>>
    /\ written = 0
    /\ speakers = [a \in Names |-> 0]
    /\ summaries = <<>>
    /\ snapshots = <<>>
    /\ cur = NoTask
    /\ step = "idle"
    /\ held = None
    /\ shown = [v \in Clients |-> <<>>]
    /\ pending = [v \in Clients |-> None]
    /\ touched = FALSE
    /\ rewrites = FALSE
    /\ torn = FALSE
    /\ spent = [k \in Bounded |-> 0]
-----------------------------------------------------------------------------
Over == cur' = NoTask /\ step' = "idle" /\ held' = None
Succeeds == Succeed(cur) /\ Over
Fails == LoseAttempt({cur}) /\ Over
Then(s) == step' = s /\ UNCHANGED <<queue, cur>>

Limit == [fault |-> MaxFaults, retry |-> MaxRetries, edit |-> MaxEdits]
Spend(k) == spent[k] < Limit[k] /\ spent' = [spent EXCEPT ![k] = @ + 1]

\* Two rows of one name make scalar_one_or_none raise.
Ambiguous(a) == speakers[a] > 1

\* Mutant: the row of a new speaker is not flushed.
WithoutRow(a) == speakers

WithRow(a) == [speakers EXCEPT ![a] = @ + 1]

Claim(t) ==
    /\ step = "idle"
    /\ Take(t)
    /\ cur' = t
    /\ step' = CASE TypeOf[t] = "CLEAN" -> "snapshot"
                 [] TypeOf[t] = "SUMMARIZE" -> "digest"
                 [] t \in Appending -> "look up"
                 [] OTHER -> "import"
    /\ held' = IF step' = "import" THEN FALSE ELSE None
    /\ UNCHANGED <<project, snapshots, editors, history, spent>>
-----------------------------------------------------------------------------
(* IMPORT *)

\* An appending import has written nothing yet when it looks its speaker up:
\* held says whether the row is missing.
LookUpSpeaker ==
    /\ step = "look up"
    /\ IF Ambiguous(NameIn[cur])
       THEN Fails
       ELSE Then("import") /\ held' = (speakers[NameIn[cur]] = 0)
    /\ UNCHANGED <<project, snapshots, editors, history, spent>>

NewLines(t) ==
    [n \in written + 1 .. written + Len(TextOf[t]) |->
       [speaker |-> NameIn[t],
        text |-> {[of |-> t, no |-> n, is |-> TextOf[t][n - written]]}]]

\* Mutant: the lines of the transcript before stay.
KeepAll == lines

\* delete_all_lines, unless the import appends.
KeptLines == IF cur \in Appending THEN lines ELSE <<>>

\* An overwriting import deletes first, so that it looks its speaker up with
\* every other session locked out.
ImportLines ==
    /\ step = "import"
    /\ LET missing == IF cur \in Appending THEN held ELSE speakers[NameIn[cur]] = 0
       IN  IF cur \notin Appending /\ Ambiguous(NameIn[cur])
           THEN Fails /\ UNCHANGED project
           ELSE /\ speakers' = IF missing THEN WithRow(NameIn[cur]) ELSE speakers
                /\ lines' = [n \in DOMAIN KeptLines \cup DOMAIN NewLines(cur) |->
                               IF n > written THEN NewLines(cur)[n] ELSE lines[n]]
                /\ written' = written + Len(TextOf[cur])
                /\ Then("tag") /\ held' = None
                /\ UNCHANGED summaries
    /\ UNCHANGED <<snapshots, editors, history, spent>>
-----------------------------------------------------------------------------
(* CLEAN *)

\* Lines that are nothing but junk are dropped, and those of one turn are
\* joined into its first line.
Survivors(L) == {n \in DOMAIN L : \E p \in L[n].text : p.is # "junk"}
SameTurn(L, m, n) ==
    \A k \in Survivors(L) : m <= k /\ k <= n => L[k].speaker = L[m].speaker
Firsts(L) == {n \in Survivors(L) : \A m \in Survivors(L) : m < n => ~SameTurn(L, m, n)}
Turn(L, n) == {m \in Survivors(L) : n <= m /\ SameTurn(L, n, m)}
Cleaned(L) ==
    [n \in Firsts(L) |->
       [speaker |-> L[n].speaker, text |-> UNION {L[m].text : m \in Turn(L, n)}]]

\* Mutants: the newest are kept, or the oldest.
PruneOldest(s) ==
    IF Len(s) <= SnapshotsKept THEN s ELSE SubSeq(s, Len(s) - SnapshotsKept + 1, Len(s))
PruneNewest(s) == IF Len(s) <= SnapshotsKept THEN s ELSE SubSeq(s, 1, SnapshotsKept)

\* The oldest is kept, and the newest of the rest.
Prune(s) ==
    IF Len(s) <= SnapshotsKept THEN s
    ELSE <<Head(s)>> \o SubSeq(s, Len(s) - SnapshotsKept + 2, Len(s))

\* VACUUM INTO has created its file.
BeginSnapshot ==
    /\ step = "snapshot"
    /\ snapshots' = Append(snapshots, [lines |-> None, original |-> ~rewrites])
    /\ Then("vacuum")
    /\ UNCHANGED <<project, held, editors, history, spent>>

\* VACUUM INTO is done, and the snapshots are pruned.
FinishedSnapshot ==
    Append(SubSeq(snapshots, 1, Len(snapshots) - 1), [lines |-> lines, original |-> ~rewrites])
Snapshot ==
    /\ step = "vacuum"
    /\ snapshots' = Prune(FinishedSnapshot)
    /\ touched' = FALSE
    /\ Then("read")
    /\ UNCHANGED <<project, held, editors, rewrites, torn, spent>>

ReadLines ==
    /\ step = "read"
    /\ held' = lines
    /\ Then("rewrite")
    /\ UNCHANGED <<project, snapshots, editors, history, spent>>

\* delete_all_lines and add_lines of what was read, in one commit.
Rewrite ==
    /\ step = "rewrite"
    /\ lines' = Cleaned(held)
    /\ rewrites' = TRUE
    /\ Then("tag") /\ held' = None
    /\ UNCHANGED <<written, speakers, summaries, snapshots, editors, touched, torn, spent>>
-----------------------------------------------------------------------------
(* SUMMARIZE *)

Digest ==
    /\ step = "digest"
    /\ IF lines = <<>> THEN Fails ELSE Then("model") /\ UNCHANGED held
    /\ UNCHANGED <<project, snapshots, editors, history, spent>>

AskModel ==
    /\ step = "model"
    /\ (Then("number") /\ UNCHANGED held) \/ Fails
    /\ UNCHANGED <<project, snapshots, editors, history, spent>>

Greatest(s) ==
    IF s = <<>> THEN 0 ELSE CHOOSE n \in {s[i] : i \in DOMAIN s} : \A i \in DOMAIN s : s[i] <= n

\* Mutant: the next number is one more than there are.
CountedNumber == Len(summaries) + 1

NextNumber == Greatest(summaries) + 1

PickNumber ==
    /\ step = "number"
    /\ held' = NextNumber
    /\ Then("add")
    /\ UNCHANGED <<project, snapshots, editors, history, spent>>

AddSummary ==
    /\ step = "add"
    /\ summaries' = Append(summaries, held)
    /\ Then("tag") /\ held' = None
    /\ UNCHANGED <<lines, written, speakers, snapshots, editors, history, spent>>
-----------------------------------------------------------------------------
\* tag_as_transcript, backfill_speakers_count and _mark_summarized, in the
\* archive database.
Tag ==
    /\ step = "tag"
    /\ Succeeds
    /\ UNCHANGED <<project, snapshots, editors, history, spent>>

(* Faults *)

\* A statement of the handler raises, for a database that stays locked or a
\* full disk, and its session is rolled back.  The file of a VACUUM INTO that
\* raises stays as far as it was written, for nothing removes it.
Raises ==
    /\ step \in {"look up", "import", "snapshot", "vacuum", "read", "rewrite", "digest",
                 "number", "add", "tag"}
    /\ Spend("fault")
    /\ Fails
    /\ torn' = (torn \/ step = "vacuum")
    /\ UNCHANGED <<project, snapshots, editors, touched, rewrites>>

\* The worker is stopped; a VACUUM INTO under way is finished by its thread.
Stop ==
    /\ cur # NoTask
    /\ Spend("fault")
    /\ GiveBack(cur)
    /\ cur' = NoTask /\ step' = "down" /\ held' = None
    /\ snapshots' = IF step = "vacuum" THEN FinishedSnapshot ELSE snapshots
    /\ UNCHANGED <<project, editors, history>>

\* A VACUUM INTO under way leaves an incomplete file.
Crash ==
    /\ cur # NoTask
    /\ Spend("fault")
    /\ cur' = NoTask /\ step' = "down" /\ held' = None
    /\ torn' = (torn \/ step = "vacuum")
    /\ UNCHANGED <<queue, project, snapshots, editors, touched, rewrites>>

\* The next process recovers the interrupted task before it claims one.
Restart ==
    /\ step = "down"
    /\ step' = "idle"
    /\ IF In("WORKING") = {} THEN UNCHANGED queue ELSE LoseAttempt(In("WORKING"))
    /\ UNCHANGED <<project, snapshots, cur, held, editors, history, spent>>
-----------------------------------------------------------------------------
(* The users *)

Ask(t) ==
    /\ \/ Submit(t) /\ UNCHANGED spent
       \/ attempts[t] < MaxAttempts /\ Retry(t) /\ Spend("retry")
    /\ UNCHANGED <<project, snapshots, run, editors, history>>

\* Bound: nobody looks who has no edits left.
LoadLines(v) ==
    /\ spent["edit"] < MaxEdits
    /\ shown' = [shown EXCEPT ![v] = lines]
    /\ UNCHANGED <<queue, project, snapshots, run, pending, history, spent>>

Corrected(text) == {[p EXCEPT !.is = "corrected"] : p \in text}

\* A text field is left with other text than the editor loaded.  A line that
\* is gone raises, and nothing is saved.
EditText(v, n) ==
    LET typed == Corrected(shown[v][n].text)
    IN  /\ typed # shown[v][n].text
        /\ n \in DOMAIN lines
        /\ Spend("edit")
        /\ lines' = [lines EXCEPT ![n].text = typed]
        /\ shown' = [shown EXCEPT ![v][n].text = typed]
        /\ touched' = TRUE
        /\ UNCHANGED <<queue, written, speakers, summaries, snapshots, run, pending,
                       rewrites, torn>>

\* update_line with a speaker: get_or_create_speaker looks the name up ...
ChooseSpeaker(v, n, a) ==
    /\ pending[v] = None
    /\ shown[v][n].speaker # a
    /\ ~Ambiguous(a)
    /\ Spend("edit")
    /\ pending' = [pending EXCEPT ![v] = [line |-> n, name |-> a, new |-> speakers[a] = 0]]
    /\ UNCHANGED <<queue, project, snapshots, run, shown, history>>

\* ... and adds the row it missed, in the commit that changes the line.
SaveSpeaker(v) ==
    /\ pending[v] # None
    /\ LET n == pending[v].line
           a == pending[v].name
       IN  IF n \in DOMAIN lines
           THEN /\ speakers' = IF pending[v].new THEN WithRow(a) ELSE speakers
                /\ lines' = [lines EXCEPT ![n].speaker = a]
                /\ shown' = [shown EXCEPT ![v] =
                               IF n \in DOMAIN @ THEN [@ EXCEPT ![n].speaker = a] ELSE @]
                /\ touched' = TRUE
           ELSE UNCHANGED <<speakers, lines, shown, touched>>
    /\ pending' = [pending EXCEPT ![v] = None]
    /\ UNCHANGED <<queue, written, summaries, snapshots, run, rewrites, torn, spent>>

\* The editor loads the lines again.
DeleteLine(v, n) ==
    /\ n \in DOMAIN lines
    /\ Spend("edit")
    /\ lines' = [m \in DOMAIN lines \ {n} |-> lines[m]]
    /\ shown' = [shown EXCEPT ![v] = lines']
    /\ touched' = TRUE
    /\ UNCHANGED <<queue, written, speakers, summaries, snapshots, run, pending,
                   rewrites, torn>>

DeleteSummary(i) ==
    /\ Spend("edit")
    /\ summaries' = SubSeq(summaries, 1, i - 1) \o SubSeq(summaries, i + 1, Len(summaries))
    /\ UNCHANGED <<queue, lines, written, speakers, snapshots, run, editors, history>>
-----------------------------------------------------------------------------
HandlerStep ==
    \/ LookUpSpeaker \/ ImportLines
    \/ BeginSnapshot \/ Snapshot \/ ReadLines \/ Rewrite
    \/ Digest \/ AskModel \/ PickNumber \/ AddSummary
    \/ Tag

EditorStep(v) ==
    \/ LoadLines(v)
    \/ SaveSpeaker(v)
    \/ \E n \in DOMAIN shown[v] :
          \/ EditText(v, n)
          \/ DeleteLine(v, n)
          \/ \E a \in Names : ChooseSpeaker(v, n, a)

Next ==
    \/ \E t \in Tasks : Claim(t) \/ Ask(t)
    \/ HandlerStep
    \/ Raises \/ Stop \/ Crash \/ Restart
    \/ \E v \in Clients : EditorStep(v)
    \/ \E i \in DOMAIN summaries : DeleteSummary(i)

Spec == Init /\ [][Next]_vars
-----------------------------------------------------------------------------
(* Properties *)

\* "nothing is rewritten without a copy to go back to" (cleaning.py): when a
\* clean rewrites the lines, a snapshot holds exactly the lines it replaces,
\* unless a user changed a line after the snapshot was taken.
HasCopy == \E i \in DOMAIN snapshots : snapshots[i].lines = lines
UntouchedHasCopy == [][Rewrite /\ ~touched => HasCopy]_vars

\* The same, as cleaning.py says it, whoever changes what meanwhile.
RewriteHasCopy == [][Rewrite => HasCopy]_vars

\* The oldest snapshot "holds the transcript as it was before any clean"
\* (cleaning.py), whatever is pruned, interrupted or retried, as long as no
\* snapshot is cut short, by a crash or because VACUUM INTO fails: the file
\* that is left may be the oldest then.
OriginalKept ==
    rewrites /\ ~torn => Whole(snapshots[1]) /\ snapshots[1].original

\* The same, as cleaning.py says it.
OldestIsBeforeAnyClean == rewrites => Whole(snapshots[1]) /\ snapshots[1].original

\* To run again is "harmless for an import [...], which replace their lines"
\* (docs/tasks.md): however often an import ran, the transcript has each line
\* of its file once, joined or corrected as it may be.
Imported(t) == {p \in Pieces(lines) : p.of = t}
HasItsLinesOnce(t) ==
    /\ Cardinality({p.no : p \in Imported(t)}) <= Len(TextOf[t])
    /\ \A p, q \in Imported(t) : p.no = q.no => p = q

\* So it is for an import that overwrites ...
OverwritesOnce == \A t \in Imports \ Appending : HasItsLinesOnce(t)

\* ... and it is not for one that appends.
ImportsOnce == \A t \in Imports : HasItsLinesOnce(t)

\* Summaries can be told apart by their number, whatever was deleted, also
\* while one is being written: the next run never takes a number in use.
SummariesNumbered ==
    \A i, j \in DOMAIN summaries : i # j => summaries[i] # summaries[j]
=============================================================================
